---------------------------- MODULE FixtureProofs ----------------------------
(***************************************************************************)
(* Proofs about Fixture, for every set of suites, every bound and every    *)
(* set of failing steps.                                                   *)
(***************************************************************************)
EXTENDS Fixture, SequenceTheorems, FiniteSetTheorems, TLAPS

MountMap == [MountPoints -> Seq(Mounts)]

-----------------------------------------------------------------------------
(***************************************************************************)
(* The kernel's mount operators keep mount maps mount maps and change the  *)
(* depth of the stacks as their names say.                                 *)
(***************************************************************************)

\* Dropping some kind of pin from every mount of a stack keeps the stack.
LEMMA UnpinStack ==
    ASSUME NEW st \in Seq(Mounts), NEW P
    PROVE  Unpinned(st, P) \in Seq(Mounts) /\ Len(Unpinned(st, P)) = Len(st)
<1>1. \A i \in 1..Len(st) : st[i] \in Mounts
  BY ElementOfSeq
<1>2. \A i \in 1..Len(st) : [st[i] EXCEPT !.pins = @ \ P] \in Mounts
  BY <1>1 DEF Mounts
<1>3. Len(st) \in Nat
  BY LenProperties
<1> QED
  BY <1>2, <1>3 DEF Unpinned

\* Flushing the delayed fputs keeps every stack and the depth of each.
LEMMA FlushMap ==
    ASSUME NEW m \in MountMap
    PROVE  /\ Flush(m) \in MountMap
           /\ \A mp \in MountPoints : Len(Flush(m)[mp]) = Len(m[mp])
<1>1. \A mp \in MountPoints : m[mp] \in Seq(Mounts)
  BY DEF MountMap
<1> QED
  BY <1>1, UnpinStack DEF Flush, MountMap

\* So does dropping the export table's reference.
LEMMA UncachedMap ==
    ASSUME NEW m \in MountMap
    PROVE  /\ Uncached(m) \in MountMap
           /\ \A mp \in MountPoints : Len(Uncached(m)[mp]) = Len(m[mp])
<1>1. m["export"] \in Seq(Mounts)
  BY DEF MountMap, MountPoints
<1> QED
  BY <1>1, UnpinStack DEF Uncached, MountMap, MountPoints

\* Unmounting takes one mount off one stack and leaves the others alone.
LEMMA PopMap ==
    ASSUME NEW m \in MountMap, NEW mp \in MountPoints
    PROVE  /\ Pop(m, mp) \in MountMap
           /\ \A q \in MountPoints \ {mp} : Pop(m, mp)[q] = m[q]
           /\ Len(Pop(m, mp)[mp]) = IF m[mp] = <<>> THEN 0 ELSE Len(m[mp]) - 1
<1>1. m[mp] \in Seq(Mounts)
  BY DEF MountMap
<1> QED
  BY <1>1, HeadTailProperties, EmptySeq DEF Pop, MountMap

\* Mounting adds one mount to one stack and leaves the others alone.
LEMMA PushMap ==
    ASSUME NEW m \in MountMap, NEW mp \in MountPoints, NEW s \in Suites,
           opts \in Suites \cup {NoSuite}
    PROVE  /\ Push(m, mp, s) \in MountMap
           /\ \A q \in MountPoints \ {mp} : Push(m, mp, s)[q] = m[q]
           /\ Len(Push(m, mp, s)[mp]) = Len(m[mp]) + 1
<1> DEFINE new == [by |-> s, opts |-> opts, ro |-> FALSE, pins |-> {}]
<1>1. m[mp] \in Seq(Mounts)
  BY DEF MountMap
<1>2. new \in Mounts
  BY DEF Mounts
<1>3. <<new>> \o m[mp] \in Seq(Mounts) /\ Len(<<new>> \o m[mp]) = Len(m[mp]) + 1
  BY <1>1, <1>2, ConcatProperties
<1> QED
  BY <1>1, <1>3 DEF Push, MountMap

\* Changing the pins of one mount of a stack.
LEMMA RepinMap ==
    ASSUME NEW m \in MountMap, NEW mp \in MountPoints,
           NEW i \in 1..Len(m[mp]), NEW P \in SUBSET PinKinds
    PROVE  /\ Repin(m, mp, i, P) \in MountMap
           /\ \A q \in MountPoints : Len(Repin(m, mp, i, P)[q]) = Len(m[q])
<1>1. m[mp] \in Seq(Mounts)
  BY DEF MountMap
<1>2. m[mp][i] \in Mounts
  BY <1>1, ElementOfSeq
<1>3. [m[mp][i] EXCEPT !.pins = P] \in Mounts
  BY <1>2 DEF Mounts
<1>4. /\ [m[mp] EXCEPT ![i] = [m[mp][i] EXCEPT !.pins = P]] \in Seq(Mounts)
      /\ Len([m[mp] EXCEPT ![i] = [m[mp][i] EXCEPT !.pins = P]]) = Len(m[mp])
  BY <1>1, <1>3, ExceptSeq
<1>5. Repin(m, mp, i, P)
        = [m EXCEPT ![mp] = [m[mp] EXCEPT ![i] = [m[mp][i] EXCEPT !.pins = P]]]
  BY <1>1, <1>2 DEF MountMap, Repin
<1> QED
  BY <1>1, <1>4, <1>5 DEF MountMap

\* Changing the read-only flag of the top mount.
LEMMA RemountMap ==
    ASSUME NEW m \in MountMap, m["client"] # <<>>, NEW b \in BOOLEAN
    PROVE  /\ Remount(m, b) \in MountMap
           /\ \A q \in MountPoints : Len(Remount(m, b)[q]) = Len(m[q])
<1> DEFINE st == m["client"]
<1>1. st \in Seq(Mounts) /\ 1 \in 1..Len(st)
  BY EmptySeq DEF MountMap, MountPoints
<1>2. st[1] \in Mounts
  BY <1>1, ElementOfSeq
<1>3. [st[1] EXCEPT !.ro = b] \in Mounts
  BY <1>2 DEF Mounts
<1>4. /\ [st EXCEPT ![1] = [st[1] EXCEPT !.ro = b]] \in Seq(Mounts)
      /\ Len([st EXCEPT ![1] = [st[1] EXCEPT !.ro = b]]) = Len(st)
  BY <1>1, <1>3, ExceptSeq
<1>5. Remount(m, b) = [m EXCEPT !["client"] = [st EXCEPT ![1] = [st[1] EXCEPT !.ro = b]]]
  BY <1>1, <1>2 DEF MountMap, MountPoints, Remount
<1> QED
  BY <1>1, <1>4, <1>5 DEF MountMap, MountPoints

\* A stack is empty exactly when its length is 0.
LEMMA EmptyStack ==
    ASSUME NEW m \in MountMap, NEW mp \in MountPoints
    PROVE  /\ Len(m[mp]) \in Nat
           /\ m[mp] = <<>> <=> Len(m[mp]) = 0
<1>1. m[mp] \in Seq(Mounts)
  BY DEF MountMap
<1> QED
  BY <1>1, EmptySeq, LenProperties

-----------------------------------------------------------------------------
(***************************************************************************)
(* The inductive invariant.  The mutex is held exactly by the suite inside *)
(* bring-up or teardown, and nobody holds the deployment meanwhile; each   *)
(* step of bring-up finds what the steps before it made.                   *)
(***************************************************************************)
Critical == BringupLabels \cup TeardownLabels

LockInv == \A s \in Suites : lock = s <=> pc[s] \in Critical

CountInv == /\ RefsCountHolders
            /\ lock # NoSuite => Holders = {}

Stage(s) ==
    /\ pc[s] \in {"nfsdfs", "exports", "nfsd", "client", "root"} =>
         env["tmpfs"] /\ mounts["export"] # <<>>
    /\ pc[s] \in {"exports", "nfsd", "client", "root"} =>
         env["nfsdfs"] /\ mounts["nfsdfs"] # <<>>
    /\ pc[s] \in {"nfsd", "client", "root"} => cache = {"ip_map", "export", "expkey"}
    /\ pc[s] \in {"client", "root"} =>
         env["nfsd"] /\ nfsd.threads /\ nfsd.socks = {"udp", "tcp"}
    /\ pc[s] = "root" => env["client"] /\ mounts["client"] # <<>>

StageInv == \A s \in Suites : Stage(s)

IInv == TypeOK /\ LockInv /\ CountInv /\ StageInv /\ MountedWhileHeld

\* Moving one suite's program counter changes the set of holders at most by
\* that suite.
LEMMA HoldersStep ==
    ASSUME pc \in [Suites -> Labels], NEW s \in Suites, NEW l \in Labels,
           Goto(s, l)
    PROVE  /\ pc' \in [Suites -> Labels]
           /\ pc'[s] = l /\ \A t \in Suites \ {s} : pc'[t] = pc[t]
           /\ l \in CaseLabels \cup {"put"} => Holders' = Holders \cup {s}
           /\ l \notin CaseLabels \cup {"put"} => Holders' = Holders \ {s}
           /\ s \in Holders <=> pc[s] \in CaseLabels \cup {"put"}
BY DEF Goto, Holders

\* The holders are finitely many, so the refcount can be compared with them.
LEMMA HoldersFinite == IsFiniteSet(Holders)
BY FixtureAssumption, FS_Subset DEF Holders

\* The initial states satisfy the invariant.
THEOREM InitIInv == Init => IInv
<1> SUFFICES ASSUME Init PROVE IInv
  OBVIOUS
<1>1. Holders = {}
  BY DEF Init, Holders, CaseLabels
<1>2. mounts \in [MountPoints -> Seq(Mounts)]
  BY EmptySeq DEF Init
<1>3. TypeOK
  <2>1. pc \in [Suites -> Labels]
    BY DEF Init, Labels
  <2>2. tries \in [Suites -> 0..MaxTries] /\ sweeps \in [Suites -> 0..ScratchTries]
    BY FixtureAssumption DEF Init
  <2>3. env \in [EnvFlags -> BOOLEAN]
    BY DEF Init, EnvDown
  <2>4. nfsd \in [serv : BOOLEAN, socks : SUBSET {"udp", "tcp"},
                 threads : BOOLEAN]
    BY DEF Init, NfsdDown
  <2> QED
    BY <1>2, <2>1, <2>2, <2>3, <2>4 DEF Init, TypeOK
<1>4. CountInv
  BY <1>1, FS_EmptySet DEF Init, CountInv, RefsCountHolders
<1>5. LockInv /\ StageInv
  BY FixtureAssumption DEF Init, LockInv, StageInv, Stage, Critical, BringupLabels, TeardownLabels
<1> QED
  BY <1>1, <1>3, <1>4, <1>5 DEF IInv, MountedWhileHeld

-----------------------------------------------------------------------------
(***************************************************************************)
(* Type correctness of every step.                                         *)
(***************************************************************************)
NfsdType == [serv : BOOLEAN, socks : SUBSET {"udp", "tcp"},
             threads : BOOLEAN]

\* What the attempts of the settling loops do to mounts and counters.
LEMMA SettleType ==
    ASSUME TypeOK, NEW s \in Suites, NEW mp \in MountPoints,
           SettleAgain(s, mp) \/ Settled(s, mp)
    PROVE  /\ mounts' \in MountMap
           /\ tries' \in [Suites -> 0..MaxTries]
           /\ \A q \in MountPoints \ {mp} : Len(mounts'[q]) = Len(mounts[q])
<1>1. mounts \in MountMap /\ tries \in [Suites -> 0..MaxTries]
  BY DEF TypeOK, MountMap
<1>2. /\ Flush(mounts) \in MountMap
      /\ \A q \in MountPoints : Len(Flush(mounts)[q]) = Len(mounts[q])
  BY <1>1, FlushMap
<1>3. CASE SettleAgain(s, mp)
  BY <1>1, <1>2, <1>3, FixtureAssumption DEF SettleAgain, BeforeAttempt
<1>4. CASE Settled(s, mp)
  <2>1. tries' \in [Suites -> 0..MaxTries]
    BY <1>1, <1>4, FixtureAssumption DEF Settled
  <2>2. CASE mounts' = Pop(Flush(mounts), mp)
    BY <1>2, <2>1, <2>2, PopMap
  <2>3. CASE mounts' = Pop(mounts, mp)
    BY <1>1, <2>1, <2>3, PopMap
  <2> QED
    BY <1>4, <2>2, <2>3 DEF Settled, BeforeAttempt
<1> QED
  BY <1>3, <1>4

\* The counter of xfs_scratch_umount() stays within its bound.
LEMMA SweepsType ==
    ASSUME TypeOK, NEW s \in Suites, NEW next, ScratchSweep(s, next)
    PROVE  sweeps' \in [Suites -> 0..ScratchTries]
<1>1. sweeps \in [Suites -> 0..ScratchTries] /\ ScratchTries \in Nat
  BY FixtureAssumption DEF TypeOK
<1>2. \/ sweeps' = sweeps
      \/ sweeps[s] + 1 < ScratchTries /\ sweeps' = [sweeps EXCEPT ![s] = sweeps[s] + 1]
      \/ sweeps' = [sweeps EXCEPT ![s] = 0]
  BY DEF ScratchSweep, MoreSweeps
<1> QED
  BY <1>1, <1>2

\* suite_init, xfstests_nfs_get() and xfs_bringup() keep the types.
LEMMA GetType ==
    ASSUME IInv, NEW s \in Suites, Get(s)
    PROVE  TypeOK'
<1> USE DEF Goto, locals, kernel
<1>0. TypeOK /\ mounts \in MountMap /\ pc \in [Suites -> Labels]
  BY DEF IInv, TypeOK, MountMap
<1>l. \A l \in Labels : Goto(s, l) => pc' \in [Suites -> Labels]
  BY <1>0
<1>1. CASE SuiteInit(s)
  BY <1>0, <1>1 DEF SuiteInit, TypeOK, Labels
<1>2. CASE GetJoin(s)
  BY <1>0, <1>2 DEF GetJoin, TypeOK, Labels, CaseLabels
<1>3. CASE GetFirst(s)
  BY <1>0, <1>3 DEF GetFirst, TypeOK, Labels, BringupLabels
<1>4. CASE LoopbackUp(s)
  BY <1>0, <1>4 DEF LoopbackUp, GiveUp, TypeOK, Labels, BringupLabels, TeardownLabels
<1>5. CASE MakeDirs(s)
  BY <1>0, <1>5 DEF MakeDirs, GiveUp, TypeOK, Labels, BringupLabels, TeardownLabels, MountPoints
<1>6. ASSUME NEW label, NEW mp \in MountPoints, NEW flag \in EnvFlags, NEW next \in Labels,
             MountStep(s, label, mp, flag, next)
      PROVE  TypeOK'
  <2>1. Push(mounts, mp, s) \in MountMap
    BY <1>0, PushMap DEF TypeOK
  <2>2. mounts' \in MountMap
    BY <1>0, <1>6, <2>1 DEF MountStep
  <2>3. pc' \in [Suites -> Labels] /\ failing' \in BOOLEAN
    <3>1. \/ Goto(s, next) /\ UNCHANGED failing
          \/ Goto(s, "td_hostbin") /\ failing' = TRUE
      BY <1>6 DEF MountStep, GiveUp
    <3>2. "td_hostbin" \in Labels /\ failing \in BOOLEAN
      BY <1>0 DEF TypeOK, Labels, TeardownLabels
    <3> QED
      BY <1>l, <3>1, <3>2
  <2>4. env' \in [EnvFlags -> BOOLEAN]
    BY <1>0, <1>6 DEF MountStep, TypeOK
  <2> QED
    BY <1>0, <1>6, <2>2, <2>3, <2>4 DEF MountStep, TypeOK, MountMap
<1>7. CASE MountTmpfs(s) \/ MountNfsdfs(s) \/ MountClient(s)
  BY <1>6, <1>7 DEF MountTmpfs, MountNfsdfs, MountClient, MountPoints, EnvFlags,
                    Labels, BringupLabels
<1>8. CASE ConfigureExports(s)
  <2>1. mounts["export"] # <<>>
    BY <1>8 DEF IInv, StageInv, Stage, ConfigureExports
  <2>2. 1 \in 1..Len(mounts["export"])
    BY <1>0, <2>1, EmptyStack DEF MountPoints
  <2>3. mounts["export"][1] \in Mounts
    BY <1>0, <2>2, ElementOfSeq DEF MountMap, MountPoints
  <2>4. mounts["export"][1].pins \cup {"cache"} \in SUBSET PinKinds
    BY <2>3 DEF Mounts, PinKinds
  <2>9. Repin(mounts, "export", 1, mounts["export"][1].pins \cup {"cache"}) \in MountMap
    BY <1>0, <2>2, <2>4, RepinMap DEF MountPoints
  <2>10. \A n \in 0..3 : Feed(n) => mounts' \in MountMap
    BY <1>0, <2>9 DEF Feed
  <2>5. \A n \in 0..3 : {CacheLines[j] : j \in 1..n} \subseteq {"ip_map", "export", "expkey"}
    BY DEF CacheLines
  <2>6. \A n \in 0..3 : Feed(n) => cache' \subseteq {"ip_map", "export", "expkey"}
    BY <1>0, <2>5 DEF Feed, TypeOK
  <2>7. mounts' \in MountMap /\ cache' \subseteq {"ip_map", "export", "expkey"}
    BY <1>8, <2>10, <2>6 DEF ConfigureExports
  <2> QED
    BY <1>0, <1>8, <2>7 DEF ConfigureExports, GiveUp, TypeOK, Labels, BringupLabels,
                            TeardownLabels, MountMap
<1>9. CASE StartNfsd(s)
  <2>1. nfsd' \in NfsdType
    <3>1. nfsd \in NfsdType
      BY <1>0 DEF TypeOK, NfsdType
    <3>2. /\ [nfsd EXCEPT !.serv = TRUE] \in NfsdType
          /\ [nfsd EXCEPT !.serv = TRUE, !.socks = {"udp"}] \in NfsdType
          /\ NfsdDown \in NfsdType
          /\ [serv |-> TRUE, socks |-> {"udp", "tcp"}, threads |-> TRUE] \in NfsdType
      BY <3>1 DEF NfsdType, NfsdDown
    <3> QED
      BY <1>9, <3>1, <3>2 DEF StartNfsd
  <2>2. pc' \in [Suites -> Labels] /\ failing' \in BOOLEAN /\ env' \in [EnvFlags -> BOOLEAN]
    BY <1>0, <1>9 DEF StartNfsd, GiveUp, TypeOK, Labels, BringupLabels, TeardownLabels
  <2> QED
    BY <1>0, <1>9, <2>1, <2>2 DEF StartNfsd, TypeOK, NfsdType
<1>10. CASE CaptureRoot(s)
  BY <1>0, <1>10 DEF CaptureRoot, TypeOK, Labels, CaseLabels
<1> QED
  BY <1>1, <1>2, <1>3, <1>4, <1>5, <1>7, <1>8, <1>9, <1>10 DEF Get

\* A case's effect on the mounts: the three mounts of the deployment keep
\* their depth.
Deployed == {"export", "nfsdfs", "client"}

SameDepth == \A mp \in Deployed : Len(mounts'[mp]) = Len(mounts[mp])

\* What cases and the kernel do never changes the depth of a deployed stack.
LEMMA CaseMounts ==
    ASSUME IInv, NEW s \in Suites,
           Case(s) \/ CaseLoop(s) \/ SuiteExit(s) \/ Async
    PROVE  mounts' \in MountMap /\ SameDepth
<1> USE DEF locals, kernel
<1>0. TypeOK /\ mounts \in MountMap /\ opts \in Suites \cup {NoSuite}
  BY DEF IInv, TypeOK, MountMap
<1>m. {"export", "nfsdfs", "client", "scratch", "hostbin"} \subseteq MountPoints
  BY DEF MountPoints
<1>s. (\A q \in MountPoints \ {"scratch", "hostbin"} : Len(mounts'[q]) = Len(mounts[q]))
        => SameDepth
  BY <1>m DEF SameDepth, Deployed
<1>f. Flush(mounts) \in MountMap /\ \A q \in MountPoints : Len(Flush(mounts)[q]) = Len(mounts[q])
  BY <1>0, FlushMap
<1>u. UNCHANGED mounts => mounts' \in MountMap /\ SameDepth
  BY <1>0, <1>s
<1>p. ASSUME NEW mp \in MountPoints, NEW i \in 1..Len(mounts[mp])
      PROVE  mounts[mp][i].pins \subseteq PinKinds
  <2>1. mounts[mp][i] \in Mounts
    BY <1>0, ElementOfSeq DEF MountMap
  <2> QED
    BY <2>1 DEF Mounts
<1>c. pc[s] \in CaseLabels => mounts["client"] # <<>>
  BY DEF IInv, MountedWhileHeld, Holders
<1>1. ASSUME NEW mp \in MountPoints, NEW pin \in PinKinds, CaseTouch(s, mp, pin)
      PROVE  mounts' \in MountMap /\ SameDepth
  <2>1. 1 \in 1..Len(mounts[mp])
    BY <1>0, <1>1, EmptyStack DEF CaseTouch
  <2>2. mounts[mp][1].pins \cup {pin} \in SUBSET PinKinds
    BY <1>p, <2>1
  <2>3. mounts' = Repin(mounts, mp, 1, mounts[mp][1].pins \cup {pin})
    BY <1>1 DEF CaseTouch
  <2>4. mounts' \in MountMap /\ \A q \in MountPoints : Len(mounts'[q]) = Len(mounts[q])
    BY <1>0, <2>1, <2>2, <2>3, RepinMap
  <2> QED
    BY <1>s, <2>4
<1>2. CASE ScratchMount(s)
  <2>1. CASE mounts' = Push(mounts, "scratch", s)
    <3>1. "scratch" \in MountPoints
      BY <1>m
    <3>2. /\ mounts' \in MountMap
          /\ \A q \in MountPoints \ {"scratch"} : mounts'[q] = mounts[q]
      BY <1>0, <2>1, <3>1, PushMap
    <3> QED
      BY <1>s, <3>2
  <2> QED
    BY <1>2, <1>u, <2>1 DEF ScratchMount
<1>3. CASE HostbinMount(s)
  <2>1. CASE mounts' = Push(mounts, "hostbin", s)
    <3>1. "hostbin" \in MountPoints
      BY <1>m
    <3>2. /\ mounts' \in MountMap
          /\ \A q \in MountPoints \ {"hostbin"} : mounts'[q] = mounts[q]
      BY <1>0, <2>1, <3>1, PushMap
    <3> QED
      BY <1>s, <3>2
  <2> QED
    BY <1>3, <1>u, <2>1 DEF HostbinMount
<1>4. CASE RemountRW(s)
  <2>1. mounts["client"] # <<>>
    BY <1>4, <1>c DEF RemountRW, CaseLabels
  <2>2. Flush(mounts)["client"] # <<>>
    BY <1>0, <1>f, <2>1, EmptyStack DEF MountPoints
  <2> QED
    <3>1. mounts' = Remount(Flush(mounts), FALSE)
      BY <1>4 DEF RemountRW
    <3>2. mounts' \in MountMap /\ \A q \in MountPoints : Len(mounts'[q]) = Len(mounts[q])
      BY <1>f, <2>2, <3>1, RemountMap
    <3> QED
      BY <1>s, <3>2
<1>5. ASSUME NEW l \in CaseLabels, CaseCall(s, l)
      PROVE  mounts' \in MountMap /\ SameDepth
  BY <1>5, <1>u DEF CaseCall
<1>6. CASE RemountRO(s)
  <2>1. mounts["client"] # <<>>
    BY <1>6, <1>c DEF RemountRO, CaseLabels
  <2>2. Flush(mounts)["client"] # <<>>
    BY <1>0, <1>f, <2>1, EmptyStack DEF MountPoints
  <2>3. \/ mounts' = Flush(mounts)
        \/ mounts' = Remount(Flush(mounts), TRUE)
    BY <1>6 DEF RemountRO
  <2>r. /\ Remount(Flush(mounts), TRUE) \in MountMap
        /\ \A q \in MountPoints : Len(Remount(Flush(mounts), TRUE)[q]) = Len(Flush(mounts)[q])
    BY <1>f, <2>2, RemountMap
  <2>4. mounts' \in MountMap /\ \A q \in MountPoints : Len(mounts'[q]) = Len(mounts[q])
    BY <1>f, <2>3, <2>r
  <2> QED
    BY <1>s, <2>4
<1>7. CASE ScratchUmount(s)
  BY <1>0, <1>m, <1>s, <1>7, SettleType DEF ScratchUmount, ScratchSweep
<1>8. CASE SuiteExit(s)
  BY <1>8, <1>u DEF SuiteExit
<1>9. CASE DelayedFput
  BY <1>9, <1>f, <1>s DEF DelayedFput
<1>10. ASSUME NEW mp \in MountPoints, NEW i \in 1..Len(mounts[mp]), LateDone(mp, i)
       PROVE  mounts' \in MountMap /\ SameDepth
  <2>1. mounts[mp][i].pins \ {"late"} \in SUBSET PinKinds
    BY <1>p
  <2>2. mounts' = Repin(mounts, mp, i, mounts[mp][i].pins \ {"late"})
    BY <1>10 DEF LateDone
  <2>3. mounts' \in MountMap /\ \A q \in MountPoints : Len(mounts'[q]) = Len(mounts[q])
    BY <1>0, <2>1, <2>2, RepinMap
  <2> QED
    BY <1>s, <2>3
<1> QED
  BY <1>1, <1>2, <1>3, <1>4, <1>5, <1>6, <1>7, <1>8, <1>9, <1>10
     DEF Case, CaseLoop, Async

\* The cases, their loops and the kernel keep the types.
LEMMA CaseType ==
    ASSUME IInv, NEW s \in Suites,
           Case(s) \/ CaseLoop(s) \/ SuiteExit(s) \/ Async
    PROVE  TypeOK'
<1> USE DEF Goto, locals, kernel
<1>0. TypeOK
  BY DEF IInv
<1>m. mounts' \in [MountPoints -> Seq(Mounts)]
  BY CaseMounts DEF MountMap
<1>1. ASSUME NEW mp \in MountPoints, NEW pin \in PinKinds, CaseTouch(s, mp, pin)
      PROVE  TypeOK'
  BY <1>0, <1>m, <1>1 DEF CaseTouch, TypeOK
<1>2. CASE ScratchMount(s)
  BY <1>0, <1>m, <1>2 DEF ScratchMount, TypeOK, MountPoints
<1>3. CASE HostbinMount(s)
  BY <1>0, <1>m, <1>3 DEF HostbinMount, TypeOK, MountPoints
<1>4. CASE RemountRW(s)
  BY <1>0, <1>m, <1>4 DEF RemountRW, TypeOK
<1>5. ASSUME NEW l \in CaseLabels, CaseCall(s, l)
      PROVE  TypeOK'
  BY <1>0, <1>m, <1>5 DEF CaseCall, TypeOK, Labels, CaseLabels
<1>6. CASE RemountRO(s)
  <2>1. tries' \in [Suites -> 0..MaxTries]
    <3>1. tries \in [Suites -> 0..MaxTries] /\ MaxTries \in Nat
      BY <1>0, FixtureAssumption DEF TypeOK
    <3>2. \/ tries[s] + 1 < MaxTries /\ tries' = [tries EXCEPT ![s] = tries[s] + 1]
          \/ tries' = [tries EXCEPT ![s] = 0]
      BY <1>6 DEF RemountRO
    <3> QED
      BY <3>1, <3>2
  <2>2. pc' \in [Suites -> Labels]
    BY <1>0, <1>6 DEF RemountRO, TypeOK, Labels, CaseLabels
  <2> QED
    BY <1>0, <1>m, <1>6, <2>1, <2>2 DEF RemountRO, TypeOK
<1>7. CASE ScratchUmount(s)
  <2>1. tries' \in [Suites -> 0..MaxTries]
    BY <1>0, <1>7, SettleType DEF ScratchUmount, ScratchSweep, MountPoints
  <2>2. sweeps' \in [Suites -> 0..ScratchTries]
    BY <1>0, <1>7, SweepsType DEF ScratchUmount
  <2>3. pc' \in [Suites -> Labels]
    BY <1>0, <1>7 DEF ScratchUmount, ScratchSweep, TypeOK, Labels, CaseLabels
  <2> QED
    BY <1>0, <1>m, <1>7, <2>1, <2>2, <2>3 DEF ScratchUmount, TypeOK
<1>8. CASE SuiteExit(s)
  BY <1>0, <1>m, <1>8 DEF SuiteExit, TypeOK, Labels
<1>9. CASE DelayedFput
  BY <1>0, <1>m, <1>9 DEF DelayedFput, TypeOK
<1>10. ASSUME NEW mp \in MountPoints, NEW i \in 1..Len(mounts[mp]), LateDone(mp, i)
       PROVE  TypeOK'
  BY <1>0, <1>m, <1>10 DEF LateDone, TypeOK
<1> QED
  BY <1>1, <1>2, <1>3, <1>4, <1>5, <1>6, <1>7, <1>8, <1>9, <1>10
     DEF Case, CaseLoop, Async

\* suite_exit, xfstests_nfs_put() and xfs_teardown() keep the types.
LEMMA TeardownType ==
    ASSUME IInv, NEW s \in Suites, Put(s) \/ Teardown(s)
    PROVE  TypeOK'
<1> USE DEF Goto, locals, kernel
<1>0. TypeOK /\ mounts \in MountMap /\ mounts \in [MountPoints -> Seq(Mounts)]
  BY DEF IInv, TypeOK, MountMap
<1>l. \A l \in TeardownLabels \cup {"done", "failed"} :
        Goto(s, l) => pc' \in [Suites -> Labels]
  BY <1>0 DEF TypeOK, Labels
<1>m. {"export", "nfsdfs", "client", "scratch", "hostbin"} \subseteq MountPoints
  BY DEF MountPoints
<1>s. ASSUME NEW mp \in MountPoints, SettleAgain(s, mp) \/ Settled(s, mp)
      PROVE  mounts' \in [MountPoints -> Seq(Mounts)] /\ tries' \in [Suites -> 0..MaxTries]
  BY <1>0, <1>s, SettleType DEF MountMap
<1>1. CASE Put(s)
  <2>1. pc' \in [Suites -> Labels]
    BY <1>0, <1>1 DEF Put, TypeOK, Labels, TeardownLabels
  <2>2. refs' \in Nat /\ lock' \in Suites \cup {NoSuite}
    BY <1>0, <1>1 DEF Put, TypeOK
  <2> QED
    BY <1>0, <1>1, <2>1, <2>2 DEF Put, TypeOK
<1>2. CASE TdHostbin(s)
  <2>1. mounts' \in [MountPoints -> Seq(Mounts)] /\ tries' \in [Suites -> 0..MaxTries]
    BY <1>0, <1>2, <1>s, <1>m DEF TdHostbin, TypeOK
  <2>2. pc' \in [Suites -> Labels]
    BY <1>0, <1>2, <1>l DEF TdHostbin, TypeOK, TeardownNext, TeardownLabels
  <2>3. hostbin' \in BOOLEAN /\ dirs' \subseteq MountPoints
    BY <1>0, <1>2 DEF TdHostbin, TypeOK
  <2> QED
    BY <1>0, <1>2, <2>1, <2>2, <2>3 DEF TdHostbin, TypeOK
<1>3. CASE TdScratch(s)
  <2>1. mounts' \in [MountPoints -> Seq(Mounts)] /\ tries' \in [Suites -> 0..MaxTries]
    BY <1>3, <1>s, <1>m DEF TdScratch, ScratchSweep
  <2>2. pc' \in [Suites -> Labels]
    BY <1>0, <1>3, <1>l DEF TdScratch, ScratchSweep, TypeOK, TeardownNext, TeardownLabels
  <2>3. sweeps' \in [Suites -> 0..ScratchTries]
    BY <1>0, <1>3, SweepsType DEF TdScratch
  <2> QED
    BY <1>0, <1>3, <2>1, <2>2, <2>3 DEF TdScratch, TypeOK
<1>4. CASE TdClient(s)
  <2>1. mounts' \in [MountPoints -> Seq(Mounts)] /\ tries' \in [Suites -> 0..MaxTries]
    BY <1>0, <1>4, <1>s, <1>m DEF TdClient, TypeOK
  <2>2. pc' \in [Suites -> Labels]
    BY <1>0, <1>4, <1>l DEF TdClient, TypeOK, TeardownNext, TeardownLabels
  <2>3. env' \in [EnvFlags -> BOOLEAN]
    BY <1>0, <1>4 DEF TdClient, TypeOK
  <2> QED
    BY <1>0, <1>4, <2>1, <2>2, <2>3 DEF TdClient, TypeOK
<1>5. CASE TdNfsd(s)
  <2>1. mounts' \in [MountPoints -> Seq(Mounts)]
    BY <1>0, <1>5, UncachedMap DEF TdNfsd, MountMap
  <2>2. pc' \in [Suites -> Labels]
    BY <1>0, <1>5, <1>l DEF TdNfsd, TeardownNext, TeardownLabels
  <2>3. env' \in [EnvFlags -> BOOLEAN]
    BY <1>0, <1>5 DEF TdNfsd, TypeOK
  <2>4. NfsdDown \in NfsdType
    BY DEF NfsdDown, NfsdType
  <2>5. nfsd' \in NfsdType /\ cache' \subseteq {"ip_map", "export", "expkey"}
    BY <1>0, <1>5, <2>4 DEF TdNfsd, TypeOK, NfsdType
  <2> QED
    BY <1>0, <1>5, <2>1, <2>2, <2>3, <2>5 DEF TdNfsd, TypeOK, NfsdType
<1>6. ASSUME NEW label \in {"td_nfsdfs", "td_tmpfs"}, NEW mp \in MountPoints,
             NEW flag \in EnvFlags, PlainUmount(s, label, mp, flag)
      PROVE  TypeOK'
  <2>1. mounts' \in [MountPoints -> Seq(Mounts)]
    BY <1>0, <1>6, PopMap DEF PlainUmount, MountMap
  <2>2. pc' \in [Suites -> Labels]
    <3>1. TeardownNext[label] \in TeardownLabels
      BY DEF TeardownNext, TeardownLabels
    <3> QED
      BY <1>6, <1>l, <3>1 DEF PlainUmount
  <2>3. env' \in [EnvFlags -> BOOLEAN]
    BY <1>0, <1>6 DEF PlainUmount, TypeOK
  <2> QED
    BY <1>0, <1>6, <2>1, <2>2, <2>3 DEF PlainUmount, TypeOK
<1>7. CASE TdNfsdfs(s) \/ TdTmpfs(s)
  BY <1>6, <1>7 DEF TdNfsdfs, TdTmpfs, MountPoints, EnvFlags
<1>8. CASE TdEnd(s)
  BY <1>0, <1>8 DEF TdEnd, OptsAfterTeardown, TypeOK, Labels
<1> QED
  BY <1>1, <1>2, <1>3, <1>4, <1>5, <1>7, <1>8 DEF Teardown

-----------------------------------------------------------------------------
(***************************************************************************)
(* The invariant is inductive.  Two frames cover most actions: a step      *)
(* outside the mutex that leaves holders and deployment alone, and a step  *)
(* of the mutex's holder inside bring-up or teardown.                      *)
(***************************************************************************)
OutsideMove == \A t \in Suites :
    pc'[t] = pc[t] \/ (pc[t] \notin Critical /\ pc'[t] \notin Critical)

\* A step of a suite outside the critical section that leaves the deployment
\* alone keeps the invariant.
LEMMA OutsideFrame ==
    ASSUME IInv, TypeOK',
           UNCHANGED <<lock, refs, env, root, nfsd, cache>>,
           OutsideMove,
           Holders' = Holders,
           mounts' \in MountMap, SameDepth
    PROVE  IInv'
<1>1. mounts \in MountMap
  BY DEF IInv, TypeOK, MountMap
<1>2. Deployed \subseteq MountPoints
  BY DEF Deployed, MountPoints
<1>3. \A mp \in Deployed : mounts'[mp] = <<>> <=> mounts[mp] = <<>>
  BY <1>1, <1>2, EmptyStack DEF SameDepth
<1>4. LockInv' /\ CountInv'
  BY DEF IInv, LockInv, CountInv, RefsCountHolders, OutsideMove
<1>5. StageInv'
  BY <1>3 DEF OutsideMove, IInv, StageInv, Stage, Critical, BringupLabels, Deployed
<1>6. MountedWhileHeld'
  BY <1>3 DEF IInv, MountedWhileHeld, Deployed
<1> QED
  BY <1>4, <1>5, <1>6 DEF IInv

\* A step of the suite that holds the lock keeps the parts of the invariant
\* that are about the other suites.
LEMMA InsideFrame ==
    ASSUME IInv, TypeOK', NEW s \in Suites, NEW l \in Critical,
           pc[s] \in Critical, Goto(s, l), UNCHANGED <<lock, refs>>,
           Stage(s)'
    PROVE  IInv'
<1>1. pc \in [Suites -> Labels] /\ l \in Labels
  BY DEF IInv, TypeOK, Critical, Labels
<1>2. lock = s /\ Holders = {}
  BY FixtureAssumption DEF IInv, LockInv, CountInv
<1>3. /\ pc'[s] = l /\ \A t \in Suites \ {s} : pc'[t] = pc[t]
      /\ Holders' = {}
  BY <1>1, <1>2, HoldersStep
     DEF Critical, BringupLabels, TeardownLabels, CaseLabels
<1>4. LockInv' /\ CountInv' /\ MountedWhileHeld'
  BY <1>2, <1>3 DEF IInv, LockInv, CountInv, RefsCountHolders, MountedWhileHeld
<1>5. ASSUME NEW t \in Suites \ {s}
      PROVE  Stage(t)'
  <2>1. pc'[t] \notin Critical
    BY <1>2, <1>3 DEF IInv, LockInv
  <2> QED
    BY <2>1 DEF Stage, Critical, BringupLabels
<1> QED
  BY <1>4, <1>5 DEF IInv, StageInv

\* Bring-up from inside get.
LEMMA GetStep ==
    ASSUME IInv, NEW s \in Suites, Get(s)
    PROVE  IInv'
<1> USE DEF locals, kernel
<1>t. TypeOK'
  BY GetType
<1>0. TypeOK /\ pc \in [Suites -> Labels] /\ mounts \in MountMap
        /\ opts \in Suites \cup {NoSuite}
  BY DEF IInv, TypeOK, MountMap
<1>d. {"export", "nfsdfs", "client"} \subseteq MountPoints
  BY DEF MountPoints
<1>g. ASSUME Goto(s, "td_hostbin"), pc[s] \in Critical, UNCHANGED <<lock, refs>>
      PROVE  IInv'
  <2>1. Stage(s)'
    BY <1>g, <1>0 DEF Goto, Stage
  <2> QED
    BY <1>t, <1>g, <2>1, InsideFrame DEF Critical, TeardownLabels
<1>1. CASE SuiteInit(s)
  <2>1. Holders' = Holders
    BY <1>0, <1>1 DEF SuiteInit, Goto, Holders, CaseLabels
  <2>2. OutsideMove
    <3>1. pc[s] = "idle" /\ pc'[s] = "get" /\ \A t \in Suites \ {s} : pc'[t] = pc[t]
      BY <1>0, <1>1, HoldersStep DEF SuiteInit, Labels
    <3>2. pc[s] \notin Critical /\ pc'[s] \notin Critical
      BY <3>1 DEF Critical, BringupLabels, TeardownLabels
    <3> SUFFICES ASSUME NEW t \in Suites
                 PROVE  pc'[t] = pc[t] \/ (pc[t] \notin Critical /\ pc'[t] \notin Critical)
      BY DEF OutsideMove
    <3> QED
      BY <3>1, <3>2
  <2>3. mounts' \in MountMap /\ SameDepth /\ UNCHANGED <<lock, refs, env, root, nfsd, cache>>
    BY <1>0, <1>1 DEF SuiteInit, SameDepth
  <2> QED
    BY <1>t, <2>1, <2>2, <2>3, OutsideFrame
<1>2. CASE GetJoin(s)
  <2>1. /\ Holders' = Holders \cup {s} /\ s \notin Holders
        /\ \A t \in Suites \ {s} : pc'[t] = pc[t]
        /\ pc'[s] = "cases"
    BY <1>0, <1>2, HoldersStep DEF GetJoin, Labels, CaseLabels
  <2>2. Cardinality(Holders') = Cardinality(Holders) + 1
    BY <2>1, HoldersFinite, FS_AddElement
  <2>3. Holders # {}
    BY <1>2, FS_EmptySet DEF GetJoin, IInv, CountInv, RefsCountHolders
  <2>4. CountInv'
    BY <1>2, <2>2 DEF GetJoin, IInv, CountInv, RefsCountHolders
  <2>5. LockInv'
    BY <1>2, <2>1, FixtureAssumption
       DEF GetJoin, IInv, LockInv, Critical, BringupLabels, TeardownLabels
  <2>6. StageInv'
    BY <1>2, <2>1 DEF GetJoin, IInv, StageInv, Stage
  <2>7. MountedWhileHeld'
    BY <1>2, <2>3 DEF GetJoin, IInv, MountedWhileHeld
  <2> QED
    BY <1>t, <2>4, <2>5, <2>6, <2>7 DEF IInv
<1>3. CASE GetFirst(s)
  <2>1. Holders = {}
    BY <1>3, HoldersFinite, FS_EmptySet DEF GetFirst, IInv, CountInv, RefsCountHolders
  <2>2. /\ Holders' = {}
        /\ \A t \in Suites \ {s} : pc'[t] = pc[t]
        /\ pc'[s] = "lo"
    BY <1>0, <1>3, <2>1, HoldersStep DEF GetFirst, Labels, BringupLabels, CaseLabels
  <2>3. CountInv'
    BY <1>3, <2>1, <2>2 DEF GetFirst, IInv, CountInv, RefsCountHolders
  <2>4. LockInv'
    BY <1>3, <2>2, FixtureAssumption
       DEF GetFirst, IInv, LockInv, Critical, BringupLabels, TeardownLabels
  <2>5. StageInv'
    BY <1>3, <2>2 DEF GetFirst, IInv, StageInv, Stage
  <2> QED
    BY <1>t, <2>2, <2>3, <2>4, <2>5 DEF IInv, MountedWhileHeld
<1>4. CASE LoopbackUp(s)
  <2>1. CASE Goto(s, "mkdirs")
    <3>1. Stage(s)'
      BY <1>0, <2>1 DEF Goto, Stage
    <3> QED
      BY <1>t, <1>4, <2>1, <3>1, InsideFrame DEF LoopbackUp, Critical, BringupLabels
  <2> QED
    BY <1>4, <1>g, <2>1 DEF LoopbackUp, GiveUp, Critical, BringupLabels
<1>5. CASE MakeDirs(s)
  <2>1. CASE Goto(s, "tmpfs")
    <3>1. Stage(s)'
      BY <1>0, <2>1 DEF Goto, Stage
    <3> QED
      BY <1>t, <1>5, <2>1, <3>1, InsideFrame DEF MakeDirs, Critical, BringupLabels
  <2> QED
    BY <1>5, <1>g, <2>1 DEF MakeDirs, GiveUp, Critical, BringupLabels
<1>6. ASSUME NEW mp \in MountPoints, mounts' = Push(mounts, mp, s)
      PROVE  /\ mounts'[mp] # <<>>
             /\ \A q \in MountPoints \ {mp} : mounts'[q] = mounts[q]
  <2>1. /\ mounts' \in MountMap
        /\ \A q \in MountPoints \ {mp} : mounts'[q] = mounts[q]
        /\ Len(mounts'[mp]) = Len(mounts[mp]) + 1
    BY <1>0, <1>6, PushMap
  <2> QED
    BY <1>0, <2>1, EmptyStack
<1>7. CASE MountTmpfs(s)
  <2>1. CASE mounts' = Push(mounts, "export", s) /\ Goto(s, "nfsdfs") /\ env' = [env EXCEPT !["tmpfs"] = TRUE]
    <3>1. Stage(s)'
      BY <1>0, <1>d, <1>6, <2>1 DEF Goto, Stage, TypeOK, EnvFlags
    <3> QED
      BY <1>t, <1>7, <2>1, <3>1, InsideFrame
         DEF MountTmpfs, MountStep, Critical, BringupLabels
  <2> QED
    BY <1>7, <1>g, <2>1 DEF MountTmpfs, MountStep, GiveUp, Critical, BringupLabels
<1>8. CASE MountNfsdfs(s)
  <2>1. CASE mounts' = Push(mounts, "nfsdfs", s) /\ Goto(s, "exports") /\ env' = [env EXCEPT !["nfsdfs"] = TRUE]
    <3>0. Stage(s) /\ pc[s] = "nfsdfs"
      BY <1>8 DEF IInv, StageInv, MountNfsdfs, MountStep
    <3>1. Stage(s)'
      BY <1>0, <1>d, <1>6, <2>1, <3>0 DEF Goto, Stage, TypeOK, EnvFlags
    <3> QED
      BY <1>t, <1>8, <2>1, <3>1, InsideFrame
         DEF MountNfsdfs, MountStep, Critical, BringupLabels
  <2> QED
    BY <1>8, <1>g, <2>1 DEF MountNfsdfs, MountStep, GiveUp, Critical, BringupLabels
<1>9. CASE ConfigureExports(s)
  <2>1. CASE Feed(3) /\ Goto(s, "nfsd")
    <3>0. Stage(s) /\ pc[s] = "exports" /\ mounts["export"] # <<>>
      BY <1>9 DEF IInv, StageInv, Stage, ConfigureExports
    <3>1. {CacheLines[j] : j \in 1..3} = {"ip_map", "export", "expkey"}
      BY DEF CacheLines
    <3>2. cache' = {"ip_map", "export", "expkey"}
      BY <1>0, <2>1, <3>1 DEF Feed, TypeOK
    <3>3. 1 \in 1..Len(mounts["export"])
      BY <1>0, <1>d, <3>0, EmptyStack
    <3>4. mounts["export"][1] \in Mounts
      BY <1>0, <1>d, <3>3, ElementOfSeq DEF MountMap
    <3>5. mounts["export"][1].pins \cup {"cache"} \in SUBSET PinKinds
      BY <3>4 DEF Mounts, PinKinds
    <3>6. mounts' = Repin(mounts, "export", 1, mounts["export"][1].pins \cup {"cache"})
      BY <2>1, <3>1 DEF Feed
    <3>7. mounts' \in MountMap /\ \A q \in MountPoints : Len(mounts'[q]) = Len(mounts[q])
      BY <1>0, <1>d, <3>3, <3>5, <3>6, RepinMap
    <3>8. \A q \in {"export", "nfsdfs"} : mounts[q] # <<>> => mounts'[q] # <<>>
      BY <1>0, <1>d, <3>7, EmptyStack
    <3>9. Stage(s)'
      BY <1>0, <1>9, <2>1, <3>0, <3>2, <3>8 DEF Goto, Stage, ConfigureExports
    <3> QED
      BY <1>t, <1>9, <2>1, <3>9, InsideFrame DEF ConfigureExports, Critical, BringupLabels
  <2> QED
    BY <1>9, <1>g, <2>1 DEF ConfigureExports, GiveUp, Critical, BringupLabels
<1>10. CASE StartNfsd(s)
  <2>1. CASE /\ nfsd' = [serv |-> TRUE, socks |-> {"udp", "tcp"}, threads |-> TRUE]
             /\ env' = [env EXCEPT !["nfsd"] = TRUE]
             /\ Goto(s, "client")
    <3>0. Stage(s) /\ pc[s] = "nfsd" /\ UNCHANGED <<mounts, cache>>
      BY <1>10 DEF IInv, StageInv, StartNfsd
    <3>1. Stage(s)'
      BY <1>0, <2>1, <3>0 DEF Goto, Stage, TypeOK, EnvFlags
    <3> QED
      BY <1>t, <1>10, <2>1, <3>1, InsideFrame DEF StartNfsd, Critical, BringupLabels
  <2> QED
    BY <1>10, <1>g, <2>1 DEF StartNfsd, GiveUp, Critical, BringupLabels
<1>11. CASE MountClient(s)
  <2>1. CASE mounts' = Push(mounts, "client", s) /\ Goto(s, "root") /\ env' = [env EXCEPT !["client"] = TRUE]
    <3>0. Stage(s) /\ pc[s] = "client" /\ UNCHANGED <<nfsd, cache>>
      BY <1>11 DEF IInv, StageInv, MountClient, MountStep
    <3>1. Stage(s)'
      BY <1>0, <1>d, <1>6, <2>1, <3>0 DEF Goto, Stage, TypeOK, EnvFlags
    <3> QED
      BY <1>t, <1>11, <2>1, <3>1, InsideFrame
         DEF MountClient, MountStep, Critical, BringupLabels
  <2> QED
    BY <1>11, <1>g, <2>1 DEF MountClient, MountStep, GiveUp, Critical, BringupLabels
<1>12. CASE CaptureRoot(s)
  <2>1. lock = s /\ Holders = {} /\ Stage(s) /\ pc[s] = "root"
    BY <1>12, FixtureAssumption
       DEF CaptureRoot, IInv, LockInv, CountInv, StageInv, Critical, BringupLabels
  <2>2. /\ Holders' = Holders \cup {s} /\ s \notin Holders
        /\ \A t \in Suites \ {s} : pc'[t] = pc[t]
        /\ pc'[s] = "cases"
    BY <1>0, <1>12, HoldersStep DEF CaptureRoot, Labels, CaseLabels
  <2>3. Cardinality(Holders') = Cardinality(Holders) + 1
    BY <2>2, HoldersFinite, FS_AddElement
  <2>4. CountInv'
    BY <1>12, <2>3 DEF CaptureRoot, IInv, CountInv, RefsCountHolders
  <2>5. LockInv'
    BY <1>12, <2>1, <2>2, FixtureAssumption
       DEF CaptureRoot, IInv, LockInv, Critical, BringupLabels, TeardownLabels
  <2>6. StageInv'
    BY <1>12, <2>2 DEF CaptureRoot, IInv, StageInv, Stage
  <2>7. MountedWhileHeld'
    BY <1>12, <2>1, FixtureAssumption DEF CaptureRoot, Stage, MountedWhileHeld, EnvFlags
  <2> QED
    BY <1>t, <2>4, <2>5, <2>6, <2>7 DEF IInv
<1> QED
  BY <1>1, <1>2, <1>3, <1>4, <1>5, <1>7, <1>8, <1>9, <1>10, <1>11, <1>12 DEF Get

\* put and teardown.
LEMMA TeardownStep ==
    ASSUME IInv, NEW s \in Suites, Put(s) \/ Teardown(s)
    PROVE  IInv'
<1> USE DEF locals, kernel
<1>t. TypeOK'
  BY TeardownType
<1>0. TypeOK /\ pc \in [Suites -> Labels] /\ mounts \in MountMap
  BY DEF IInv, TypeOK, MountMap
\* Within teardown no stage of bring-up is reached.
<1>g. ASSUME NEW l \in TeardownLabels, Goto(s, l), pc[s] \in TeardownLabels,
             UNCHANGED <<lock, refs>>
      PROVE  IInv'
  <2>1. Stage(s)'
    BY <1>g, <1>0 DEF Goto, Stage, TeardownLabels
  <2> QED
    BY <1>t, <1>g, <2>1, InsideFrame DEF Critical
<1>n. ASSUME NEW l \in TeardownLabels \ {"td_end"}
      PROVE  TeardownNext[l] \in TeardownLabels
  BY DEF TeardownNext, TeardownLabels
<1>u. ASSUME UNCHANGED pc, pc[s] \in TeardownLabels, UNCHANGED <<lock, refs>>
      PROVE  IInv'
  <2>1. Goto(s, pc[s])
    BY <1>0, <1>u DEF Goto
  <2> QED
    BY <1>u, <1>g, <2>1
<1>1. CASE Put(s)
  <2>1. /\ pc[s] = "put" /\ s \in Holders
        /\ \A t \in Suites : pc[t] \notin Critical
    BY <1>1, FixtureAssumption DEF Put, Holders, IInv, LockInv
  <2>2. CASE refs = 1
    <3>1. /\ Holders' = Holders \ {s}
          /\ \A t \in Suites \ {s} : pc'[t] = pc[t]
          /\ pc'[s] = "td_hostbin"
      BY <1>0, <1>1, <2>2, HoldersStep DEF Put, Labels, TeardownLabels, CaseLabels
    <3>2. Cardinality(Holders') = 0 /\ IsFiniteSet(Holders')
      <4>1. Cardinality(Holders) = 1
        BY <2>2 DEF IInv, CountInv, RefsCountHolders
      <4>2. IsFiniteSet(Holders \ {s}) /\ Cardinality(Holders \ {s}) = Cardinality(Holders) - 1
        BY <2>1, HoldersFinite, FS_RemoveElement
      <4> QED
        BY <3>1, <4>1, <4>2
    <3>3. Holders' = {}
      BY <3>2, FS_EmptySet
    <3>4. CountInv'
      BY <1>1, <2>2, <3>2, <3>3 DEF Put, CountInv, RefsCountHolders
    <3>5. LockInv'
      BY <1>1, <2>1, <2>2, <3>1, FixtureAssumption
         DEF Put, LockInv, Critical, TeardownLabels
    <3>6. StageInv'
      BY <1>1, <3>1 DEF Put, IInv, StageInv, Stage
    <3> QED
      BY <1>t, <3>3, <3>4, <3>5, <3>6 DEF IInv, MountedWhileHeld
  <2>3. CASE refs # 1
    <3>1. /\ Holders' = Holders \ {s}
          /\ \A t \in Suites \ {s} : pc'[t] = pc[t]
          /\ pc'[s] = "done"
      BY <1>0, <1>1, <2>3, HoldersStep DEF Put, Labels, CaseLabels
    <3>2. Cardinality(Holders') = Cardinality(Holders) - 1
      BY <2>1, <3>1, HoldersFinite, FS_RemoveElement
    <3>4. CountInv'
      BY <1>1, <2>3, <3>2 DEF Put, IInv, CountInv, RefsCountHolders
    <3>5. LockInv'
      BY <1>1, <2>3, <3>1, FixtureAssumption
         DEF Put, IInv, LockInv, Critical, BringupLabels, TeardownLabels
    <3>6. StageInv'
      BY <1>1, <3>1 DEF Put, IInv, StageInv, Stage
    <3>7. MountedWhileHeld'
      BY <1>1, <2>1 DEF Put, IInv, MountedWhileHeld
    <3> QED
      BY <1>t, <3>4, <3>5, <3>6, <3>7 DEF IInv
  <2> QED
    BY <2>2, <2>3
<1>2. CASE TdHostbin(s)
  BY <1>2, <1>g, <1>n, <1>u DEF TdHostbin, TeardownLabels
<1>3. CASE TdScratch(s)
  BY <1>3, <1>g, <1>n, <1>u DEF TdScratch, ScratchSweep, TeardownLabels
<1>4. CASE TdClient(s)
  BY <1>4, <1>g, <1>n, <1>u DEF TdClient, TeardownLabels
<1>5. CASE TdNfsd(s)
  BY <1>5, <1>g, <1>n DEF TdNfsd, TeardownLabels
<1>6. CASE TdNfsdfs(s) \/ TdTmpfs(s)
  BY <1>6, <1>g, <1>n DEF TdNfsdfs, TdTmpfs, PlainUmount, TeardownLabels
<1>7. CASE TdEnd(s)
  <2>1. lock = s /\ Holders = {}
    BY <1>7, FixtureAssumption
       DEF TdEnd, IInv, LockInv, CountInv, Critical, TeardownLabels
  <2>2. PICK l \in {"done", "failed"} : Goto(s, l)
    BY <1>7 DEF TdEnd
  <2>3. /\ Holders' = {}
        /\ \A t \in Suites \ {s} : pc'[t] = pc[t]
        /\ pc'[s] = l
    BY <1>0, <2>1, <2>2, HoldersStep DEF Labels, CaseLabels
  <2>4. CountInv'
    BY <1>7, <2>1, <2>3 DEF TdEnd, IInv, CountInv, RefsCountHolders
  <2>5. LockInv'
    BY <1>7, <2>1, <2>2, <2>3, FixtureAssumption
       DEF TdEnd, IInv, LockInv, Critical, BringupLabels, TeardownLabels
  <2>6. StageInv'
    BY <1>7, <2>2, <2>3 DEF TdEnd, IInv, StageInv, Stage
  <2> QED
    BY <1>t, <2>3, <2>4, <2>5, <2>6 DEF IInv, MountedWhileHeld
<1> QED
  BY <1>1, <1>2, <1>3, <1>4, <1>5, <1>6, <1>7 DEF Teardown

\* What the cases and the kernel do meanwhile.
LEMMA CaseStep ==
    ASSUME IInv, NEW s \in Suites,
           Case(s) \/ CaseLoop(s) \/ SuiteExit(s) \/ Async
    PROVE  IInv'
<1> USE DEF locals, kernel
<1>0. pc \in [Suites -> Labels]
  BY DEF IInv, TypeOK
<1>1. UNCHANGED <<lock, refs, env, root, nfsd, cache>>
  BY DEF Case, CaseTouch, ScratchMount, HostbinMount, RemountRW, CaseCall, CaseLoop,
         ScratchUmount, RemountRO, SuiteExit, Async, DelayedFput, LateDone
<1>2. \/ UNCHANGED pc
      \/ pc[s] \in CaseLabels /\ \E l \in CaseLabels \cup {"put"} : Goto(s, l)
  BY DEF Case, CaseTouch, ScratchMount, HostbinMount, RemountRW, CaseCall, CaseLoop,
         ScratchUmount, ScratchSweep, RemountRO, SuiteExit, Async, DelayedFput, LateDone,
         CaseLabels
<1>3. Holders' = Holders
  BY <1>0, <1>2, HoldersStep DEF Holders, Labels
<1>4. \A l \in CaseLabels \cup {"put"} : l \notin Critical
  BY DEF CaseLabels, Critical, BringupLabels, TeardownLabels
<1>5. OutsideMove
  <2>1. ASSUME pc[s] \in CaseLabels, NEW l \in CaseLabels \cup {"put"}, Goto(s, l)
        PROVE  /\ pc[s] \notin Critical /\ pc'[s] \notin Critical
               /\ \A t \in Suites \ {s} : pc'[t] = pc[t]
    BY <1>0, <1>4, <2>1, HoldersStep DEF Labels
  <2> SUFFICES ASSUME NEW t \in Suites
               PROVE  pc'[t] = pc[t] \/ (pc[t] \notin Critical /\ pc'[t] \notin Critical)
    BY DEF OutsideMove
  <2>2. CASE t = s
    BY <1>2, <2>1, <2>2
  <2>3. CASE t # s
    BY <1>2, <2>1, <2>3
  <2> QED
    BY <2>2, <2>3
<1> QED
  BY <1>1, <1>3, <1>5, CaseType, CaseMounts, OutsideFrame

\* Every step keeps the invariant.
THEOREM NextIInv == IInv /\ [Next]_vars => IInv'
<1> SUFFICES ASSUME IInv, [Next]_vars PROVE IInv'
  OBVIOUS
<1>1. CASE UNCHANGED vars
  BY <1>1 DEF vars, locals, kernel, IInv, TypeOK, LockInv, CountInv, RefsCountHolders, StageInv,
              Stage, MountedWhileHeld, Holders
<1>2. ASSUME NEW s \in Suites, Get(s) PROVE IInv'
  BY <1>2, GetStep
<1>3. ASSUME NEW s \in Suites, Case(s) \/ CaseLoop(s) \/ SuiteExit(s) PROVE IInv'
  BY <1>3, CaseStep
<1>4. ASSUME NEW s \in Suites, Put(s) \/ Teardown(s) PROVE IInv'
  BY <1>4, TeardownStep
<1>5. CASE Async
  <2>1. PICK s \in Suites : TRUE
    BY FixtureAssumption
  <2> QED
    BY <1>5, <2>1, CaseStep
<1>6. CASE Finished
  BY <1>1, <1>6 DEF Finished
<1> QED
  BY <1>1, <1>2, <1>3, <1>4, <1>5, <1>6 DEF Next

-----------------------------------------------------------------------------
(***************************************************************************)
(* The results.                                                            *)
(***************************************************************************)
\* Every reachable state satisfies the inductive invariant.
THEOREM Invariance == Spec => []IInv
<1>1. Init => IInv
  BY InitIInv
<1>2. IInv /\ [Next]_vars => IInv'
  BY NextIInv
<1> QED
  BY <1>1, <1>2, PTL DEF Spec

\* Every reachable state of the fixture is type-correct: in particular the
\* retry counters stay within the loops' bounds.
THEOREM TypeCorrect == Spec => []TypeOK
<1>1. IInv => TypeOK
  BY DEF IInv
<1> QED
  BY <1>1, Invariance, PTL

\* xfs_fixture_refs always equals the number of suites that hold the
\* deployment, for any number of concurrent callers and any failures.
THEOREM RefsCounted == Spec => []RefsCountHolders
<1>1. IInv => RefsCountHolders
  BY DEF IInv, CountInv
<1> QED
  BY <1>1, Invariance, PTL

\* A suite that xfstests_nfs_get() let in always finds the whole deployment.
THEOREM AlwaysMounted == Spec => []MountedWhileHeld
<1>1. IInv => MountedWhileHeld
  BY DEF IInv
<1> QED
  BY <1>1, Invariance, PTL

\* Inside bring-up or teardown there is no holder.
LEMMA CriticalAlone ==
    ASSUME IInv, NEW s \in Suites, pc[s] \in Critical
    PROVE  lock = s /\ Holders = {}
BY FixtureAssumption DEF IInv, LockInv, CountInv

\* No step pulls the deployment from under suites that hold it.
THEOREM StableWhileHeld == Spec => HeldDeploymentIsStable
<1> DEFINE Stable == /\ UNCHANGED <<env, root, nfsd, cache>>
                     /\ \A mp \in {"export", "nfsdfs", "client"} :
                          Len(mounts'[mp]) = Len(mounts[mp])
<1>1. ASSUME IInv, [Next]_vars, Holders # {}, Holders' # {}
      PROVE  Stable
  <2> USE <1>1 DEF locals, kernel
  <2>1. CASE UNCHANGED vars
    BY <2>1 DEF vars
  <2>2. ASSUME NEW s \in Suites, Get(s)
        PROVE  Stable
    <3>1. pc[s] \notin Critical
      BY CriticalAlone
    <3>2. SuiteInit(s) \/ GetJoin(s) \/ GetFirst(s)
      BY <2>2, <3>1 DEF Get, LoopbackUp, MakeDirs, MountTmpfs, MountNfsdfs, MountClient, MountStep,
                        ConfigureExports, StartNfsd, CaptureRoot, Critical, BringupLabels
    <3> QED
      BY <3>2 DEF SuiteInit, GetJoin, GetFirst
  <2>3. ASSUME NEW s \in Suites, Case(s) \/ CaseLoop(s) \/ SuiteExit(s) \/ Async
        PROVE  Stable
    <3>1. SameDepth
      BY <2>3, CaseMounts
    <3>2. UNCHANGED <<env, root, nfsd, cache>>
      BY <2>3 DEF Case, CaseTouch, ScratchMount, HostbinMount, RemountRW, CaseCall, CaseLoop,
                  ScratchUmount, RemountRO, SuiteExit, Async, DelayedFput, LateDone
    <3> QED
      BY <3>1, <3>2 DEF SameDepth, Deployed
  <2>4. ASSUME NEW s \in Suites, Put(s) \/ Teardown(s)
        PROVE  Stable
    <3>1. pc[s] \notin Critical
      BY CriticalAlone
    <3>2. Put(s)
      BY <2>4, <3>1 DEF Teardown, TdHostbin, TdScratch, TdClient, TdNfsd, TdNfsdfs, TdTmpfs,
                        PlainUmount, TdEnd, Critical, TeardownLabels
    <3> QED
      BY <3>2 DEF Put
  <2>5. CASE Finished
    BY <2>5 DEF Finished, vars
  <2>6. PICK s \in Suites : TRUE
    BY FixtureAssumption
  <2> QED
    BY <2>1, <2>2, <2>3, <2>4, <2>5, <2>6 DEF Next
<1>2. IInv /\ [Next]_vars => [Holders # {} /\ Holders' # {} => Stable]_vars
  BY <1>1
<1> QED
  BY <1>2, Invariance, PTL DEF Spec, HeldDeploymentIsStable

\* A captured root means a deployment that is held or being torn down.
RootInv == (Holders = {} /\ \A s \in Suites : pc[s] \notin TeardownLabels) => root = NoSuite

\* What a step of the fixture is to the abstract deployment, and that it
\* keeps RootInv.
LEMMA RefinementStep ==
    ASSUME IInv, RootInv, [Next]_vars
    PROVE  RootInv' /\ [D!DNext]_(D!dvars)
<1> USE DEF locals, kernel
<1>0. pc \in [Suites -> Labels]
  BY DEF IInv, TypeOK
<1>s. ASSUME UNCHANGED root, Holders' = Holders,
             \A t \in Suites : pc[t] \in TeardownLabels => pc'[t] \in TeardownLabels
      PROVE  RootInv' /\ [D!DNext]_(D!dvars)
  BY <1>s DEF RootInv, D!dvars
<1>1. CASE UNCHANGED vars
  BY <1>1, <1>s DEF vars, Holders
<1>2. ASSUME NEW s \in Suites, Get(s)
      PROVE  RootInv' /\ [D!DNext]_(D!dvars)
  <2>1. CASE GetJoin(s)
    <3>1. Holders' = Holders \cup {s} /\ s \notin Holders
      BY <1>0, <2>1, HoldersStep DEF GetJoin, Labels, CaseLabels
    <3>2. Holders # {}
      BY <2>1, FS_EmptySet DEF GetJoin, IInv, CountInv, RefsCountHolders
    <3>3. D!Join(s)
      BY <2>1, <3>1, <3>2 DEF D!Join, GetJoin
    <3> QED
      BY <3>1, <3>3 DEF D!DNext, RootInv
  <2>2. CASE CaptureRoot(s)
    <3>1. Holders' = Holders \cup {s}
      BY <1>0, <2>2, HoldersStep DEF CaptureRoot, Labels, CaseLabels
    <3>2. lock = s /\ Holders = {}
      BY <2>2, CriticalAlone DEF CaptureRoot, Critical, BringupLabels
    <3>3. \A t \in Suites : pc[t] \notin TeardownLabels
      BY <2>2, <3>2, FixtureAssumption
         DEF CaptureRoot, IInv, LockInv, Critical, TeardownLabels
    <3>4. D!Raise(s)
      BY <2>2, <3>1, <3>2, <3>3 DEF D!Raise, CaptureRoot, RootInv
    <3> QED
      BY <3>1, <3>4 DEF D!DNext, RootInv
  <2>3. CASE ~GetJoin(s) /\ ~CaptureRoot(s)
    <3>1. UNCHANGED root
      BY <1>2, <2>3 DEF Get, SuiteInit, GetFirst, LoopbackUp, MakeDirs, MountTmpfs, MountNfsdfs,
                        MountClient, MountStep, ConfigureExports, StartNfsd
    <3>2. /\ pc[s] \in {"idle", "get"} \cup BringupLabels
          /\ \E l \in {"get"} \cup Critical : Goto(s, l)
      BY <1>2, <2>3 DEF Get, SuiteInit, GetFirst, LoopbackUp, MakeDirs, MountTmpfs, MountNfsdfs,
                        MountClient, MountStep, ConfigureExports, StartNfsd, GiveUp,
                        Critical, BringupLabels, TeardownLabels
    <3>3. PICK l \in {"get"} \cup Critical : Goto(s, l)
      BY <3>2
    <3>4. Holders' = Holders /\ \A t \in Suites \ {s} : pc'[t] = pc[t]
      BY <1>0, <3>2, <3>3, HoldersStep
         DEF Labels, Critical, BringupLabels, TeardownLabels, CaseLabels
    <3>5. pc[s] \notin TeardownLabels
      BY <3>2 DEF BringupLabels, TeardownLabels
    <3> QED
      BY <1>s, <3>1, <3>4, <3>5
  <2> QED
    BY <2>1, <2>2, <2>3
<1>3. ASSUME NEW s \in Suites, Case(s) \/ CaseLoop(s) \/ SuiteExit(s) \/ Async
      PROVE  RootInv' /\ [D!DNext]_(D!dvars)
  <2>1. UNCHANGED root
    BY <1>3 DEF Case, CaseTouch, ScratchMount, HostbinMount, RemountRW, CaseCall, CaseLoop,
                ScratchUmount, RemountRO, SuiteExit, Async, DelayedFput, LateDone
  <2>2. \/ UNCHANGED pc
        \/ pc[s] \in CaseLabels /\ \E l \in CaseLabels \cup {"put"} : Goto(s, l)
    BY <1>3 DEF Case, CaseTouch, ScratchMount, HostbinMount, RemountRW, CaseCall, CaseLoop,
                ScratchUmount, ScratchSweep, RemountRO, SuiteExit, Async, DelayedFput, LateDone,
                CaseLabels
  <2>3. CASE UNCHANGED pc
    BY <1>s, <2>1, <2>3 DEF Holders
  <2>4. CASE pc[s] \in CaseLabels /\ \E l \in CaseLabels \cup {"put"} : Goto(s, l)
    <3>1. PICK l \in CaseLabels \cup {"put"} : Goto(s, l)
      BY <2>4
    <3>2. Holders' = Holders /\ \A t \in Suites \ {s} : pc'[t] = pc[t]
      <4>1. l \in Labels
        BY DEF Labels
      <4>2. Holders' = Holders \cup {s} /\ s \in Holders
        BY <1>0, <2>4, <3>1, <4>1, HoldersStep
      <4>3. \A t \in Suites \ {s} : pc'[t] = pc[t]
        BY <1>0, <3>1, <4>1, HoldersStep
      <4> QED
        BY <4>2, <4>3
    <3>3. pc[s] \notin TeardownLabels
      BY <2>4 DEF CaseLabels, TeardownLabels
    <3> QED
      BY <1>s, <2>1, <3>2, <3>3
  <2> QED
    BY <2>2, <2>3, <2>4
<1>4. ASSUME NEW s \in Suites, Put(s) \/ Teardown(s)
      PROVE  RootInv' /\ [D!DNext]_(D!dvars)
  <2>1. CASE Put(s)
    <3>1. s \in Holders /\ Holders' = Holders \ {s}
      BY <1>0, <2>1, HoldersStep DEF Put, Labels, TeardownLabels, CaseLabels
    <3>2. D!Leave(s)
      BY <2>1, <3>1 DEF D!Leave, Put
    <3>3. RootInv'
      <4>1. CASE refs = 1
        BY <1>0, <2>1, <4>1 DEF Put, Goto, RootInv, TeardownLabels
      <4>2. CASE refs # 1
        <5>1. Holders' # {}
          <6>1. Cardinality(Holders) = refs /\ refs \in Nat /\ refs > 0
            BY <2>1 DEF Put, IInv, TypeOK, CountInv, RefsCountHolders
          <6>2. Cardinality(Holders') = Cardinality(Holders) - 1
            BY <3>1, HoldersFinite, FS_RemoveElement
          <6> QED
            BY <4>2, <6>1, <6>2, FS_EmptySet
        <5> QED
          BY <5>1 DEF RootInv
      <4> QED
        BY <4>1, <4>2
    <3> QED
      BY <3>2, <3>3 DEF D!DNext
  <2>2. CASE TdEnd(s)
    <3>1. Holders = {}
      BY <2>2, CriticalAlone DEF TdEnd, Critical, TeardownLabels
    <3>2. Holders' = {}
      BY <1>0, <2>2, <3>1, HoldersStep DEF TdEnd, Labels, CaseLabels
    <3>3. root' = NoSuite
      BY <2>2 DEF TdEnd
    <3>4. [D!DNext]_(D!dvars)
      BY <3>1, <3>2, <3>3 DEF D!DNext, D!Lower, D!dvars
    <3> QED
      BY <3>3, <3>4 DEF RootInv
  <2>3. CASE ~Put(s) /\ ~TdEnd(s)
    <3>1. UNCHANGED root
      BY <1>4, <2>3 DEF Teardown, TdHostbin, TdScratch, TdClient, TdNfsd, TdNfsdfs, TdTmpfs,
                        PlainUmount
    <3>2. /\ pc[s] \in TeardownLabels
          /\ UNCHANGED pc \/ \E l \in TeardownLabels : Goto(s, l)
      BY <1>4, <2>3 DEF Teardown, TdHostbin, TdScratch, ScratchSweep, TdClient, TdNfsd, TdNfsdfs,
                        TdTmpfs, PlainUmount, TeardownNext, TeardownLabels
    <3>3. CASE UNCHANGED pc
      BY <1>s, <3>1, <3>3 DEF Holders
    <3>4. CASE \E l \in TeardownLabels : Goto(s, l)
      <4>1. PICK l \in TeardownLabels : Goto(s, l)
        BY <3>4
      <4>2. /\ Holders' = Holders /\ pc'[s] = l
            /\ \A t \in Suites \ {s} : pc'[t] = pc[t]
        BY <1>0, <3>2, <4>1, HoldersStep DEF Labels, TeardownLabels, CaseLabels
      <4> QED
        BY <1>s, <3>1, <4>1, <4>2
    <3> QED
      BY <3>2, <3>3, <3>4
  <2> QED
    BY <2>1, <2>2, <2>3
<1>5. CASE Finished
  BY <1>1, <1>5 DEF Finished
<1>6. PICK s \in Suites : TRUE
  BY FixtureAssumption
<1> QED
  BY <1>1, <1>2, <1>3, <1>4, <1>5, <1>6 DEF Next

\* The fixture implements the abstract deployment: at most one at a time,
\* raised by the first get, joined while held, lowered after the last put.
THEOREM Refinement == Spec => ImplementsDeployment
<1>1. Init => RootInv /\ D!DInit
  BY DEF Init, RootInv, D!DInit, Holders, CaseLabels
<1>2. IInv /\ RootInv /\ [Next]_vars => RootInv' /\ [D!DNext]_(D!dvars)
  BY RefinementStep
<1> QED
  BY <1>1, <1>2, Invariance, PTL DEF Spec, ImplementsDeployment, D!DSpec

-------------------------------------------------------------------------------
(***************************************************************************)
(* The order of bring-up and of xfs_teardown(): clients come after the     *)
(* server and go before it, the server's control filesystem outlives the   *)
(* server.  For every set of suites, concurrent or not, every bound and    *)
(* every set of failing steps.                                             *)
(***************************************************************************)
Depth(mp) == Len(mounts[mp])

\* Where the lock holder has not started the server yet, or has stopped it.
Serverless == {"lo", "mkdirs", "tmpfs", "nfsdfs", "exports", "nfsd",
               "td_nfsdfs", "td_tmpfs", "td_end"}

\* What a suite knows from where it is.  The sweeps that xfs_scratch_umount()
\* has left are enough for the mounts that are left.
Place(s) ==
    /\ pc[s] \in Serverless => ~nfsd.threads
    /\ pc[s] \in {"client", "root", "td_client", "td_nfsd"} => Depth("scratch") = 0
    /\ pc[s] = "td_nfsd" => Depth("client") = 0
    /\ pc[s] = "td_scratch" => Depth("scratch") + sweeps[s] <= ScratchTries
    /\ sweeps[s] # 0 => pc[s] \in {"c_scratch", "td_scratch"}

\* The flags xfs_teardown() goes by know of every client mount and of the
\* server.
Stacks ==
    /\ Depth("scratch") <= MaxScratch
    /\ Depth("client") <= 1
    /\ Depth("client") # 0 => env["client"]
    /\ nfsd.threads => env["nfsd"]
    /\ Depth("client") # 0 \/ Depth("scratch") # 0 => nfsd.threads
    /\ nfsd.threads => Depth("nfsdfs") # 0

\* Nobody holds the deployment or works on it.
Idle == lock = NoSuite /\ Holders = {} => ~nfsd.threads

OrderInv == Stacks /\ Idle /\ \A s \in Suites : Place(s)

-----------------------------------------------------------------------------
\* Depths are natural numbers, now and after the step.
LEMMA Depths ==
    ASSUME TypeOK
    PROVE  /\ mounts \in MountMap
           /\ \A mp \in MountPoints : Depth(mp) \in Nat /\ (mounts[mp] = <<>> <=> Depth(mp) = 0)
<1>1. mounts \in MountMap
  BY DEF TypeOK, MountMap
<1> QED
  BY <1>1, EmptyStack DEF Depth

\* The bounds of the loops, and the sweeps, are natural numbers.
LEMMA Bounds ==
    ASSUME TypeOK, NEW s \in Suites
    PROVE  /\ MaxTries \in Nat /\ MaxTries > 0
           /\ ScratchTries \in Nat /\ ScratchTries > 0
           /\ MaxScratch \in Nat /\ MaxScratch <= ScratchTries
           /\ sweeps[s] \in 0..ScratchTries /\ tries[s] \in 0..MaxTries
BY FixtureAssumption DEF TypeOK

\* An attempt that finds the mount busy takes nothing away; the end of the
\* loop takes away one mount, if there is one.
LEMMA SettleDepth ==
    ASSUME TypeOK, NEW s \in Suites, NEW mp \in MountPoints
    PROVE  /\ SettleAgain(s, mp) => \A q \in MountPoints : Len(mounts'[q]) = Len(mounts[q])
           /\ Settled(s, mp) =>
                /\ \A q \in MountPoints \ {mp} : Len(mounts'[q]) = Len(mounts[q])
                /\ Len(mounts'[mp]) = IF Len(mounts[mp]) = 0 THEN 0 ELSE Len(mounts[mp]) - 1
<1>1. mounts \in MountMap
  BY DEF TypeOK, MountMap
<1>2. /\ Flush(mounts) \in MountMap
      /\ \A q \in MountPoints : Len(Flush(mounts)[q]) = Len(mounts[q])
  BY <1>1, FlushMap
<1>3. ASSUME NEW m \in MountMap, \A q \in MountPoints : Len(m[q]) = Len(mounts[q])
      PROVE  /\ \A q \in MountPoints \ {mp} : Len(Pop(m, mp)[q]) = Len(mounts[q])
             /\ Len(Pop(m, mp)[mp]) = IF Len(mounts[mp]) = 0 THEN 0 ELSE Len(mounts[mp]) - 1
  <2>1. m[mp] = <<>> <=> Len(mounts[mp]) = 0
    BY <1>3, EmptyStack
  <2>2. /\ \A q \in MountPoints \ {mp} : Pop(m, mp)[q] = m[q]
        /\ Len(Pop(m, mp)[mp]) = IF m[mp] = <<>> THEN 0 ELSE Len(m[mp]) - 1
    BY PopMap
  <2> QED
    BY <1>3, <2>1, <2>2
<1>4. SettleAgain(s, mp) => \A q \in MountPoints : Len(mounts'[q]) = Len(mounts[q])
  BY <1>2 DEF SettleAgain, BeforeAttempt
<1>5. Settled(s, mp) => mounts' = Pop(Flush(mounts), mp) \/ mounts' = Pop(mounts, mp)
  BY DEF Settled, BeforeAttempt
<1> QED
  BY <1>1, <1>2, <1>3, <1>4, <1>5

\* A step of a case other than a scratch mount or unmount, or a step of the
\* kernel, mounts at most the programs' filesystem and unmounts nothing.
LEMMA DepthsKept ==
    ASSUME IInv, NEW s \in Suites,
           \/ \E mp \in MountPoints, pin \in PinKinds : CaseTouch(s, mp, pin)
           \/ HostbinMount(s) \/ RemountRW(s)
           \/ \E l \in CaseLabels : CaseCall(s, l)
           \/ RemountRO(s) \/ SuiteExit(s) \/ Async
    PROVE  /\ \A q \in MountPoints \ {"hostbin"} : Len(mounts'[q]) = Len(mounts[q])
           /\ ~HostbinMount(s) => Len(mounts'["hostbin"]) = Len(mounts["hostbin"])
<1> DEFINE Kept == \A q \in MountPoints : Len(mounts'[q]) = Len(mounts[q])
<1> USE DEF locals, kernel
<1>0. TypeOK /\ mounts \in MountMap /\ opts \in Suites \cup {NoSuite}
  BY DEF IInv, TypeOK, MountMap
<1>m. {"client", "scratch", "hostbin"} \subseteq MountPoints
  BY DEF MountPoints
<1>f. Flush(mounts) \in MountMap /\ \A q \in MountPoints : Len(Flush(mounts)[q]) = Len(mounts[q])
  BY <1>0, FlushMap
<1>r. ASSUME NEW mp \in MountPoints, NEW i \in 1..Len(mounts[mp]), NEW P \in SUBSET PinKinds,
             mounts' = Repin(mounts, mp, i, mounts[mp][i].pins \cup P)
      PROVE  Kept
  <2>1. mounts[mp][i] \in Mounts
    BY <1>0, ElementOfSeq DEF MountMap
  <2>2. mounts[mp][i].pins \cup P \in SUBSET PinKinds
    BY <2>1 DEF Mounts
  <2> QED
    BY <1>0, <1>m, <1>r, <2>2, RepinMap
<1>c. ASSUME pc[s] \in CaseLabels, NEW b \in BOOLEAN
      PROVE  \A q \in MountPoints : Len(Remount(Flush(mounts), b)[q]) = Len(mounts[q])
  <2>1. mounts["client"] # <<>>
    BY <1>c DEF IInv, MountedWhileHeld, Holders
  <2>2. Flush(mounts)["client"] # <<>>
    BY <1>0, <1>f, <1>m, <2>1, EmptyStack
  <2> QED
    BY <1>f, <1>m, <2>2, RemountMap
<1>1. ASSUME NEW mp \in MountPoints, NEW pin \in PinKinds, CaseTouch(s, mp, pin)
      PROVE  Kept
  <2>1. 1 \in 1..Len(mounts[mp])
    BY <1>0, <1>1, EmptyStack DEF CaseTouch
  <2>2. mounts' = Repin(mounts, mp, 1, mounts[mp][1].pins \cup {pin})
    BY <1>1 DEF CaseTouch
  <2>3. {pin} \in SUBSET PinKinds
    OBVIOUS
  <2> QED
    BY <1>r, <2>1, <2>2, <2>3
<1>2. CASE HostbinMount(s)
  <2>1. mounts' = mounts \/ mounts' = Push(mounts, "hostbin", s)
    BY <1>2 DEF HostbinMount
  <2>2. \A q \in MountPoints \ {"hostbin"} : Push(mounts, "hostbin", s)[q] = mounts[q]
    BY <1>0, <1>m, PushMap
  <2> QED
    BY <1>2, <2>1, <2>2
<1>3. CASE RemountRW(s)
  <2>1. mounts' = Remount(Flush(mounts), FALSE)
    BY <1>3 DEF RemountRW
  <2>2. pc[s] \in CaseLabels
    BY <1>3 DEF RemountRW, CaseLabels
  <2>3. \A q \in MountPoints : Len(Remount(Flush(mounts), FALSE)[q]) = Len(mounts[q])
    BY <1>c, <2>2
  <2> QED
    BY <1>m, <2>1, <2>3
<1>4. CASE RemountRO(s)
  <2>1. mounts' = Flush(mounts) \/ mounts' = Remount(Flush(mounts), TRUE)
    BY <1>4 DEF RemountRO
  <2>2. pc[s] \in CaseLabels
    BY <1>4 DEF RemountRO, CaseLabels
  <2>3. \A q \in MountPoints : Len(Remount(Flush(mounts), TRUE)[q]) = Len(mounts[q])
    BY <1>c, <2>2
  <2> QED
    BY <1>f, <1>m, <2>1, <2>3
<1>5. CASE SuiteExit(s) \/ \E l \in CaseLabels : CaseCall(s, l)
  BY <1>5 DEF SuiteExit, CaseCall
<1>6. CASE DelayedFput
  BY <1>6, <1>f, <1>m DEF DelayedFput
<1>7. ASSUME NEW mp \in MountPoints, NEW i \in 1..Len(mounts[mp]), LateDone(mp, i)
      PROVE  Kept
  <2>1. mounts[mp][i] \in Mounts
    BY <1>0, ElementOfSeq DEF MountMap
  <2>2. mounts[mp][i].pins \ {"late"} \in SUBSET PinKinds
    BY <2>1 DEF Mounts
  <2>3. mounts' = Repin(mounts, mp, i, mounts[mp][i].pins \ {"late"})
    BY <1>7 DEF LateDone
  <2> QED
    BY <1>0, <1>m, <2>2, <2>3, RepinMap
<1> QED
  BY <1>1, <1>2, <1>3, <1>4, <1>5, <1>6, <1>7, <1>m DEF Async

-----------------------------------------------------------------------------
(***************************************************************************)
(* The frames: a step of the lock's holder, and a step of a suite or of    *)
(* the kernel outside the lock.                                            *)
(***************************************************************************)

\* A step of the suite that holds the lock, and goes on holding it.
LEMMA InsideOrder ==
    ASSUME IInv, OrderInv, NEW s \in Suites, pc[s] \in Critical,
           UNCHANGED lock,
           \A t \in Suites \ {s} : pc'[t] = pc[t] /\ sweeps'[t] = sweeps[t],
           Stacks', Place(s)'
    PROVE  OrderInv'
<1>1. lock = s /\ s # NoSuite
  BY CriticalAlone, FixtureAssumption
<1>2. ASSUME NEW t \in Suites \ {s}
      PROVE  Place(t)'
  <2>1. pc[t] \notin Critical
    BY <1>1 DEF IInv, LockInv
  <2>2. sweeps[t] # 0 => pc[t] \in {"c_scratch", "td_scratch"}
    BY DEF OrderInv, Place
  <2> QED
    BY <2>1, <2>2 DEF Place, Critical, BringupLabels, TeardownLabels, Serverless
<1>3. Idle'
  BY <1>1 DEF Idle
<1> QED
  BY <1>2, <1>3 DEF OrderInv

\* A step outside the lock that leaves the depths and the server alone.
LEMMA OutsideOrder ==
    ASSUME IInv, OrderInv, NEW s \in Suites, NEW l,
           pc \in [Suites -> Labels],
           UNCHANGED pc \/ Goto(s, l),
           l \notin Serverless \cup {"client", "root", "td_client", "td_nfsd"},
           l = "td_scratch" => pc[s] = "td_scratch",
           UNCHANGED <<env, nfsd, sweeps>>, sweeps[s] = 0 \/ UNCHANGED pc,
           \A mp \in {"client", "scratch", "nfsdfs"} : Len(mounts'[mp]) = Len(mounts[mp]),
           Idle'
    PROVE  OrderInv'
<1>1. Stacks'
  BY DEF OrderInv, Stacks, Depth
<1>2. \A t \in Suites : Place(t)'
  BY DEF OrderInv, Place, Depth, Goto, Serverless
<1> QED
  BY <1>1, <1>2 DEF OrderInv

\* The cases and the kernel.
LEMMA CaseOrder ==
    ASSUME IInv, OrderInv, NEW s \in Suites,
           Case(s) \/ CaseLoop(s) \/ SuiteExit(s) \/ Async
    PROVE  OrderInv'
<1> USE DEF locals, kernel
<1>0. /\ TypeOK /\ TypeOK' /\ IInv' /\ pc \in [Suites -> Labels]
  BY CaseType, CaseStep DEF IInv, TypeOK
<1>1. UNCHANGED <<lock, env, nfsd>> /\ Holders' = Holders
  <2>1. UNCHANGED <<lock, env, nfsd>>
    BY DEF Case, CaseTouch, ScratchMount, HostbinMount, RemountRW, CaseCall, CaseLoop,
           ScratchUmount, RemountRO, SuiteExit, Async, DelayedFput, LateDone
  <2>2. \/ UNCHANGED pc
        \/ pc[s] \in CaseLabels /\ \E l \in CaseLabels \cup {"put"} : Goto(s, l)
    BY DEF Case, CaseTouch, ScratchMount, HostbinMount, RemountRW, CaseCall, CaseLoop,
           ScratchUmount, ScratchSweep, RemountRO, SuiteExit, Async, DelayedFput, LateDone,
           CaseLabels
  <2>3. Holders' = Holders
    BY <1>0, <2>2, HoldersStep DEF Holders, Labels
  <2> QED
    BY <2>1, <2>3
<1>2. Idle'
  BY <1>1 DEF OrderInv, Idle
<1>3. \A mp \in {"client", "nfsdfs"} : Len(mounts'[mp]) = Len(mounts[mp])
  BY CaseMounts DEF SameDepth, Deployed
<1>d. Depth("scratch") \in Nat /\ Depth("scratch")' \in Nat /\ Depth("client") \in Nat
  <2>1. mounts' \in MountMap /\ mounts \in MountMap
    BY <1>0, CaseMounts, Depths
  <2> QED
    BY <2>1, EmptyStack DEF Depth, MountPoints
<1>u. pc[s] \in CaseLabels \cup {"put"} => nfsd.threads
  BY DEF IInv, MountedWhileHeld, Holders
<1>4. ASSUME \/ \E mp \in MountPoints, pin \in PinKinds : CaseTouch(s, mp, pin)
             \/ HostbinMount(s) \/ RemountRW(s)
             \/ \E l \in CaseLabels : CaseCall(s, l)
             \/ RemountRO(s) \/ SuiteExit(s) \/ Async
      PROVE  OrderInv'
  <2>1. Len(mounts'["scratch"]) = Len(mounts["scratch"])
    BY <1>4, DepthsKept DEF MountPoints
  <2>2. /\ UNCHANGED sweeps
        /\ \/ UNCHANGED pc
           \/ /\ pc[s] \in {"cases", "c_ro"}
              /\ \E l \in CaseLabels \cup {"put"} : Goto(s, l)
    BY <1>4 DEF CaseTouch, HostbinMount, RemountRW, CaseCall, RemountRO, SuiteExit, Async,
                DelayedFput, LateDone, CaseLabels
  <2>3. pc[s] \in {"cases", "c_ro"} => sweeps[s] = 0
    BY DEF OrderInv, Place
  <2>4. \A l \in CaseLabels \cup {"put"} :
          l \notin Serverless \cup {"client", "root", "td_client", "td_nfsd", "td_scratch"}
    BY DEF CaseLabels, Serverless
  <2>5. \A mp \in {"client", "scratch", "nfsdfs"} : Len(mounts'[mp]) = Len(mounts[mp])
    BY <1>3, <2>1
  <2>6. CASE UNCHANGED pc
    <3>1. "put" \in CaseLabels \cup {"put"}
      OBVIOUS
    <3> QED
      BY <1>0, <1>1, <1>2, <2>2, <2>4, <2>5, <2>6, <3>1, OutsideOrder
  <2>7. ASSUME NEW l \in CaseLabels \cup {"put"}, pc[s] \in {"cases", "c_ro"}, Goto(s, l)
        PROVE  OrderInv'
    <3>1. sweeps[s] = 0
      BY <2>3, <2>7
    <3>2. /\ l \notin Serverless \cup {"client", "root", "td_client", "td_nfsd"}
          /\ l = "td_scratch" => pc[s] = "td_scratch"
      BY <2>4
    <3>3. Goto(s, l) /\ UNCHANGED <<env, nfsd, sweeps>>
      BY <1>1, <2>2, <2>7
    <3> QED
      BY <1>0, <1>2, <2>5, <3>1, <3>2, <3>3, OutsideOrder
  <2> QED
    BY <2>2, <2>6, <2>7
\* Another scratch mount, or none.
<1>5. CASE ScratchMount(s)
  <2>1. CASE mounts' = mounts
    <3>1. UNCHANGED <<pc, sweeps>>
      BY <1>5 DEF ScratchMount
    <3> QED
      BY <1>1, <1>2, <2>1, <3>1 DEF OrderInv, Place, Stacks, Depth
  <2>2. CASE mounts' = Push(mounts, "scratch", s)
    <3>1. UNCHANGED <<pc, sweeps>> /\ pc[s] = "cases" /\ Depth("scratch") < MaxScratch
      BY <1>5 DEF ScratchMount, Depth
    <3>2. nfsd.threads
      BY <1>u, <3>1 DEF CaseLabels
    <3>3. Len(mounts'["scratch"]) = Len(mounts["scratch"]) + 1
      BY <1>0, <2>2, Depths, PushMap DEF MountPoints, TypeOK
    <3>4. Stacks'
      BY <1>0, <1>1, <1>3, <1>d, <3>1, <3>2, <3>3, Bounds DEF OrderInv, Stacks, Depth
    <3>5. s \in Holders
      BY <3>1 DEF Holders, CaseLabels
    <3>6. lock = NoSuite
      BY <3>5 DEF IInv, CountInv
    <3>7. \A t \in Suites : pc[t] \notin Critical
      BY <3>6, FixtureAssumption DEF IInv, LockInv
    <3>8. \A t \in Suites : Place(t)'
      BY <3>1, <3>7 DEF OrderInv, Place, Critical, BringupLabels, TeardownLabels, Serverless
    <3> QED
      BY <1>2, <3>4, <3>8 DEF OrderInv
  <2> QED
    BY <1>5, <2>1, <2>2 DEF ScratchMount
\* xfs_scratch_umount() called by a case.
<1>6. CASE ScratchUmount(s)
  <2>1. /\ pc[s] = "c_scratch"
        /\ \/ SettleAgain(s, "scratch") /\ UNCHANGED <<pc, sweeps>>
           \/ /\ Settled(s, "scratch")
              /\ \/ UNCHANGED pc
                 \/ sweeps' = [sweeps EXCEPT ![s] = 0] /\ Goto(s, "cases")
              /\ \A t \in Suites \ {s} : sweeps'[t] = sweeps[t]
    BY <1>0, <1>6 DEF ScratchUmount, ScratchSweep, TypeOK
  <2>2. Depth("scratch")' <= Depth("scratch")
    <3>1. "scratch" \in MountPoints
      BY DEF MountPoints
    <3> QED
      BY <1>0, <1>d, <2>1, <3>1, SettleDepth DEF Depth
  <2>3. Stacks'
    BY <1>0, <1>1, <1>3, <1>d, <2>2, Bounds DEF OrderInv, Stacks, Depth
  <2>4. s \in Holders
    BY <2>1 DEF Holders, CaseLabels
  <2>5. lock = NoSuite
    BY <2>4 DEF IInv, CountInv
  <2>6. \A t \in Suites : pc[t] \notin Critical
    BY <2>5, FixtureAssumption DEF IInv, LockInv
  <2>7. ASSUME NEW t \in Suites \ {s}
        PROVE  Place(t)'
    <3>1. pc'[t] = pc[t] /\ sweeps'[t] = sweeps[t]
      BY <1>0, <2>1 DEF Goto
    <3>2. sweeps[t] # 0 => pc[t] \in {"c_scratch", "td_scratch"}
      BY DEF OrderInv, Place
    <3> QED
      BY <2>6, <3>1, <3>2 DEF Place, Critical, BringupLabels, TeardownLabels, Serverless
  <2>8. Place(s)'
    <3>1. CASE UNCHANGED pc
      BY <2>1, <3>1 DEF Place, Serverless
    <3>2. CASE sweeps' = [sweeps EXCEPT ![s] = 0] /\ Goto(s, "cases")
      <4>1. sweeps'[s] = 0 /\ pc'[s] = "cases"
        BY <1>0, <3>2 DEF Goto, TypeOK
      <4> QED
        BY <4>1 DEF Place, Serverless
    <3> QED
      BY <2>1, <3>1, <3>2
  <2> QED
    BY <1>2, <2>3, <2>7, <2>8 DEF OrderInv
<1> QED
  BY <1>4, <1>5, <1>6 DEF Case, CaseLoop

\* Taking the lock, or giving it back, with nobody else in the critical
\* section.
LEMMA LockOrder ==
    ASSUME IInv, OrderInv, NEW s \in Suites, NEW l,
           pc \in [Suites -> Labels], Goto(s, l),
           \A t \in Suites \ {s} : pc[t] \notin Critical,
           UNCHANGED <<env, nfsd, mounts, sweeps>>, sweeps[s] = 0,
           l \in Serverless => ~nfsd.threads,
           l \notin {"client", "root", "td_client", "td_nfsd", "td_scratch"},
           Idle'
    PROVE  OrderInv'
<1>1. Stacks'
  BY DEF OrderInv, Stacks, Depth
<1>2. Place(s)'
  BY DEF Place, Goto
<1>3. ASSUME NEW t \in Suites \ {s}
      PROVE  Place(t)'
  <2>1. pc'[t] = pc[t] /\ sweeps'[t] = sweeps[t]
    BY DEF Goto
  <2>2. sweeps[t] # 0 => pc[t] \in {"c_scratch", "td_scratch"}
    BY DEF OrderInv, Place
  <2> QED
    BY <2>1, <2>2 DEF Place, Critical, BringupLabels, TeardownLabels, Serverless
<1> QED
  BY <1>1, <1>2, <1>3 DEF OrderInv

\* suite_init and xfstests_nfs_get().
LEMMA GetOrder ==
    ASSUME IInv, OrderInv, NEW s \in Suites, Get(s)
    PROVE  OrderInv'
<1> USE DEF locals, kernel
<1>0. /\ TypeOK /\ IInv' /\ pc \in [Suites -> Labels] /\ mounts \in MountMap
      /\ opts \in Suites \cup {NoSuite} /\ env \in [EnvFlags -> BOOLEAN]
  BY GetStep, Depths DEF IInv, TypeOK
<1>m. {"export", "nfsdfs", "client", "scratch"} \subseteq MountPoints
  BY DEF MountPoints
<1>d. /\ Depth("scratch") \in Nat /\ Depth("client") \in Nat /\ Depth("nfsdfs") \in Nat
      /\ mounts["client"] = <<>> <=> Depth("client") = 0
      /\ mounts["nfsdfs"] = <<>> <=> Depth("nfsdfs") = 0
  BY <1>0, <1>m, Depths
<1>z. /\ UNCHANGED sweeps
      /\ pc[s] \in {"idle", "get"} \cup BringupLabels
      /\ sweeps[s] = 0
  <2>1. UNCHANGED sweeps /\ pc[s] \in {"idle", "get"} \cup BringupLabels
    BY DEF Get, SuiteInit, GetJoin, GetFirst, LoopbackUp, MakeDirs, MountTmpfs, MountNfsdfs,
           MountStep, ConfigureExports, StartNfsd, MountClient, CaptureRoot, BringupLabels
  <2> QED
    BY <2>1 DEF OrderInv, Place, BringupLabels
<1>f. lock = NoSuite => \A t \in Suites : pc[t] \notin Critical
  BY FixtureAssumption DEF IInv, LockInv
<1>1. CASE SuiteInit(s)
  <2>1. Holders' = Holders
    BY <1>0, <1>1 DEF SuiteInit, Goto, Holders, CaseLabels
  <2>2. Idle'
    BY <1>1, <2>1 DEF SuiteInit, OrderInv, Idle
  <2>3. Goto(s, "get") /\ UNCHANGED <<env, nfsd, mounts>>
    BY <1>1 DEF SuiteInit
  <2>4. "get" \notin Serverless
    BY DEF Serverless
  <2> QED
    BY <1>0, <1>z, <2>2, <2>3, <2>4, OutsideOrder
<1>2. CASE GetJoin(s)
  <2>1. Goto(s, "cases") /\ UNCHANGED <<env, nfsd, mounts>>
    BY <1>2 DEF GetJoin
  <2>2. s \in Holders'
    BY <1>0, <2>1 DEF Goto, Holders, CaseLabels
  <2>3. Idle'
    BY <2>2 DEF Idle
  <2>4. "cases" \notin Serverless
    BY DEF Serverless
  <2> QED
    BY <1>0, <1>z, <2>1, <2>3, <2>4, OutsideOrder
<1>3. CASE GetFirst(s)
  <2>1. lock = NoSuite /\ lock' = s /\ Goto(s, "lo") /\ UNCHANGED <<env, nfsd, mounts>>
    BY <1>3 DEF GetFirst
  <2>2. Holders = {}
    BY <1>3, HoldersFinite, FS_EmptySet DEF GetFirst, IInv, CountInv, RefsCountHolders
  <2>3. ~nfsd.threads
    BY <2>1, <2>2 DEF OrderInv, Idle
  <2>4. Idle'
    BY <2>1, FixtureAssumption DEF Idle
  <2> QED
    BY <1>0, <1>f, <1>z, <2>1, <2>3, <2>4, LockOrder
\* The steps with the lock held.
<1>i. ASSUME pc[s] \in Critical, NEW l, Goto(s, l), UNCHANGED lock, Stacks', Place(s)'
      PROVE  OrderInv'
  <2>1. \A t \in Suites \ {s} : pc'[t] = pc[t] /\ sweeps'[t] = sweeps[t]
    BY <1>0, <1>i, <1>z DEF Goto
  <2> QED
    BY <1>i, <2>1, InsideOrder
<1>p. ASSUME NEW l, Goto(s, l)
      PROVE  pc'[s] = l
  BY <1>0, <1>p DEF Goto
\* A step that fails leaves the stacks as they are and goes to teardown.
<1>g. ASSUME pc[s] \in Critical, UNCHANGED lock, Goto(s, "td_hostbin"), Stacks'
      PROVE  OrderInv'
  <2>1. Place(s)'
    BY <1>g, <1>p, <1>z DEF Place, Serverless
  <2> QED
    BY <1>g, <1>i, <2>1
<1>l. ASSUME pc[s] \in Critical, UNCHANGED lock, NEW l \in Serverless, Goto(s, l), Stacks',
             pc[s] \in Serverless, UNCHANGED nfsd
      PROVE  OrderInv'
  <2>1. ~nfsd.threads
    BY <1>l DEF OrderInv, Place
  <2>2. Place(s)'
    BY <1>l, <1>p, <1>z, <2>1 DEF Place, Serverless
  <2> QED
    BY <1>i, <1>l, <2>2
<1>4. CASE LoopbackUp(s) \/ MakeDirs(s)
  <2>1. /\ pc[s] \in {"lo", "mkdirs"}
        /\ UNCHANGED <<lock, env, nfsd, mounts>>
        /\ \E l \in {"mkdirs", "tmpfs", "td_hostbin"} : Goto(s, l)
    BY <1>4 DEF LoopbackUp, MakeDirs, GiveUp
  <2>2. Stacks'
    BY <2>1 DEF OrderInv, Stacks, Depth
  <2> QED
    BY <1>g, <1>l, <2>1, <2>2 DEF Critical, BringupLabels, Serverless
<1>5. CASE MountTmpfs(s) \/ MountNfsdfs(s)
  <2>1. PICK mp \in {"export", "nfsdfs"}, flag \in {"tmpfs", "nfsdfs"} :
          /\ pc[s] \in {"tmpfs", "nfsdfs"}
          /\ UNCHANGED <<lock, nfsd>>
          /\ \/ /\ mounts' = Push(mounts, mp, s)
                /\ env' = [env EXCEPT ![flag] = TRUE]
                /\ \E l \in {"nfsdfs", "exports"} : Goto(s, l)
             \/ /\ UNCHANGED <<mounts, env>>
                /\ Goto(s, "td_hostbin")
    BY <1>5 DEF MountTmpfs, MountNfsdfs, MountStep, GiveUp
  <2>2. /\ Len(mounts'["client"]) = Len(mounts["client"])
        /\ Len(mounts'["scratch"]) = Len(mounts["scratch"])
        /\ Len(mounts'["nfsdfs"]) = Len(mounts["nfsdfs"])
             \/ Len(mounts'["nfsdfs"]) = Len(mounts["nfsdfs"]) + 1
    <3>0. mp \in MountPoints
      BY <1>m
    <3>1. /\ \A q \in MountPoints \ {mp} : Push(mounts, mp, s)[q] = mounts[q]
          /\ Len(Push(mounts, mp, s)[mp]) = Len(mounts[mp]) + 1
      BY <1>0, <3>0, PushMap
    <3> QED
      BY <1>m, <2>1, <3>1
  <2>3. env'["client"] = env["client"] /\ env'["nfsd"] = env["nfsd"]
    BY <1>0, <2>1 DEF EnvFlags
  <2>4. Stacks'
    BY <1>d, <2>1, <2>2, <2>3 DEF OrderInv, Stacks, Depth
  <2> QED
    BY <1>g, <1>l, <2>1, <2>4 DEF Critical, BringupLabels, Serverless
<1>6. CASE ConfigureExports(s)
  <2>1. /\ pc[s] = "exports"
        /\ UNCHANGED <<lock, env, nfsd>>
        /\ \E l \in {"nfsd", "td_hostbin"} : Goto(s, l)
        /\ \/ mounts' = mounts
           \/ mounts' = Repin(mounts, "export", 1, mounts["export"][1].pins \cup {"cache"})
    BY <1>6 DEF ConfigureExports, GiveUp, Feed
  <2>2. mounts["export"] # <<>>
    BY <2>1 DEF IInv, StageInv, Stage
  <2>3. 1 \in 1..Len(mounts["export"])
    BY <1>0, <1>m, <2>2, EmptyStack
  <2>4. mounts["export"][1] \in Mounts
    BY <1>0, <1>m, <2>3, ElementOfSeq DEF MountMap
  <2>5. mounts["export"][1].pins \cup {"cache"} \in SUBSET PinKinds
    BY <2>4 DEF Mounts, PinKinds
  <2>6. \A q \in MountPoints : Len(mounts'[q]) = Len(mounts[q])
    BY <1>0, <1>m, <2>1, <2>3, <2>5, RepinMap
  <2>7. Stacks'
    BY <1>m, <2>1, <2>6 DEF OrderInv, Stacks, Depth
  <2> QED
    BY <1>g, <1>l, <2>1, <2>7 DEF Critical, BringupLabels, Serverless
<1>7. CASE StartNfsd(s)
  <2>1. /\ pc[s] = "nfsd" /\ UNCHANGED <<lock, mounts>>
        /\ ~nfsd.threads
        /\ Depth("scratch") = 0 /\ Depth("client") = 0 /\ Depth("nfsdfs") # 0
    <3>1. pc[s] = "nfsd" /\ UNCHANGED <<lock, mounts>>
      BY <1>7 DEF StartNfsd
    <3>2. ~nfsd.threads
      BY <3>1 DEF OrderInv, Place, Serverless
    <3>3. mounts["nfsdfs"] # <<>>
      BY <3>1 DEF IInv, StageInv, Stage
    <3> QED
      BY <1>d, <3>1, <3>2, <3>3 DEF OrderInv, Stacks
  <2>2. CASE Goto(s, "client") /\ env' = [env EXCEPT !["nfsd"] = TRUE]
    <3>1. env'["nfsd"] /\ pc'[s] = "client"
      BY <1>0, <1>p, <2>2 DEF EnvFlags
    <3>2. Stacks' /\ Place(s)'
      BY <1>d, <1>z, <2>1, <3>1, Bounds DEF OrderInv, Stacks, Place, Depth, Serverless
    <3> QED
      BY <1>i, <2>1, <2>2, <3>2 DEF Critical, BringupLabels
  <2>3. CASE /\ Goto(s, "td_hostbin") /\ UNCHANGED env
             /\ \/ UNCHANGED nfsd
                \/ nfsd' = [nfsd EXCEPT !.serv = TRUE]
                \/ nfsd' = [nfsd EXCEPT !.serv = TRUE, !.socks = {"udp"}]
                \/ nfsd' = NfsdDown
    <3>1. ~nfsd'.threads
      <4>1. nfsd \in [serv : BOOLEAN, socks : SUBSET {"udp", "tcp"}, threads : BOOLEAN]
        BY <1>0 DEF TypeOK
      <4>2. /\ [nfsd EXCEPT !.serv = TRUE].threads = nfsd.threads
            /\ [nfsd EXCEPT !.serv = TRUE, !.socks = {"udp"}].threads = nfsd.threads
            /\ NfsdDown.threads = FALSE
        BY <4>1 DEF NfsdDown
      <4> QED
        BY <2>1, <2>3, <4>2
    <3>2. Stacks'
      BY <1>d, <2>1, <2>3, <3>1 DEF OrderInv, Stacks, Depth
    <3> QED
      BY <1>g, <2>1, <2>3, <3>2 DEF Critical, BringupLabels
  <2> QED
    BY <1>7, <2>2, <2>3 DEF StartNfsd, GiveUp
<1>8. CASE MountClient(s)
  <2>1. pc[s] = "client" /\ nfsd.threads /\ UNCHANGED <<lock, nfsd>> /\ Depth("scratch") = 0
    BY <1>8 DEF MountClient, MountStep, OrderInv, Place
  <2>2. CASE /\ mounts["client"] = <<>> /\ mounts' = Push(mounts, "client", s)
             /\ env' = [env EXCEPT !["client"] = TRUE]
             /\ Goto(s, "root")
    <3>1. /\ \A q \in MountPoints \ {"client"} : mounts'[q] = mounts[q]
          /\ Len(mounts'["client"]) = Len(mounts["client"]) + 1
      BY <1>0, <1>m, <2>2, PushMap
    <3>2. env'["client"] /\ env'["nfsd"] = env["nfsd"] /\ pc'[s] = "root"
      BY <1>0, <1>p, <2>2 DEF EnvFlags
    <3>3. Len(mounts'["client"]) = 1 /\ mounts'["scratch"] = mounts["scratch"]
            /\ mounts'["nfsdfs"] = mounts["nfsdfs"]
      BY <1>d, <1>m, <2>2, <3>1 DEF Depth
    <3>4. Stacks' /\ Place(s)'
      BY <1>z, <2>1, <3>2, <3>3 DEF OrderInv, Stacks, Place, Depth, Serverless
    <3> QED
      BY <1>i, <2>1, <2>2, <3>4 DEF Critical, BringupLabels
  <2>3. CASE UNCHANGED <<mounts, env>> /\ Goto(s, "td_hostbin")
    <3>1. Stacks'
      BY <2>1, <2>3 DEF OrderInv, Stacks, Depth
    <3> QED
      BY <1>g, <2>1, <2>3, <3>1 DEF Critical, BringupLabels
  <2> QED
    BY <1>8, <2>2, <2>3 DEF MountClient, MountStep, Mountable, GiveUp
<1>9. CASE CaptureRoot(s)
  <2>1. Goto(s, "cases") /\ UNCHANGED <<env, nfsd, mounts>> /\ pc[s] \in Critical
    BY <1>9 DEF CaptureRoot, Critical, BringupLabels
  <2>2. s \in Holders'
    BY <1>0, <2>1 DEF Goto, Holders, CaseLabels
  <2>3. Idle'
    BY <2>2 DEF Idle
  <2>4. \A t \in Suites \ {s} : pc[t] \notin Critical
    BY <2>1, CriticalAlone DEF IInv, LockInv
  <2>5. "cases" \notin Serverless
    BY DEF Serverless
  <2> QED
    BY <1>0, <1>z, <2>1, <2>3, <2>4, <2>5, LockOrder
<1> QED
  BY <1>1, <1>2, <1>3, <1>4, <1>5, <1>6, <1>7, <1>8, <1>9 DEF Get

\* xfstests_nfs_put() and xfs_teardown().
LEMMA TeardownOrder ==
    ASSUME IInv, OrderInv, NEW s \in Suites, Put(s) \/ Teardown(s)
    PROVE  OrderInv'
<1> USE DEF locals, kernel
<1>0. /\ TypeOK /\ IInv' /\ pc \in [Suites -> Labels] /\ mounts \in MountMap
      /\ env \in [EnvFlags -> BOOLEAN] /\ sweeps \in [Suites -> 0..ScratchTries]
  BY TeardownStep, Depths DEF IInv, TypeOK
<1>m. {"export", "nfsdfs", "client", "scratch", "hostbin"} \subseteq MountPoints
  BY DEF MountPoints
<1>d. /\ Depth("scratch") \in Nat /\ Depth("client") \in Nat /\ Depth("nfsdfs") \in Nat
      /\ mounts["scratch"] = <<>> <=> Depth("scratch") = 0
  BY <1>0, <1>m, Depths
<1>b. /\ ScratchTries \in Nat /\ MaxScratch \in Nat /\ MaxScratch <= ScratchTries
      /\ sweeps[s] \in Nat
  BY <1>0, Bounds
<1>n. /\ TeardownNext["td_hostbin"] = "td_scratch" /\ TeardownNext["td_scratch"] = "td_client"
      /\ TeardownNext["td_client"] = "td_nfsd" /\ TeardownNext["td_nfsd"] = "td_nfsdfs"
      /\ TeardownNext["td_nfsdfs"] = "td_tmpfs" /\ TeardownNext["td_tmpfs"] = "td_end"
  BY DEF TeardownNext
<1>z. pc[s] \in ({"put"} \cup TeardownLabels) \ {"td_scratch"} => sweeps[s] = 0
  BY DEF OrderInv, Place, TeardownLabels
<1>i. ASSUME pc[s] \in Critical, NEW l, Goto(s, l), UNCHANGED <<lock, sweeps>>, Stacks', Place(s)'
      PROVE  OrderInv'
  <2>1. \A t \in Suites \ {s} : pc'[t] = pc[t] /\ sweeps'[t] = sweeps[t]
    BY <1>0, <1>i DEF Goto
  <2> QED
    BY <1>i, <2>1, InsideOrder
\* An attempt that has to be repeated.
<1>a. ASSUME NEW mp \in MountPoints, SettleAgain(s, mp), pc[s] \in Critical,
             UNCHANGED <<pc, lock, sweeps, env, nfsd>>
      PROVE  OrderInv'
  <2>1. \A q \in MountPoints : Len(mounts'[q]) = Len(mounts[q])
    BY <1>0, <1>a, SettleDepth
  <2>2. Stacks' /\ Place(s)'
    BY <1>a, <1>m, <2>1 DEF OrderInv, Stacks, Place, Depth
  <2> QED
    BY <1>a, <2>2, InsideOrder
<1>p. ASSUME NEW l, Goto(s, l)
      PROVE  pc'[s] = l
  BY <1>0, <1>p DEF Goto
<1>1. CASE Put(s)
  <2>1. /\ lock = NoSuite /\ pc[s] = "put" /\ UNCHANGED <<env, nfsd, mounts, sweeps>>
        /\ \/ refs = 1 /\ lock' = s /\ Goto(s, "td_hostbin")
           \/ refs # 1 /\ Goto(s, "done") /\ UNCHANGED lock
    BY <1>1 DEF Put
  <2>2. \A t \in Suites : pc[t] \notin Critical
    BY <2>1, FixtureAssumption DEF IInv, LockInv
  <2>3. refs' = refs - 1 /\ refs \in Nat
    BY <1>0, <1>1 DEF Put, TypeOK
  <2>4. refs # 1 => Holders' # {}
    <3>1. refs' = Cardinality(Holders')
      BY <1>0 DEF IInv, CountInv, RefsCountHolders
    <3> QED
      BY <2>3, <3>1, FS_EmptySet
  <2>5. Idle'
    BY <2>1, <2>4, FixtureAssumption DEF Idle
  <2>6. sweeps[s] = 0 /\ "td_hostbin" \notin Serverless /\ "done" \notin Serverless
    BY <1>z, <2>1 DEF Serverless
  <2>7. CASE refs = 1
    BY <1>0, <2>1, <2>2, <2>5, <2>6, <2>7, LockOrder
  <2>8. CASE refs # 1
    BY <1>0, <2>1, <2>2, <2>5, <2>6, <2>8, LockOrder
  <2> QED
    BY <2>7, <2>8
<1>2. CASE TdHostbin(s)
  <2>1. pc[s] = "td_hostbin" /\ UNCHANGED <<lock, env, sweeps, nfsd>>
    BY <1>2 DEF TdHostbin
  <2>2. CASE SettleAgain(s, "hostbin") /\ UNCHANGED pc
    BY <1>a, <1>m, <2>1, <2>2 DEF Critical, TeardownLabels
  <2>3. CASE (Settled(s, "hostbin") \/ UNCHANGED mounts) /\ Goto(s, "td_scratch")
    <3>1. \A q \in {"client", "scratch", "nfsdfs"} : Len(mounts'[q]) = Len(mounts[q])
      BY <1>0, <1>m, <2>3, SettleDepth
    <3>2. Stacks'
      BY <2>1, <3>1 DEF OrderInv, Stacks, Depth
    <3>3. sweeps[s] = 0 /\ Depth("scratch") <= MaxScratch
      BY <1>z, <2>1 DEF OrderInv, Stacks, TeardownLabels
    <3>4. Place(s)'
      BY <1>b, <1>d, <1>p, <2>1, <2>3, <3>1, <3>3 DEF Place, Depth, Serverless
    <3> QED
      BY <1>i, <2>1, <2>3, <3>2, <3>4 DEF Critical, TeardownLabels
  <2> QED
    BY <1>2, <1>n, <2>2, <2>3 DEF TdHostbin
<1>3. CASE TdScratch(s)
  <2>1. pc[s] = "td_scratch" /\ UNCHANGED <<lock, env, nfsd>>
    BY <1>3 DEF TdScratch
  <2>2. CASE SettleAgain(s, "scratch") /\ UNCHANGED <<pc, sweeps>>
    BY <1>a, <1>m, <2>1, <2>2 DEF Critical, TeardownLabels
  <2>3. ASSUME Settled(s, "scratch")
        PROVE  /\ Depth("scratch")' = IF Depth("scratch") = 0 THEN 0 ELSE Depth("scratch") - 1
               /\ Stacks'
    <3>1. /\ Depth("scratch")' = IF Depth("scratch") = 0 THEN 0 ELSE Depth("scratch") - 1
          /\ \A q \in {"client", "nfsdfs"} : Len(mounts'[q]) = Len(mounts[q])
      BY <1>0, <1>m, <2>3, SettleDepth DEF Depth
    <3>2. Stacks'
      BY <1>b, <1>d, <2>1, <3>1 DEF OrderInv, Stacks, Depth
    <3> QED
      BY <3>1, <3>2
  <2>4. Depth("scratch") + sweeps[s] <= ScratchTries
    BY <2>1 DEF OrderInv, Place
  <2>5. CASE /\ Settled(s, "scratch") /\ mounts["scratch"] # <<>> /\ UNCHANGED pc
             /\ sweeps' = [sweeps EXCEPT ![s] = sweeps[s] + 1]
    <3>1. sweeps'[s] = sweeps[s] + 1 /\ \A t \in Suites \ {s} : sweeps'[t] = sweeps[t]
      BY <1>0, <2>5
    <3>2. Depth("scratch")' + sweeps'[s] <= ScratchTries
      BY <1>b, <1>d, <2>3, <2>4, <2>5, <3>1
    <3>3. Place(s)'
      BY <2>1, <2>5, <3>2 DEF Place, Serverless
    <3> QED
      BY <2>1, <2>3, <2>5, <3>1, <3>3, InsideOrder DEF Critical, TeardownLabels
  <2>6. CASE /\ Settled(s, "scratch")
             /\ mounts["scratch"] = <<>> \/ ~(sweeps[s] + 1 < ScratchTries)
             /\ sweeps' = [sweeps EXCEPT ![s] = 0] /\ Goto(s, "td_client")
    <3>1. sweeps'[s] = 0 /\ \A t \in Suites \ {s} : pc'[t] = pc[t] /\ sweeps'[t] = sweeps[t]
      BY <1>0, <2>6 DEF Goto
    <3>2. Depth("scratch")' = 0
      BY <1>b, <1>d, <2>3, <2>4, <2>6
    <3>3. Place(s)'
      BY <1>p, <2>6, <3>1, <3>2 DEF Place, Serverless
    <3> QED
      BY <2>1, <2>3, <2>6, <3>1, <3>3, InsideOrder DEF Critical, TeardownLabels
  <2> QED
    BY <1>3, <1>n, <2>2, <2>5, <2>6 DEF TdScratch, ScratchSweep, MoreSweeps
<1>4. CASE TdClient(s)
  <2>1. pc[s] = "td_client" /\ UNCHANGED <<lock, sweeps, nfsd>> /\ sweeps[s] = 0
          /\ Depth("scratch") = 0
    BY <1>4, <1>z DEF TdClient, TeardownLabels, OrderInv, Place
  <2>2. CASE SettleAgain(s, "client") /\ UNCHANGED <<pc, env>>
    BY <1>a, <1>m, <2>1, <2>2 DEF Critical, TeardownLabels
  <2>3. CASE /\ Goto(s, "td_nfsd")
             /\ \/ Settled(s, "client") /\ env' = [env EXCEPT !["client"] = FALSE]
                \/ ~env["client"] /\ UNCHANGED <<mounts, env>>
    <3>1. \A q \in {"scratch", "nfsdfs"} : Len(mounts'[q]) = Len(mounts[q])
      BY <1>0, <1>m, <2>3, SettleDepth
    <3>2. Len(mounts'["client"]) = 0
      <4>1. Depth("client") <= 1 /\ (Depth("client") # 0 => env["client"])
        BY DEF OrderInv, Stacks
      <4>2. Settled(s, "client") =>
              Len(mounts'["client"]) = IF Len(mounts["client"]) = 0 THEN 0 ELSE Len(mounts["client"]) - 1
        BY <1>0, <1>m, SettleDepth
      <4> QED
        BY <1>d, <2>3, <4>1, <4>2 DEF Depth
    <3>3. env'["nfsd"] = env["nfsd"]
      BY <1>0, <2>3 DEF EnvFlags
    <3>4. Stacks' /\ Place(s)'
      BY <1>b, <1>p, <2>1, <2>3, <3>1, <3>2, <3>3 DEF OrderInv, Stacks, Place, Depth, Serverless
    <3> QED
      BY <1>i, <2>1, <2>3, <3>4 DEF Critical, TeardownLabels
  <2> QED
    BY <1>4, <1>n, <2>2, <2>3 DEF TdClient
<1>5. CASE TdNfsd(s)
  <2>1. /\ pc[s] = "td_nfsd" /\ UNCHANGED <<lock, sweeps>> /\ sweeps[s] = 0
        /\ Depth("scratch") = 0 /\ Depth("client") = 0 /\ Goto(s, "td_nfsdfs")
    BY <1>5, <1>n, <1>z DEF TdNfsd, TeardownLabels, OrderInv, Place
  <2>2. \/ nfsd' = NfsdDown /\ mounts' = Uncached(mounts)
        \/ ~env["nfsd"] /\ UNCHANGED <<nfsd, mounts, env>>
    BY <1>5 DEF TdNfsd
  <2>3. ~nfsd'.threads
    BY <2>2 DEF OrderInv, Stacks, NfsdDown
  <2>4. \A q \in MountPoints : Len(mounts'[q]) = Len(mounts[q])
    BY <1>0, <2>2, UncachedMap
  <2>5. Stacks' /\ Place(s)'
    BY <1>b, <1>m, <1>p, <2>1, <2>3, <2>4 DEF Stacks, Place, Depth, Serverless
  <2> QED
    BY <1>i, <2>1, <2>5 DEF Critical, TeardownLabels
<1>6. CASE TdNfsdfs(s) \/ TdTmpfs(s)
  <2>1. PICK mp \in {"nfsdfs", "export"}, flag \in {"nfsdfs", "tmpfs"}, l \in {"td_tmpfs", "td_end"} :
          /\ pc[s] \in {"td_nfsdfs", "td_tmpfs"} /\ Goto(s, l)
          /\ UNCHANGED <<lock, sweeps, nfsd>>
          /\ mounts' = Pop(mounts, mp) \/ mounts' = mounts
          /\ env' = [env EXCEPT ![flag] = FALSE]
    BY <1>6, <1>n DEF TdNfsdfs, TdTmpfs, PlainUmount
  <2>2. ~nfsd.threads /\ sweeps[s] = 0
    BY <1>z, <2>1 DEF OrderInv, Place, Serverless, TeardownLabels
  <2>3. mounts'["client"] = mounts["client"] /\ mounts'["scratch"] = mounts["scratch"]
    <3>1. mp \in MountPoints
      BY <1>m
    <3>2. \A q \in MountPoints \ {mp} : Pop(mounts, mp)[q] = mounts[q]
      BY <1>0, <3>1, PopMap
    <3> QED
      BY <1>m, <2>1, <3>2
  <2>4. env'["client"] = env["client"]
    BY <1>0, <2>1 DEF EnvFlags
  <2>5. Stacks' /\ Place(s)'
    BY <1>p, <2>1, <2>2, <2>3, <2>4 DEF OrderInv, Stacks, Place, Depth, Serverless
  <2> QED
    BY <1>i, <2>1, <2>5 DEF Critical, TeardownLabels
<1>7. CASE TdEnd(s)
  <2>1. PICK l \in {"done", "failed"} :
          pc[s] = "td_end" /\ Goto(s, l) /\ UNCHANGED <<env, nfsd, mounts, sweeps>>
    BY <1>7 DEF TdEnd
  <2>2. ~nfsd.threads /\ sweeps[s] = 0 /\ l \notin Serverless
    BY <1>z, <2>1 DEF OrderInv, Place, Serverless, TeardownLabels
  <2>3. Idle'
    BY <2>1, <2>2 DEF Idle
  <2>4. \A t \in Suites \ {s} : pc[t] \notin Critical
    BY <2>1, CriticalAlone DEF IInv, LockInv, Critical, TeardownLabels
  <2> QED
    BY <1>0, <2>1, <2>2, <2>3, <2>4, LockOrder
<1> QED
  BY <1>1, <1>2, <1>3, <1>4, <1>5, <1>6, <1>7 DEF Teardown

-----------------------------------------------------------------------------
\* The order is kept in every state.
THEOREM OrderInvariance == Spec => [](IInv /\ OrderInv)
<1>1. Init => IInv /\ OrderInv
  <2> SUFFICES ASSUME Init PROVE OrderInv
    BY InitIInv
  <2>1. \A mp \in {"client", "scratch", "nfsdfs"} : Depth(mp) = 0
    BY EmptySeq DEF Init, Depth, MountPoints
  <2>2. MaxScratch \in Nat
    BY FixtureAssumption
  <2>3. Stacks /\ Idle
    BY <2>1, <2>2 DEF Init, Stacks, Idle, NfsdDown
  <2>4. \A s \in Suites : Place(s)
    BY DEF Init, Place, Serverless
  <2> QED
    BY <2>3, <2>4 DEF OrderInv
<1>2. IInv /\ OrderInv /\ [Next]_vars => (IInv /\ OrderInv)'
  <2> SUFFICES ASSUME IInv, OrderInv, [Next]_vars PROVE OrderInv'
    BY NextIInv
  <2>1. CASE UNCHANGED vars
    <3>1. UNCHANGED <<pc, lock, env, sweeps, mounts, nfsd, Holders>>
      BY <2>1 DEF vars, locals, kernel, Holders
    <3> QED
      BY <3>1 DEF OrderInv, Stacks, Idle, Place, Depth
  <2>2. PICK s \in Suites : TRUE
    BY FixtureAssumption
  <2>3. CASE Async
    BY <2>2, <2>3, CaseOrder
  <2>4. CASE Next
    BY <2>1, <2>3, <2>4, GetOrder, CaseOrder, TeardownOrder DEF Next, Finished
  <2> QED
    BY <2>1, <2>4
<1> QED
  BY <1>1, <1>2, PTL DEF Spec

\* Nothing NFS is ever mounted without a server to answer it, and the server
\* never runs without its control filesystem, whatever fails and however the
\* suites interleave: xfs_bringup() and xfs_teardown() keep the order.
THEOREM ServerAlwaysOutlives == Spec => []ServerOutlivesMounts
<1>1. IInv /\ OrderInv => ServerOutlivesMounts
  <2> SUFFICES ASSUME IInv, OrderInv PROVE ServerOutlivesMounts
    OBVIOUS
  <2>1. \A mp \in {"client", "scratch", "nfsdfs"} : mounts[mp] = <<>> <=> Depth(mp) = 0
    BY Depths DEF IInv, MountPoints
  <2> QED
    BY <2>1 DEF OrderInv, Stacks, ServerOutlivesMounts
<1> QED
  BY <1>1, OrderInvariance, PTL
===============================================================================
