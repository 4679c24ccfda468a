-------------------------- MODULE FixtureCleanProofs --------------------------
(***************************************************************************)
(* What KUnit's order adds to the fixture: suites that run one after       *)
(* another each get a deployment of their own, and leave nothing behind    *)
(* but exports that a leaked file pins, for every set of suites and every  *)
(* bound; and how far the effects of a step that fails reach.              *)
(***************************************************************************)
EXTENDS FixtureProofs

-----------------------------------------------------------------------------
(***************************************************************************)
(* What the mount operators do to single mounts.                           *)
(***************************************************************************)

\* y is the mount x without some of its references; a leaked file stays.
Lighter(x, y) ==
    /\ y.by = x.by /\ y.opts = x.opts
    /\ y.pins \subseteq x.pins
    /\ "leak" \in x.pins => "leak" \in y.pins

Eased(m, n, mp) ==
    /\ Len(n[mp]) = Len(m[mp])
    /\ \A i \in 1..Len(m[mp]) : Lighter(m[mp][i], n[mp][i])

\* The references a case may leave on a mount of mp.
Left(mp) == IF mp = "nfsdfs" THEN {}
            ELSE IF mp = "export" THEN {"pend", "leak"} ELSE {"pend", "late", "leak"}

\* The same mounts after a step of a case.
Touched(m, n, mp) ==
    /\ Len(n[mp]) = Len(m[mp])
    /\ \A i \in 1..Len(m[mp]) :
         /\ n[mp][i].by = m[mp][i].by /\ n[mp][i].opts = m[mp][i].opts
         /\ n[mp][i].pins \subseteq m[mp][i].pins \cup Left(mp)
         /\ "leak" \in m[mp][i].pins => "leak" \in n[mp][i].pins

\* Without references of the kinds P.
Free(m, mp, P) == \A i \in 1..Len(m[mp]) : m[mp][i].pins \cap P = {}

\* The mounts of a stack are records of the type.
LEMMA MountRecord ==
    ASSUME NEW m \in MountMap, NEW mp \in MountPoints, NEW i \in 1..Len(m[mp])
    PROVE  m[mp][i] \in Mounts /\ m[mp][i].pins \subseteq PinKinds
<1>1. m[mp][i] \in Mounts
  BY ElementOfSeq DEF MountMap
<1> QED
  BY <1>1 DEF Mounts

\* Dropping references one after another.
LEMMA EasedTwice ==
    ASSUME NEW m, NEW n, NEW k, NEW mp, Eased(m, n, mp), Eased(n, k, mp)
    PROVE  Eased(m, k, mp)
BY DEF Eased, Lighter

\* A stack that nobody changes is eased, and easing is what a case may do.
LEMMA EasedSame ==
    ASSUME NEW m, NEW n, NEW mp
    PROVE  /\ n[mp] = m[mp] => Eased(m, n, mp)
           /\ Eased(m, n, mp) => Touched(m, n, mp)
           /\ \A P : Eased(m, n, mp) /\ Free(m, mp, P) => Free(n, mp, P)
BY DEF Eased, Touched, Lighter, Free

\* Dropping a kind of reference, but leaked files, from a whole stack.
LEMMA UnpinnedLighter ==
    ASSUME NEW st \in Seq(Mounts), NEW P, "leak" \notin P
    PROVE  \A i \in 1..Len(st) : Lighter(st[i], Unpinned(st, P)[i])
                                   /\ Unpinned(st, P)[i].pins \cap P = {}
<1> SUFFICES ASSUME NEW i \in 1..Len(st)
             PROVE  Lighter(st[i], Unpinned(st, P)[i]) /\ Unpinned(st, P)[i].pins \cap P = {}
  OBVIOUS
<1>1. st[i] \in Mounts
  BY ElementOfSeq
<1>2. Unpinned(st, P)[i] = [st[i] EXCEPT !.pins = st[i].pins \ P]
  BY DEF Unpinned
<1> QED
  BY <1>1, <1>2 DEF Lighter, Mounts

\* flush_delayed_fput() drops exactly the closed files.
LEMMA FlushEased ==
    ASSUME NEW m \in MountMap
    PROVE  \A mp \in MountPoints : Eased(m, Flush(m), mp) /\ Free(Flush(m), mp, {"pend"})
<1> SUFFICES ASSUME NEW mp \in MountPoints
             PROVE  Eased(m, Flush(m), mp) /\ Free(Flush(m), mp, {"pend"})
  OBVIOUS
<1>1. m[mp] \in Seq(Mounts) /\ Flush(m)[mp] = Unpinned(m[mp], {"pend"})
  BY DEF MountMap, Flush
<1>2. Len(Unpinned(m[mp], {"pend"})) = Len(m[mp])
  BY <1>1, UnpinStack
<1>3. \A i \in 1..Len(m[mp]) : Lighter(m[mp][i], Unpinned(m[mp], {"pend"})[i])
                                 /\ Unpinned(m[mp], {"pend"})[i].pins \cap {"pend"} = {}
  BY <1>1, UnpinnedLighter
<1> QED
  BY <1>1, <1>2, <1>3 DEF Eased, Free

\* Ending nfsd drops the export table's reference.
LEMMA UncachedEased ==
    ASSUME NEW m \in MountMap
    PROVE  /\ \A mp \in MountPoints : Eased(m, Uncached(m), mp)
           /\ Free(Uncached(m), "export", {"cache"})
<1>0. "export" \in MountPoints
  BY DEF MountPoints
<1>1. /\ m["export"] \in Seq(Mounts) /\ Uncached(m)["export"] = Unpinned(m["export"], {"cache"})
      /\ \A q \in MountPoints \ {"export"} : Uncached(m)[q] = m[q]
  BY <1>0 DEF MountMap, Uncached
<1>2. Len(Unpinned(m["export"], {"cache"})) = Len(m["export"])
  BY <1>1, UnpinStack
<1>3. \A i \in 1..Len(m["export"]) : Lighter(m["export"][i], Unpinned(m["export"], {"cache"})[i])
                                 /\ Unpinned(m["export"], {"cache"})[i].pins \cap {"cache"} = {}
  BY <1>1, UnpinnedLighter
<1>4. Eased(m, Uncached(m), "export") /\ Free(Uncached(m), "export", {"cache"})
  BY <1>1, <1>2, <1>3 DEF Eased, Free
<1>5. \A q \in MountPoints \ {"export"} : Eased(m, Uncached(m), q)
  BY <1>1, EasedSame
<1> QED
  BY <1>4, <1>5

\* Changing the references of one mount.
LEMMA RepinOne ==
    ASSUME NEW m \in MountMap, NEW mp \in MountPoints, NEW i \in 1..Len(m[mp]), NEW P
    PROVE  /\ \A q \in MountPoints \ {mp} : Repin(m, mp, i, P)[q] = m[q]
           /\ Len(Repin(m, mp, i, P)[mp]) = Len(m[mp])
           /\ \A j \in 1..Len(m[mp]) :
                Repin(m, mp, i, P)[mp][j] = IF j = i THEN [m[mp][i] EXCEPT !.pins = P] ELSE m[mp][j]
<1>1. m[mp] \in Seq(Mounts)
  BY DEF MountMap
<1>2. Repin(m, mp, i, P)
        = [m EXCEPT ![mp] = [m[mp] EXCEPT ![i] = [m[mp][i] EXCEPT !.pins = P]]]
  BY <1>1, MountRecord DEF MountMap, Repin
<1>3. /\ Len([m[mp] EXCEPT ![i] = [m[mp][i] EXCEPT !.pins = P]]) = Len(m[mp])
      /\ \A j \in 1..Len(m[mp]) : [m[mp] EXCEPT ![i] = [m[mp][i] EXCEPT !.pins = P]][j]
           = IF j = i THEN [m[mp][i] EXCEPT !.pins = P] ELSE m[mp][j]
  BY <1>1
<1> QED
  BY <1>1, <1>2, <1>3 DEF MountMap

\* Changing the flags of the client mount leaves its references alone.
LEMMA RemountEased ==
    ASSUME NEW m \in MountMap, m["client"] # <<>>, NEW b \in BOOLEAN
    PROVE  \A mp \in MountPoints : Eased(m, Remount(m, b), mp)
<1> DEFINE st == m["client"]
           new == [st EXCEPT ![1] = [st[1] EXCEPT !.ro = b]]
<1>0. "client" \in MountPoints
  BY DEF MountPoints
<1>1. st \in Seq(Mounts) /\ 1 \in 1..Len(st)
  BY <1>0, EmptySeq DEF MountMap
<1>2. \A i \in 1..Len(st) : st[i] \in Mounts
  BY <1>0, MountRecord
<1>3. Remount(m, b) = [m EXCEPT !["client"] = new]
  BY <1>0, <1>1, <1>2 DEF MountMap, Remount
<1>4. Len(new) = Len(st) /\ \A i \in 1..Len(st) : Lighter(st[i], new[i])
  BY <1>1, <1>2 DEF Lighter, Mounts
<1>5. Remount(m, b)["client"] = new /\ \A q \in MountPoints \ {"client"} : Remount(m, b)[q] = m[q]
  BY <1>0, <1>3 DEF MountMap
<1>6. Eased(m, Remount(m, b), "client")
  BY <1>4, <1>5 DEF Eased
<1> QED
  BY <1>5, <1>6, EasedSame

\* A new mount covers the ones below it.
LEMMA PushTop ==
    ASSUME NEW m \in MountMap, NEW mp \in MountPoints, NEW s \in Suites,
           opts \in Suites \cup {NoSuite}
    PROVE  /\ Push(m, mp, s)[mp][1] = [by |-> s, opts |-> opts, ro |-> FALSE, pins |-> {}]
           /\ \A i \in 2..(Len(m[mp]) + 1) : Push(m, mp, s)[mp][i] = m[mp][i - 1]
<1> DEFINE new == [by |-> s, opts |-> opts, ro |-> FALSE, pins |-> {}]
<1>1. m[mp] \in Seq(Mounts) /\ <<new>> \in Seq({new})
  BY DEF MountMap
<1>2. Push(m, mp, s)[mp] = <<new>> \o m[mp]
  BY DEF Push, MountMap
<1>3. Len(<<new>>) = 1 /\ <<new>>[1] = new /\ Len(m[mp]) \in Nat
  BY <1>1
<1>4. (<<new>> \o m[mp])[1] = new
        /\ \A i \in 2..(Len(m[mp]) + 1) : (<<new>> \o m[mp])[i] = m[mp][i - 1]
  BY <1>1, <1>3
<1> QED
  BY <1>2, <1>4

\* Unmounting uncovers the mount below.
LEMMA PopRest ==
    ASSUME NEW m \in MountMap, NEW mp \in MountPoints, m[mp] # <<>>
    PROVE  \A i \in 1..(Len(m[mp]) - 1) : Pop(m, mp)[mp][i] = m[mp][i + 1]
<1>1. m[mp] \in Seq(Mounts) /\ Pop(m, mp)[mp] = Tail(m[mp])
  BY DEF MountMap, Pop
<1> QED
  BY <1>1, HeadTailProperties

\* What an attempt to unmount mp does to the other mounts.
LEMMA SettleEased ==
    ASSUME TypeOK, NEW s \in Suites, NEW mp \in MountPoints
    PROVE  /\ SettleAgain(s, mp) =>
                \A q \in MountPoints : Eased(mounts, mounts', q) /\ Free(mounts', q, {"pend"})
           /\ Settled(s, mp) =>
                \A q \in MountPoints \ {mp} :
                  Eased(mounts, mounts', q) /\ (tries[s] = MaxTries \/ Free(mounts', q, {"pend"}))
<1>1. mounts \in MountMap
  BY DEF TypeOK, MountMap
<1>2. /\ Flush(mounts) \in MountMap
      /\ \A q \in MountPoints : Eased(mounts, Flush(mounts), q) /\ Free(Flush(mounts), q, {"pend"})
  BY <1>1, FlushMap, FlushEased
<1>3. SettleAgain(s, mp) => mounts' = Flush(mounts)
  BY DEF SettleAgain, BeforeAttempt
<1>4. Settled(s, mp) => \/ mounts' = Pop(Flush(mounts), mp)
                        \/ tries[s] = MaxTries /\ mounts' = Pop(mounts, mp)
  BY DEF Settled, BeforeAttempt
<1>5. \A q \in MountPoints \ {mp} : /\ Pop(Flush(mounts), mp)[q] = Flush(mounts)[q]
                                    /\ Pop(mounts, mp)[q] = mounts[q]
  BY <1>1, <1>2, PopMap
<1>6. ASSUME NEW q \in MountPoints \ {mp}
      PROVE  /\ Eased(mounts, Pop(Flush(mounts), mp), q) /\ Free(Pop(Flush(mounts), mp), q, {"pend"})
             /\ Eased(mounts, Pop(mounts, mp), q)
  <2>1. Eased(mounts, Flush(mounts), q) /\ Free(Flush(mounts), q, {"pend"})
    BY <1>2
  <2> QED
    BY <1>5, <2>1, EasedSame DEF Eased, Free
<1> QED
  BY <1>2, <1>3, <1>4, <1>6

\* The kernel's own progress only drops references.
LEMMA AsyncEased ==
    ASSUME TypeOK, Async
    PROVE  \A q \in MountPoints : Eased(mounts, mounts', q)
<1>1. mounts \in MountMap
  BY DEF TypeOK, MountMap
<1>2. CASE DelayedFput
  BY <1>1, <1>2, FlushEased DEF DelayedFput
<1>3. ASSUME NEW mp \in MountPoints, NEW i \in 1..Len(mounts[mp]), LateDone(mp, i)
      PROVE  \A q \in MountPoints : Eased(mounts, mounts', q)
  <2>0. PICK P : P = mounts[mp][i].pins \ {"late"}
    OBVIOUS
  <2>1. mounts' = Repin(mounts, mp, i, P)
    BY <1>3, <2>0 DEF LateDone
  <2>2. /\ \A q \in MountPoints \ {mp} : mounts'[q] = mounts[q]
        /\ Len(mounts'[mp]) = Len(mounts[mp])
        /\ \A j \in 1..Len(mounts[mp]) :
             mounts'[mp][j] = IF j = i THEN [mounts[mp][i] EXCEPT !.pins = P] ELSE mounts[mp][j]
    BY <1>1, <2>1, RepinOne
  <2>3. \A j \in 1..Len(mounts[mp]) : mounts[mp][j] \in Mounts
    BY <1>1, MountRecord
  <2>4. Eased(mounts, mounts', mp)
    BY <2>0, <2>2, <2>3 DEF Eased, Lighter, Mounts
  <2>5. \A q \in MountPoints \ {mp} : Eased(mounts, mounts', q)
    BY <2>2, EasedSame
  <2> QED
    BY <2>4, <2>5
<1> QED
  BY <1>2, <1>3 DEF Async

\* What the cases do to the mounts of the deployment.
LEMMA CaseTouched ==
    ASSUME IInv, NEW s \in Suites,
           Case(s) \/ CaseLoop(s) \/ SuiteExit(s)
    PROVE  \A q \in Deployed : Touched(mounts, mounts', q)
<1> USE DEF locals, kernel
<1>0. TypeOK /\ mounts \in MountMap /\ opts \in Suites \cup {NoSuite}
  BY DEF IInv, TypeOK, MountMap
<1>m. /\ Deployed \subseteq MountPoints
      /\ {"client", "scratch", "hostbin"} \subseteq MountPoints
      /\ "scratch" \notin Deployed /\ "hostbin" \notin Deployed
  BY DEF Deployed, MountPoints
<1>u. ASSUME \A q \in Deployed : mounts'[q] = mounts[q]
      PROVE  \A q \in Deployed : Touched(mounts, mounts', q)
  BY <1>u, EasedSame
<1>e. ASSUME \A q \in Deployed : Eased(mounts, mounts', q)
      PROVE  \A q \in Deployed : Touched(mounts, mounts', q)
  BY <1>e, EasedSame
<1>f. /\ Flush(mounts) \in MountMap
      /\ \A q \in MountPoints : Eased(mounts, Flush(mounts), q)
  BY <1>0, FlushMap, FlushEased
<1>c. ASSUME pc[s] \in CaseLabels, NEW b \in BOOLEAN
      PROVE  \A q \in MountPoints : Eased(mounts, Remount(Flush(mounts), b), q)
  <2>1. mounts["client"] # <<>>
    BY <1>c DEF IInv, MountedWhileHeld, Holders
  <2>2. Flush(mounts)["client"] # <<>>
    BY <1>0, <1>f, <1>m, <2>1, EmptyStack DEF Eased
  <2>3. \A q \in MountPoints : Eased(Flush(mounts), Remount(Flush(mounts), b), q)
    BY <1>f, <2>2, RemountEased
  <2> QED
    BY <1>f, <2>3, EasedTwice
<1>1. ASSUME NEW mp \in MountPoints, NEW pin \in PinKinds, CaseTouch(s, mp, pin)
      PROVE  \A q \in Deployed : Touched(mounts, mounts', q)
  <2>0. PICK P : P = mounts[mp][1].pins \cup {pin}
    OBVIOUS
  <2>1. 1 \in 1..Len(mounts[mp])
    BY <1>0, <1>1, EmptyStack DEF CaseTouch
  <2>2. mounts' = Repin(mounts, mp, 1, P) /\ pin \in Left(mp)
    <3>1. pin \in {"pend", "late", "leak"}
      BY <1>1, FixtureAssumption DEF CaseTouch
    <3> QED
      BY <1>1, <2>0, <3>1 DEF CaseTouch, Left
  <2>3. /\ \A q \in MountPoints \ {mp} : mounts'[q] = mounts[q]
        /\ Len(mounts'[mp]) = Len(mounts[mp])
        /\ \A j \in 1..Len(mounts[mp]) :
             mounts'[mp][j] = IF j = 1 THEN [mounts[mp][1] EXCEPT !.pins = P] ELSE mounts[mp][j]
    BY <1>0, <2>1, <2>2, RepinOne
  <2>4. \A j \in 1..Len(mounts[mp]) : mounts[mp][j] \in Mounts
    BY <1>0, MountRecord
  <2>5. Touched(mounts, mounts', mp)
    <3> SUFFICES ASSUME NEW j \in 1..Len(mounts[mp])
                 PROVE  /\ mounts'[mp][j].by = mounts[mp][j].by /\ mounts'[mp][j].opts = mounts[mp][j].opts
                        /\ mounts'[mp][j].pins \subseteq mounts[mp][j].pins \cup Left(mp)
                        /\ "leak" \in mounts[mp][j].pins => "leak" \in mounts'[mp][j].pins
      BY <2>3 DEF Touched
    <3>1. mounts[mp][j] \in Mounts
      BY <2>4
    <3>2. CASE j = 1
      <4>1. mounts'[mp][j] = [mounts[mp][j] EXCEPT !.pins = P]
        BY <2>3, <3>2
      <4>2. /\ [mounts[mp][j] EXCEPT !.pins = P].by = mounts[mp][j].by
            /\ [mounts[mp][j] EXCEPT !.pins = P].opts = mounts[mp][j].opts
            /\ [mounts[mp][j] EXCEPT !.pins = P].pins = P
        BY <3>1 DEF Mounts
      <4>3. P = mounts[mp][j].pins \cup {pin}
        BY <2>0, <3>2
      <4> QED
        BY <2>2, <4>1, <4>2, <4>3
    <3>3. CASE j # 1
      BY <2>3, <3>3
    <3> QED
      BY <3>2, <3>3
  <2>6. \A q \in MountPoints \ {mp} : Touched(mounts, mounts', q)
    BY <2>3, EasedSame
  <2> QED
    BY <1>m, <2>5, <2>6
<1>2. CASE ScratchMount(s) \/ HostbinMount(s)
  <2>1. PICK mp \in {"scratch", "hostbin"} : mounts' = mounts \/ mounts' = Push(mounts, mp, s)
    BY <1>2 DEF ScratchMount, HostbinMount
  <2>2. mp \in MountPoints /\ mp \notin Deployed
    BY <1>m
  <2>3. \A q \in MountPoints \ {mp} : Push(mounts, mp, s)[q] = mounts[q]
    BY <1>0, <2>2, PushMap
  <2> QED
    BY <1>m, <1>u, <2>1, <2>2, <2>3
<1>3. CASE RemountRW(s)
  BY <1>3, <1>c, <1>e, <1>m DEF RemountRW, CaseLabels
<1>4. CASE RemountRO(s)
  <2>1. mounts' = Flush(mounts) \/ mounts' = Remount(Flush(mounts), TRUE)
    BY <1>4 DEF RemountRO
  <2>2. pc[s] \in CaseLabels
    BY <1>4 DEF RemountRO, CaseLabels
  <2>3. \A q \in MountPoints : Eased(mounts, Remount(Flush(mounts), TRUE), q)
    BY <1>c, <2>2
  <2> QED
    BY <1>e, <1>f, <1>m, <2>1, <2>3
<1>5. CASE SuiteExit(s) \/ \E l \in CaseLabels : CaseCall(s, l)
  BY <1>5, <1>u DEF SuiteExit, CaseCall
<1>6. CASE ScratchUmount(s)
  <2>1. \A q \in MountPoints \ {"scratch"} : Eased(mounts, mounts', q)
    BY <1>0, <1>6, <1>m, SettleEased DEF ScratchUmount, ScratchSweep
  <2> QED
    BY <1>e, <1>m, <2>1
<1> QED
  BY <1>1, <1>2, <1>3, <1>4, <1>5, <1>6 DEF Case, CaseLoop

-----------------------------------------------------------------------------
(***************************************************************************)
(* Suites one after another: at most one is under way, and every mount it  *)
(* uses is one its own bring-up made, with the options it asked for.       *)
(***************************************************************************)
Rest == {"idle", "done", "failed"}
Using == CaseLabels \cup {"put"}

Alone == \A s, t \in Suites : s # t /\ pc[s] \notin Rest => pc[t] \in Rest

\* The export options of a suite's deployment.
Wanted(s) == IF s \in CustomOpts THEN s ELSE NoSuite

Own(s, mp) == mounts[mp] # <<>> /\ mounts[mp][1].by = s

FreshAt(s) ==
    /\ pc[s] \notin Rest => opts = Wanted(s)
    /\ pc[s] \in {"nfsdfs", "exports", "nfsd", "client", "root"} \cup Using =>
         Own(s, "export") /\ mounts["export"][1].opts = Wanted(s)
    /\ pc[s] \in {"exports", "nfsd", "client", "root"} \cup Using => Own(s, "nfsdfs")
    /\ pc[s] \in {"root"} \cup Using => Own(s, "client")

FreshInv == /\ Alone
            /\ Quiet => opts = NoSuite
            /\ \A s \in Suites : FreshAt(s)

\* The labels at rest are none of the ones a suite under way can have.
LEMMA Labelling ==
    /\ \A l \in Using \cup Critical \cup {"get"} : l \notin Rest
    /\ Using \cap Critical = {} /\ "get" \notin Using
BY DEF Rest, Using, CaseLabels, Critical, BringupLabels, TeardownLabels

\* A step of the suite under way leaves the others at rest.
LEMMA AloneStep ==
    ASSUME Alone, NEW s \in Suites, NEW l, pc \in [Suites -> Labels], Goto(s, l),
           pc[s] \notin Rest \/ \A t \in Suites \ {s} : pc[t] \in Rest
    PROVE  /\ Alone' /\ pc'[s] = l
           /\ \A t \in Suites \ {s} : pc'[t] = pc[t] /\ pc[t] \in Rest
           /\ l \notin Rest => ~Quiet'
<1>1. \A t \in Suites \ {s} : pc[t] \in Rest
  BY DEF Alone
<1>2. pc'[s] = l /\ \A t \in Suites \ {s} : pc'[t] = pc[t]
  BY DEF Goto
<1>3. Alone'
  BY <1>1, <1>2 DEF Alone
<1> QED
  BY <1>1, <1>2, <1>3 DEF Quiet, Rest

\* So only its own knowledge has to be shown.
LEMMA FreshFrame ==
    ASSUME FreshInv, NEW s \in Suites, NEW l, pc \in [Suites -> Labels], Goto(s, l),
           pc[s] \notin Rest \/ \A t \in Suites \ {s} : pc[t] \in Rest,
           l \notin Rest, FreshAt(s)'
    PROVE  FreshInv'
<1>1. /\ Alone' /\ ~Quiet'
      /\ \A t \in Suites \ {s} : pc'[t] = pc[t] /\ pc[t] \in Rest
  BY AloneStep DEF FreshInv
<1>2. \A t \in Suites \ {s} : FreshAt(t)'
  BY <1>1 DEF FreshAt, Rest, Using, CaseLabels
<1> QED
  BY <1>1, <1>2 DEF FreshInv

\* A suite keeps what it owns while the mounts are only used.
LEMMA OwnKept ==
    ASSUME TypeOK, mounts' \in MountMap, NEW s \in Suites, NEW mp \in MountPoints,
           Touched(mounts, mounts', mp)
    PROVE  /\ Own(s, mp) => Own(s, mp)'
           /\ mounts[mp] # <<>> => mounts'[mp][1].opts = mounts[mp][1].opts
<1>1. mounts \in MountMap /\ Len(mounts'[mp]) = Len(mounts[mp])
  BY DEF TypeOK, MountMap, Touched
<1>2. Len(mounts[mp]) \in Nat /\ (mounts[mp] = <<>> <=> Len(mounts[mp]) = 0)
        /\ (mounts'[mp] = <<>> <=> Len(mounts'[mp]) = 0)
  BY <1>1, EmptyStack
<1>3. mounts[mp] # <<>> => 1 \in 1..Len(mounts[mp])
  BY <1>2
<1> QED
  BY <1>1, <1>2, <1>3 DEF Own, Touched

\* Suites that run one after another never share a deployment: get always
\* starts one and put always ends it.
LEMMA NeverShared ==
    ASSUME IInv, Alone, NEW s \in Suites
    PROVE  /\ pc[s] = "get" => refs = 0
           /\ pc[s] = "put" => refs = 1
<1>1. pc[s] \in {"get", "put"} => \A t \in Suites \ {s} : pc[t] \in Rest
  BY DEF Alone, Rest
<1>2. pc[s] = "get" => Holders = {}
  BY <1>1 DEF Holders, Rest, CaseLabels
<1>3. pc[s] = "put" => Holders = {s}
  BY <1>1 DEF Holders, Rest, CaseLabels
<1>4. Cardinality({s}) = 1
  BY FS_Singleton
<1>5. refs = Cardinality(Holders)
  BY DEF IInv, CountInv, RefsCountHolders
<1> QED
  BY <1>2, <1>3, <1>4, <1>5, FS_EmptySet

\* The freshness of a deployment is kept by every step.
LEMMA FreshStep ==
    ASSUME IInv, FreshInv, ~Overlap, [Next]_vars
    PROVE  FreshInv'
<1> USE DEF locals, kernel
<1>0. /\ TypeOK /\ pc \in [Suites -> Labels] /\ mounts \in MountMap
      /\ opts \in Suites \cup {NoSuite} /\ Alone
  BY DEF IInv, TypeOK, MountMap, FreshInv
<1>m. Deployed \subseteq MountPoints /\ {"export", "nfsdfs", "client"} = Deployed
  BY DEF Deployed, MountPoints
<1>k. ASSUME UNCHANGED opts, mounts' \in MountMap, \A q \in Deployed : Touched(mounts, mounts', q),
             NEW s \in Suites, pc'[s] = pc[s] \/ (pc[s] \in Using /\ pc'[s] \in Using)
      PROVE  FreshAt(s)'
  <2>1. \A q \in Deployed : Own(s, q) => Own(s, q)'
    BY <1>0, <1>k, <1>m, OwnKept
  <2>2. Own(s, "export") => mounts'["export"][1].opts = mounts["export"][1].opts
    BY <1>0, <1>k, <1>m, OwnKept DEF Own
  <2>3. FreshAt(s)
    BY DEF FreshInv
  <2>4. pc'[s] \in Using => pc[s] \in Using
    BY <1>k
  <2>5. pc'[s] \notin Rest => pc[s] \notin Rest
    BY <1>k, Labelling
  <2>6. pc'[s] \notin Using => pc'[s] = pc[s]
    BY <1>k
  <2> QED
    BY <1>k, <1>m, <2>1, <2>2, <2>3, <2>4, <2>5, <2>6 DEF FreshAt
<1>g. ASSUME NEW s \in Suites, NEW l \in BringupLabels \cup TeardownLabels, Goto(s, l), UNCHANGED opts,
             pc[s] \notin Rest, l \notin {"nfsdfs", "exports", "nfsd", "client", "root"}
      PROVE  FreshInv'
  <2>1. l \notin Rest /\ l \notin Using
    BY Labelling DEF Critical
  <2>2. pc'[s] = l
    BY <1>0, <1>g DEF Goto
  <2>3. opts = Wanted(s)
    BY <1>g DEF FreshInv, FreshAt
  <2>4. FreshAt(s)'
    BY <1>g, <2>1, <2>2, <2>3 DEF FreshAt, Wanted
  <2> QED
    BY <1>0, <1>g, <2>1, <2>4, FreshFrame
<1>1. CASE UNCHANGED vars
  <2>1. UNCHANGED <<pc, opts, mounts>>
    BY <1>1 DEF vars
  <2> QED
    BY <2>1 DEF FreshInv, Alone, Quiet, FreshAt, Own
<1>2. ASSUME NEW s \in Suites, Case(s) \/ CaseLoop(s) \/ SuiteExit(s)
      PROVE  FreshInv'
  <2>1. /\ UNCHANGED opts
        /\ pc[s] \in CaseLabels
        /\ UNCHANGED pc \/ \E l \in Using : Goto(s, l)
    BY <1>2 DEF Case, CaseTouch, ScratchMount, HostbinMount, RemountRW, CaseCall, CaseLoop,
           ScratchUmount, ScratchSweep, RemountRO, SuiteExit, CaseLabels, Using
  <2>2. PICK l \in Using : Goto(s, l)
    <3>1. CASE UNCHANGED pc
      <4>1. Goto(s, pc[s]) /\ pc[s] \in Using
        BY <1>0, <2>1, <3>1 DEF Goto, Using
      <4> QED
        BY <4>1
    <3> QED
      BY <2>1, <3>1
  <2>3. mounts' \in MountMap /\ \A q \in Deployed : Touched(mounts, mounts', q)
    BY <1>2, CaseTouched, CaseMounts
  <2>4. pc[s] \in Using /\ pc'[s] \in Using
    BY <1>0, <2>1, <2>2 DEF Goto, Using
  <2>5. FreshAt(s)'
    BY <1>k, <2>1, <2>3, <2>4
  <2> QED
    BY <1>0, <2>2, <2>4, <2>5, FreshFrame, Labelling
<1>3. CASE Async
  <2>1. UNCHANGED <<pc, opts>>
    BY <1>3 DEF Async, DelayedFput, LateDone
  <2>2. PICK s \in Suites : TRUE
    BY FixtureAssumption
  <2>3. mounts' \in MountMap
    BY <1>3, CaseMounts
  <2>4. \A q \in Deployed : Touched(mounts, mounts', q)
    BY <1>0, <1>3, <1>m, AsyncEased, EasedSame
  <2>5. \A t \in Suites : FreshAt(t)'
    BY <1>k, <2>1, <2>3, <2>4
  <2> QED
    BY <2>1, <2>5 DEF FreshInv, Alone, Quiet
<1>4. ASSUME NEW s \in Suites, SuiteInit(s)
      PROVE  FreshInv'
  <2>1. pc[s] = "idle" /\ \A t \in Suites \ {s} : pc[t] \in Rest
    BY <1>4 DEF SuiteInit, Rest
  <2>2. opts = NoSuite
    BY <2>1 DEF FreshInv, Quiet, Rest
  <2>3. Goto(s, "get") /\ opts' = Wanted(s)
    BY <1>4, <2>2 DEF SuiteInit, Wanted
  <2>4. pc'[s] = "get"
    BY <1>0, <2>3 DEF Goto
  <2>5. "get" \notin Rest /\ "get" \notin Using
    BY Labelling
  <2>6. FreshAt(s)'
    BY <2>3, <2>4, <2>5 DEF FreshAt, Wanted
  <2> QED
    BY <1>0, <2>1, <2>3, <2>5, <2>6, FreshFrame
<1>5. ASSUME NEW s \in Suites, Get(s), ~SuiteInit(s)
      PROVE  FreshInv'
  <2>r. pc[s] \in BringupLabels \cup {"get"} /\ pc[s] \notin Rest /\ FreshAt(s) /\ opts = Wanted(s)
    <3>1. pc[s] \in BringupLabels \cup {"get"}
      BY <1>5 DEF Get, GetJoin, GetFirst, LoopbackUp, MakeDirs, MountTmpfs, MountNfsdfs, MountStep,
                  ConfigureExports, StartNfsd, MountClient, CaptureRoot, BringupLabels
    <3>2. pc[s] \notin Rest
      BY <3>1, Labelling DEF Critical
    <3> QED
      BY <3>1, <3>2 DEF FreshInv, FreshAt
  <2>p. ASSUME NEW l, Goto(s, l)
        PROVE  pc'[s] = l
    BY <1>0, <2>p DEF Goto
  <2>q. ASSUME NEW mp \in MountPoints, mounts' = Push(mounts, mp, s)
        PROVE  /\ mounts'[mp] # <<>>
               /\ mounts'[mp][1].by = s /\ mounts'[mp][1].opts = opts
               /\ \A q \in MountPoints \ {mp} : mounts'[q] = mounts[q]
    <3>1. /\ Push(mounts, mp, s) \in MountMap
          /\ \A q \in MountPoints \ {mp} : Push(mounts, mp, s)[q] = mounts[q]
          /\ Len(Push(mounts, mp, s)[mp]) = Len(mounts[mp]) + 1
      BY <1>0, PushMap
    <3>2. Push(mounts, mp, s)[mp][1] = [by |-> s, opts |-> opts, ro |-> FALSE, pins |-> {}]
      BY <1>0, PushTop
    <3>3. Push(mounts, mp, s)[mp] # <<>>
      BY <1>0, <3>1, EmptyStack
    <3> QED
      BY <2>q, <3>1, <3>2, <3>3
  <2>1. CASE GetJoin(s)
    BY <1>0, <2>1, NeverShared DEF GetJoin
  <2>2. CASE GetFirst(s) \/ LoopbackUp(s) \/ MakeDirs(s)
    <3>1. UNCHANGED opts /\ \E l \in {"lo", "mkdirs", "tmpfs", "td_hostbin"} : Goto(s, l)
      BY <2>2 DEF GetFirst, LoopbackUp, MakeDirs, GiveUp
    <3> QED
      BY <1>g, <2>r, <3>1 DEF BringupLabels, TeardownLabels
  <2>3. ASSUME Goto(s, "td_hostbin"), UNCHANGED opts
        PROVE  FreshInv'
    BY <1>g, <2>3, <2>r DEF TeardownLabels
  <2>4. CASE MountTmpfs(s)
    <3>1. CASE mounts' = Push(mounts, "export", s) /\ Goto(s, "nfsdfs") /\ UNCHANGED opts
      <4>1. "nfsdfs" \notin Rest \cup Using
        BY DEF Rest, Using, CaseLabels
      <4>2. FreshAt(s)'
        BY <1>m, <2>p, <2>q, <2>r, <3>1, <4>1 DEF FreshAt, Own, Wanted
      <4> QED
        BY <1>0, <2>r, <3>1, <4>1, <4>2, FreshFrame
    <3> QED
      BY <2>3, <2>4, <3>1 DEF MountTmpfs, MountStep, GiveUp
  <2>5. CASE MountNfsdfs(s)
    <3>1. CASE /\ mounts' = Push(mounts, "nfsdfs", s) /\ Goto(s, "exports") /\ UNCHANGED opts
               /\ pc[s] = "nfsdfs"
      <4>1. "exports" \notin Rest \cup Using
        BY DEF Rest, Using, CaseLabels
      <4>2. FreshAt(s)'
        BY <1>m, <2>p, <2>q, <2>r, <3>1, <4>1 DEF FreshAt, Own, Wanted
      <4> QED
        BY <1>0, <2>r, <3>1, <4>1, <4>2, FreshFrame
    <3> QED
      BY <2>3, <2>5, <3>1 DEF MountNfsdfs, MountStep, GiveUp
  <2>6. CASE ConfigureExports(s)
    <3>1. CASE Feed(3) /\ Goto(s, "nfsd") /\ UNCHANGED opts /\ pc[s] = "exports"
      <4>1. "nfsd" \notin Rest \cup Using
        BY DEF Rest, Using, CaseLabels
      <4>0. PICK P : P = mounts["export"][1].pins \cup {"cache"}
        OBVIOUS
      <4>2. mounts' = Repin(mounts, "export", 1, P) \/ mounts' = mounts
        BY <3>1, <4>0 DEF Feed
      <4>3. 1 \in 1..Len(mounts["export"]) /\ mounts["export"] # <<>>
        <5>1. mounts["export"] # <<>>
          BY <2>r, <3>1 DEF FreshAt, Own
        <5> QED
          BY <1>0, <1>m, <5>1, EmptyStack
      <4>4. mounts["export"][1] \in Mounts
        BY <1>0, <1>m, <4>3, MountRecord
      <4>5. /\ \A q \in MountPoints \ {"export"} : Repin(mounts, "export", 1, P)[q] = mounts[q]
            /\ Len(Repin(mounts, "export", 1, P)["export"]) = Len(mounts["export"])
            /\ Repin(mounts, "export", 1, P)["export"][1] = [mounts["export"][1] EXCEPT !.pins = P]
        BY <1>0, <1>m, <4>3, RepinOne
      <4>6. /\ [mounts["export"][1] EXCEPT !.pins = P].by = mounts["export"][1].by
            /\ [mounts["export"][1] EXCEPT !.pins = P].opts = mounts["export"][1].opts
        BY <4>4 DEF Mounts
      <4>7. mounts'["export"] # <<>>
        <5>1. Len(mounts'["export"]) # 0
          BY <1>0, <1>m, <4>2, <4>3, <4>5
        <5> QED
          BY <5>1, EmptySeq
      <4>8. /\ mounts'["export"][1].by = mounts["export"][1].by
            /\ mounts'["export"][1].opts = mounts["export"][1].opts
            /\ mounts'["nfsdfs"] = mounts["nfsdfs"]
        BY <1>m, <4>2, <4>5, <4>6
      <4>9. FreshAt(s)'
        BY <2>p, <2>r, <3>1, <4>1, <4>7, <4>8 DEF FreshAt, Own, Wanted
      <4> QED
        BY <1>0, <2>r, <3>1, <4>1, <4>9, FreshFrame
    <3> QED
      BY <2>3, <2>6, <3>1 DEF ConfigureExports, GiveUp
  <2>7. CASE StartNfsd(s)
    <3>1. CASE Goto(s, "client") /\ UNCHANGED <<mounts, opts>> /\ pc[s] = "nfsd"
      <4>1. "client" \notin Rest \cup Using
        BY DEF Rest, Using, CaseLabels
      <4>2. FreshAt(s)'
        BY <2>p, <2>r, <3>1, <4>1 DEF FreshAt, Own, Wanted
      <4> QED
        BY <1>0, <2>r, <3>1, <4>1, <4>2, FreshFrame
    <3> QED
      BY <2>3, <2>7, <3>1 DEF StartNfsd, GiveUp
  <2>8. CASE MountClient(s)
    <3>1. CASE /\ mounts' = Push(mounts, "client", s) /\ Goto(s, "root") /\ UNCHANGED opts
               /\ pc[s] = "client"
      <4>1. "root" \notin Rest \cup Using
        BY DEF Rest, Using, CaseLabels
      <4>2. FreshAt(s)'
        BY <1>m, <2>p, <2>q, <2>r, <3>1, <4>1 DEF FreshAt, Own, Wanted
      <4> QED
        BY <1>0, <2>r, <3>1, <4>1, <4>2, FreshFrame
    <3> QED
      BY <2>3, <2>8, <3>1 DEF MountClient, MountStep, GiveUp
  <2>9. CASE CaptureRoot(s)
    <3>1. Goto(s, "cases") /\ UNCHANGED <<mounts, opts>> /\ pc[s] = "root"
      BY <2>9 DEF CaptureRoot
    <3>2. "cases" \notin Rest
      BY DEF Rest
    <3>3. FreshAt(s)'
      BY <2>p, <2>r, <3>1 DEF FreshAt, Own, Wanted
    <3> QED
      BY <1>0, <2>r, <3>1, <3>2, <3>3, FreshFrame
  <2> QED
    BY <1>5, <2>1, <2>2, <2>4, <2>5, <2>6, <2>7, <2>8, <2>9 DEF Get
<1>6. ASSUME NEW s \in Suites, Put(s)
      PROVE  FreshInv'
  <2>1. pc[s] = "put" /\ Goto(s, "td_hostbin") /\ UNCHANGED opts
    BY <1>0, <1>6, NeverShared DEF Put
  <2>2. pc[s] \notin Rest
    BY <2>1 DEF Rest
  <2> QED
    BY <1>g, <2>1, <2>2 DEF TeardownLabels
<1>7. ASSUME NEW s \in Suites, Teardown(s)
      PROVE  FreshInv'
  <2>1. pc[s] \in TeardownLabels /\ pc[s] \notin Rest
    <3>1. pc[s] \in TeardownLabels
      BY <1>7 DEF Teardown, TdHostbin, TdScratch, TdClient, TdNfsd, TdNfsdfs, TdTmpfs,
                  PlainUmount, TdEnd, TeardownLabels
    <3> QED
      BY <3>1, Labelling DEF Critical
  <2>2. CASE TdEnd(s)
    <3>1. PICK l \in {"done", "failed"} : Goto(s, l)
      BY <2>2 DEF TdEnd
    <3>2. /\ Alone' /\ pc'[s] = l
          /\ \A t \in Suites \ {s} : pc'[t] = pc[t] /\ pc[t] \in Rest
      BY <1>0, <2>1, <3>1, AloneStep
    <3>3. opts' = NoSuite
      BY <2>2 DEF TdEnd, OptsAfterTeardown
    <3>4. \A t \in Suites : FreshAt(t)'
      BY <3>2 DEF FreshAt, Rest, Using, CaseLabels
    <3> QED
      BY <3>2, <3>3, <3>4 DEF FreshInv
  <2>3. CASE ~TdEnd(s)
    <3>1. UNCHANGED opts
      BY <1>7, <2>3 DEF Teardown, TdHostbin, TdScratch, TdClient, TdNfsd, TdNfsdfs, TdTmpfs, PlainUmount
    <3>2. UNCHANGED pc \/ \E l \in TeardownLabels : Goto(s, l)
      BY <1>7, <2>3 DEF Teardown, TdHostbin, TdScratch, ScratchSweep, TdClient, TdNfsd, TdNfsdfs,
                        TdTmpfs, PlainUmount, TeardownNext, TeardownLabels
    <3>3. UNCHANGED pc => Goto(s, pc[s])
      BY <1>0 DEF Goto
    <3>4. PICK l \in TeardownLabels : Goto(s, l)
      BY <2>1, <3>2, <3>3
    <3>5. l \notin {"nfsdfs", "exports", "nfsd", "client", "root"}
      BY DEF TeardownLabels
    <3> QED
      BY <1>g, <2>1, <3>1, <3>4, <3>5
  <2> QED
    BY <2>2, <2>3
<1>8. CASE Finished
  BY <1>1, <1>8 DEF Finished
<1> QED
  BY <1>1, <1>2, <1>3, <1>4, <1>5, <1>6, <1>7, <1>8 DEF Next

\* One suite at a time, each with mounts of its own.
THEOREM FreshInvariance == ~Overlap => (Spec => []FreshInv)
<1> SUFFICES ASSUME ~Overlap PROVE Spec => []FreshInv
  OBVIOUS
<1>1. Init => FreshInv
  BY DEF Init, FreshInv, Alone, FreshAt, Rest, Using, CaseLabels
<1>2. IInv /\ FreshInv /\ [Next]_vars => FreshInv'
  BY FreshStep
<1> QED
  BY <1>1, <1>2, Invariance, PTL DEF Spec

\* With suites run one after another, every suite works on mounts its own
\* bring-up made, on an export with the options it asked for, whatever steps
\* fail and whatever earlier suites leaked: xfstests_nfs_get() deploys anew
\* and xfs_teardown() resets the export options.
THEOREM AlwaysFresh == ~Overlap => (Spec => []FreshDeployment)
<1> SUFFICES ASSUME ~Overlap PROVE Spec => []FreshDeployment
  OBVIOUS
<1>1. FreshInv => FreshDeployment
  BY DEF FreshInv, FreshAt, FreshDeployment, Holders, Own, Using, Wanted
<1> QED
  BY <1>1, FreshInvariance, PTL

-----------------------------------------------------------------------------
(***************************************************************************)
(* What a suite leaves behind.                                             *)
(***************************************************************************)

\* Bring-up steps that do not fail by themselves.  The three whose failure
\* xfs_teardown() does not undo are "exports", "nfsd" and "hostbin".
Reliable(steps) == FailAt \cap steps = {}

\* The flags that xfs_teardown() goes by know what is there, up to a directory
\* for the programs, and a service with the UDP listener, that a failing step
\* left.  nfsd's control filesystem is never busy.
Tracked ==
    /\ Len(mounts["nfsdfs"]) = IF env["nfsdfs"] THEN 1 ELSE 0
    /\ Free(mounts, "nfsdfs", PinKinds)
    /\ Len(mounts["client"]) = IF env["client"] THEN 1 ELSE 0
    /\ Len(mounts["hostbin"]) = IF hostbin THEN 1 ELSE 0
    /\ hostbin => "hostbin" \in dirs
    /\ Reliable({"hostbin"}) => ("hostbin" \in dirs => hostbin)
    /\ env["nfsd"] \/ (~nfsd.threads /\ nfsd.socks \subseteq {"udp"})
    /\ Reliable({"nfsd"}) => env["nfsd"] \/ nfsd = NfsdDown

\* A mount has its directory.
Covered == \A mp \in MountPoints : mounts[mp] # <<>> => mp \in dirs

\* An export that is not the deployment's own is one that a leaked file pins,
\* or the export table a failing step left.
Leaked == \A i \in 1..Len(mounts["export"]) :
    i > 1 \/ ~env["tmpfs"] => "leak" \in mounts["export"][i].pins
Exported ==
    /\ Free(mounts, "export", {"late"})
    /\ cache = {} => Free(mounts, "export", {"cache"})
    /\ Reliable({"exports", "nfsd"}) => Leaked

Known == Tracked /\ Covered /\ Exported

\* The order in which teardown, or a bring-up that has not come so far, is
\* without them.
Clear(l) ==
    /\ l \notin Using \cup {"td_hostbin"} => ~hostbin
    /\ l \notin Using \cup {"td_hostbin", "td_scratch"} => "scratch" \notin dirs
    /\ l \notin Using \cup {"root", "td_hostbin", "td_scratch", "td_client"} => ~env["client"]
    /\ l \notin Using \cup {"client", "root", "td_hostbin", "td_scratch", "td_client", "td_nfsd"} =>
         ~env["nfsd"]
    /\ Reliable({"exports", "nfsd"}) => (cache # {} => l = "nfsd" \/ env["nfsd"])
    /\ l \in Rest \cup {"get", "lo", "mkdirs", "tmpfs", "nfsdfs", "td_tmpfs", "td_end"} => ~env["nfsdfs"]
    /\ l \in Rest \cup {"get", "lo", "mkdirs", "tmpfs", "td_end"} => ~env["tmpfs"]
    /\ l \notin Using \cup TeardownLabels => root = NoSuite
    /\ l \in Rest => \A mp \in dirs :
         mounts[mp] # <<>> \/ (mp = "hostbin" /\ ~Reliable({"hostbin"}))

\* Where a suite is past the last delayed fput of its cases.
Flushed(s) ==
    \/ pc[s] \in {"td_client", "td_nfsd", "td_nfsdfs", "td_tmpfs"}
    \/ pc[s] = "td_scratch" /\ tries[s] # 0

\* Where a settling loop may be under way.
Retrying(s) ==
    \/ pc[s] \in {"c_ro", "c_scratch", "td_scratch"}
    \/ pc[s] = "td_hostbin" /\ hostbin
    \/ pc[s] = "td_client" /\ env["client"]

CleanAt(s) ==
    /\ pc[s] \notin Rest => Clear(pc[s])
    /\ Flushed(s) => Free(mounts, "export", {"pend"})
    /\ tries[s] # 0 => Retrying(s)

CleanInv == /\ Known
            /\ Quiet => Clear("done")
            /\ \A s \in Suites : CleanAt(s)

\* Only the suite under way has anything to show.
LEMMA CleanFrame ==
    ASSUME CleanInv, Alone, NEW s \in Suites, NEW l, pc \in [Suites -> Labels], Goto(s, l),
           pc[s] \notin Rest \/ \A t \in Suites \ {s} : pc[t] \in Rest,
           \A t \in Suites \ {s} : tries'[t] = tries[t],
           l \notin Rest, Known', CleanAt(s)'
    PROVE  CleanInv'
<1>1. /\ ~Quiet'
      /\ \A t \in Suites \ {s} : pc'[t] = pc[t] /\ pc[t] \in Rest
  BY AloneStep
<1>2. ASSUME NEW t \in Suites \ {s}
      PROVE  CleanAt(t)'
  <2>1. pc'[t] = pc[t] /\ pc[t] \in Rest
    BY <1>1
  <2>2. ~Retrying(t) /\ ~Flushed(t)'
    BY <2>1 DEF Retrying, Flushed, Rest
  <2>3. tries'[t] = 0
    BY <2>2 DEF CleanInv, CleanAt
  <2> QED
    BY <2>1, <2>2, <2>3 DEF CleanAt
<1> QED
  BY <1>1, <1>2 DEF CleanInv

\* What a step of a case does to the variables that are not mounts.
LEMMA CaseLocals ==
    ASSUME TypeOK, NEW s \in Suites, Case(s) \/ CaseLoop(s) \/ SuiteExit(s),
           tries[s] # 0 => pc[s] \in {"c_ro", "c_scratch"}
    PROVE  /\ UNCHANGED <<lock, refs, opts, env, root, failing, nfsd, cache>>
           /\ pc[s] \in CaseLabels
           /\ \E l \in Using : Goto(s, l)
           /\ \A t \in Suites \ {s} : tries'[t] = tries[t]
           /\ tries'[s] # 0 => pc'[s] \in {"c_ro", "c_scratch"}
<1> USE DEF locals, kernel
<1>0. pc \in [Suites -> Labels] /\ tries \in [Suites -> 0..MaxTries]
  BY DEF TypeOK
<1>1. UNCHANGED <<lock, refs, opts, env, root, failing, nfsd, cache>> /\ pc[s] \in CaseLabels
  BY DEF Case, CaseTouch, ScratchMount, HostbinMount, RemountRW, CaseCall, CaseLoop,
         ScratchUmount, RemountRO, SuiteExit, CaseLabels
<1>2. UNCHANGED pc \/ \E l \in Using : Goto(s, l)
  BY DEF Case, CaseTouch, ScratchMount, HostbinMount, RemountRW, CaseCall, CaseLoop,
         ScratchUmount, ScratchSweep, RemountRO, SuiteExit, CaseLabels, Using
<1>3. \E l \in Using : Goto(s, l)
  <2>1. UNCHANGED pc => Goto(s, pc[s]) /\ pc[s] \in Using
    BY <1>0, <1>1 DEF Goto, Using
  <2> QED
    BY <1>2, <2>1
<1>4. CASE Case(s) \/ SuiteExit(s)
  <2>1. UNCHANGED tries /\ pc[s] = "cases"
    BY <1>4 DEF Case, CaseTouch, ScratchMount, HostbinMount, RemountRW, CaseCall, SuiteExit
  <2> QED
    BY <1>1, <1>3, <2>1
<1>5. CASE RemountRO(s)
  <2>1. pc[s] = "c_ro"
    BY <1>5 DEF RemountRO
  <2>2. \/ tries' = [tries EXCEPT ![s] = @ + 1] /\ UNCHANGED pc
        \/ tries' = [tries EXCEPT ![s] = 0]
    BY <1>5 DEF RemountRO
  <2> QED
    BY <1>0, <1>1, <1>3, <2>1, <2>2
<1>6. CASE ScratchUmount(s)
  <2>1. pc[s] = "c_scratch"
    BY <1>6 DEF ScratchUmount
  <2>2. \/ tries' = [tries EXCEPT ![s] = @ + 1] /\ UNCHANGED pc
        \/ tries' = [tries EXCEPT ![s] = 0]
    BY <1>6 DEF ScratchUmount, ScratchSweep, SettleAgain, Settled
  <2> QED
    BY <1>0, <1>1, <1>3, <2>1, <2>2
<1> QED
  BY <1>4, <1>5, <1>6 DEF CaseLoop

\* What a step of a case does to the stacks and their directories: at most
\* one mount is added, where its directory is.
LEMMA CaseCovered ==
    ASSUME IInv, IInv', Covered, NEW s \in Suites, Case(s) \/ CaseLoop(s) \/ SuiteExit(s)
    PROVE  /\ Covered'
           /\ \/ UNCHANGED hostbin /\ Len(mounts'["hostbin"]) = Len(mounts["hostbin"])
                   /\ ("hostbin" \in dirs' <=> "hostbin" \in dirs)
              \/ /\ ~hostbin /\ hostbin' /\ "hostbin" \in dirs'
                 /\ Len(mounts'["hostbin"]) = Len(mounts["hostbin"]) + 1
              \/ /\ ~Reliable({"hostbin"}) /\ ~hostbin /\ UNCHANGED hostbin
                 /\ Len(mounts'["hostbin"]) = Len(mounts["hostbin"])
<1> USE DEF locals, kernel
<1>0. /\ TypeOK /\ mounts \in MountMap /\ opts \in Suites \cup {NoSuite}
      /\ mounts' \in MountMap
  BY DEF IInv, TypeOK, MountMap
<1>m. {"scratch", "hostbin"} \subseteq MountPoints
  BY DEF MountPoints
<1>e. \A q \in MountPoints : /\ Len(mounts[q]) \in Nat /\ (mounts[q] = <<>> <=> Len(mounts[q]) = 0)
                             /\ (mounts'[q] = <<>> <=> Len(mounts'[q]) = 0)
  BY <1>0, EmptyStack
<1>1. CASE ScratchMount(s)
  <2>0. /\ UNCHANGED hostbin
        /\ dirs' = dirs \/ dirs' = dirs \cup {"scratch"}
        /\ mounts' = mounts \/ (mounts' = Push(mounts, "scratch", s) /\ dirs' = dirs \cup {"scratch"})
    BY <1>1 DEF ScratchMount
  <2>1. /\ UNCHANGED hostbin /\ dirs \subseteq dirs' /\ ("hostbin" \in dirs' <=> "hostbin" \in dirs)
        /\ mounts' = mounts \/ (mounts' = Push(mounts, "scratch", s) /\ "scratch" \in dirs')
    BY <2>0
  <2>2. \A q \in MountPoints \ {"scratch"} : Push(mounts, "scratch", s)[q] = mounts[q]
    BY <1>0, <1>m, PushMap
  <2>3. Covered'
    BY <2>1, <2>2 DEF Covered
  <2> QED
    BY <1>m, <2>1, <2>2, <2>3
<1>2. CASE HostbinMount(s)
  <2>1. ~hostbin /\ \/ /\ hostbin' /\ dirs' = dirs \cup {"hostbin"}
                       /\ mounts' = Push(mounts, "hostbin", s)
                    \/ /\ ~Reliable({"hostbin"}) /\ UNCHANGED <<hostbin, mounts>>
                       /\ dirs \subseteq dirs'
    BY <1>2 DEF HostbinMount, MayFail, Reliable
  <2>2. /\ \A q \in MountPoints \ {"hostbin"} : Push(mounts, "hostbin", s)[q] = mounts[q]
        /\ Len(Push(mounts, "hostbin", s)["hostbin"]) = Len(mounts["hostbin"]) + 1
    BY <1>0, <1>m, PushMap
  <2>3. Covered'
    BY <2>1, <2>2 DEF Covered
  <2> QED
    BY <2>1, <2>2, <2>3
<1>3. CASE ~ScratchMount(s) /\ ~HostbinMount(s)
  <2>1. UNCHANGED <<hostbin, dirs>>
    BY <1>3 DEF Case, CaseTouch, RemountRW, CaseCall, CaseLoop, ScratchUmount, RemountRO, SuiteExit
  <2>2. \A q \in MountPoints \ {"scratch"} : Len(mounts'[q]) = Len(mounts[q])
    <3>1. CASE ScratchUmount(s)
      BY <1>0, <1>m, <3>1, SettleDepth DEF ScratchUmount, ScratchSweep
    <3>2. CASE ~ScratchUmount(s)
      BY <1>3, <3>2, DepthsKept DEF Case, CaseLoop
    <3> QED
      BY <3>1, <3>2
  <2>3. mounts["scratch"] = <<>> => mounts'["scratch"] = <<>>
    <3>1. CASE ScratchUmount(s)
      BY <1>0, <1>e, <1>m, <3>1, SettleDepth DEF ScratchUmount, ScratchSweep
    <3>2. CASE ~ScratchUmount(s)
      <4>1. Len(mounts'["scratch"]) = Len(mounts["scratch"])
        BY <1>3, <1>m, <3>2, DepthsKept DEF Case, CaseLoop
      <4> QED
        BY <1>e, <1>m, <4>1
    <3> QED
      BY <3>1, <3>2
  <2>4. Covered'
    BY <1>e, <2>1, <2>2, <2>3 DEF Covered
  <2> QED
    BY <1>m, <2>1, <2>2, <2>4
<1> QED
  BY <1>1, <1>2, <1>3

\* Cases leave nothing that the flags do not know of.
LEMMA CaseClean ==
    ASSUME IInv, IInv', Alone, CleanInv,
           NEW s \in Suites, Case(s) \/ CaseLoop(s) \/ SuiteExit(s)
    PROVE  CleanInv'
<1>0. TypeOK /\ pc \in [Suites -> Labels] /\ Tracked /\ Covered /\ Exported /\ CleanAt(s)
  BY DEF IInv, TypeOK, CleanInv, Known
<1>p. pc[s] \in CaseLabels /\ pc[s] \notin Rest
  <2>1. pc[s] \in CaseLabels
    BY DEF Case, CaseTouch, ScratchMount, HostbinMount, RemountRW, CaseCall, CaseLoop,
           ScratchUmount, RemountRO, SuiteExit, CaseLabels
  <2> QED
    BY <2>1 DEF CaseLabels, Rest
<1>t. tries[s] # 0 => pc[s] \in {"c_ro", "c_scratch"}
  BY <1>0, <1>p DEF CleanAt, Retrying, CaseLabels
<1>1. /\ UNCHANGED <<env, nfsd, cache>>
      /\ \A t \in Suites \ {s} : tries'[t] = tries[t]
      /\ tries'[s] # 0 => pc'[s] \in {"c_ro", "c_scratch"}
  BY <1>0, <1>t, CaseLocals
<1>2. PICK l \in Using : Goto(s, l)
  BY <1>0, <1>t, CaseLocals
<1>3. pc'[s] = l /\ l \notin Rest
  BY <1>0, <1>2, Labelling DEF Goto
<1>4. env["tmpfs"] /\ env["nfsd"] /\ cache # {}
  BY <1>p DEF IInv, MountedWhileHeld, Holders, EnvFlags
<1>5. \A q \in Deployed : Touched(mounts, mounts', q)
  BY CaseTouched
<1>6. Covered' /\ \/ UNCHANGED hostbin /\ Len(mounts'["hostbin"]) = Len(mounts["hostbin"])
                       /\ ("hostbin" \in dirs' <=> "hostbin" \in dirs)
                  \/ /\ ~hostbin /\ hostbin' /\ "hostbin" \in dirs'
                     /\ Len(mounts'["hostbin"]) = Len(mounts["hostbin"]) + 1
                  \/ /\ ~Reliable({"hostbin"}) /\ ~hostbin /\ UNCHANGED hostbin
                     /\ Len(mounts'["hostbin"]) = Len(mounts["hostbin"])
  BY <1>0, CaseCovered
<1>7. Tracked'
  <2>1. Len(mounts'["nfsdfs"]) = Len(mounts["nfsdfs"]) /\ Len(mounts'["client"]) = Len(mounts["client"])
    BY <1>5 DEF Deployed, Touched
  <2>2. Free(mounts', "nfsdfs", PinKinds)
    <3>1. Touched(mounts, mounts', "nfsdfs") /\ Left("nfsdfs") = {}
      BY <1>5 DEF Deployed, Left
    <3> QED
      BY <1>0, <3>1 DEF Tracked, Free, Touched
  <2>3. /\ Len(mounts'["hostbin"]) = (IF hostbin' THEN 1 ELSE 0) /\ (hostbin' => "hostbin" \in dirs')
        /\ Reliable({"hostbin"}) => ("hostbin" \in dirs' => hostbin')
    BY <1>0, <1>6 DEF Tracked
  <2> QED
    BY <1>0, <1>1, <2>1, <2>2, <2>3 DEF Tracked
<1>8. Exported'
  <2>1. Touched(mounts, mounts', "export") /\ Left("export") = {"pend", "leak"}
    BY <1>5 DEF Deployed, Left
  <2>2. Free(mounts', "export", {"late"})
    BY <1>0, <2>1 DEF Exported, Free, Touched
  <2>3. Leaked => Leaked'
    BY <1>1, <2>1 DEF Leaked, Touched
  <2> QED
    BY <1>0, <1>1, <1>4, <2>2, <2>3 DEF Exported
<1>9. CleanAt(s)'
  <2>1. Clear(l)'
    BY <1>1, <1>3, <1>4 DEF Clear, Using, CaseLabels, Rest
  <2>2. ~Flushed(s)'
    BY <1>3 DEF Flushed, Using, CaseLabels
  <2>3. tries'[s] # 0 => Retrying(s)'
    BY <1>1 DEF Retrying
  <2> QED
    BY <1>3, <2>1, <2>2, <2>3 DEF CleanAt
<1> QED
  BY <1>0, <1>1, <1>2, <1>3, <1>6, <1>7, <1>8, <1>9, <1>p, CleanFrame DEF Known

\* Dropping references, or making the deployment's directories, leaves the
\* flags right.
LEMMA KnownEased ==
    ASSUME TypeOK, mounts' \in MountMap, Known, UNCHANGED <<env, hostbin, nfsd, cache>>,
           dirs \subseteq dirs', "hostbin" \in dirs' => "hostbin" \in dirs,
           \A q \in MountPoints : Eased(mounts, mounts', q)
    PROVE  Known'
<1>0. mounts \in MountMap
  BY DEF TypeOK, MountMap
<1>m. {"export", "nfsdfs", "client", "hostbin"} \subseteq MountPoints
  BY DEF MountPoints
<1>1. \A q \in MountPoints : Len(mounts'[q]) = Len(mounts[q]) /\ (mounts'[q] = <<>> <=> mounts[q] = <<>>)
  <2>1. \A q \in MountPoints : Len(mounts'[q]) = Len(mounts[q])
    BY DEF Eased
  <2> QED
    BY <1>0, <2>1, EmptyStack
<1>2. Covered'
  BY <1>1 DEF Known, Covered
<1>3. Free(mounts', "nfsdfs", PinKinds)
  BY <1>m, EasedSame DEF Known, Tracked
<1>4. Tracked'
  BY <1>1, <1>3, <1>m DEF Known, Tracked
<1>5. /\ Free(mounts', "export", {"late"})
      /\ cache = {} => Free(mounts', "export", {"cache"})
  BY <1>m, EasedSame DEF Known, Exported
<1>6. Eased(mounts, mounts', "export")
  BY <1>m
<1>7. Leaked => Leaked'
  BY <1>6 DEF Leaked, Eased, Lighter
<1>8. Exported'
  BY <1>5, <1>7 DEF Known, Exported
<1> QED
  BY <1>2, <1>4, <1>8 DEF Known

\* The kernel's own progress.
LEMMA AsyncClean ==
    ASSUME IInv, IInv', CleanInv, Async
    PROVE  CleanInv'
<1> USE DEF locals
<1>0. TypeOK /\ mounts \in MountMap /\ mounts' \in MountMap
  BY DEF IInv, TypeOK, MountMap
<1>1. UNCHANGED <<pc, env, root, hostbin, tries, dirs, nfsd, cache>>
  BY DEF Async, DelayedFput, LateDone
<1>2. \A q \in MountPoints : Eased(mounts, mounts', q)
  BY <1>0, AsyncEased
<1>3. Known'
  BY <1>0, <1>1, <1>2, KnownEased DEF CleanInv
<1>4. \A q \in MountPoints : mounts'[q] = <<>> <=> mounts[q] = <<>>
  BY <1>0, <1>2, EmptyStack DEF Eased
<1>5. dirs \subseteq MountPoints
  BY <1>0 DEF TypeOK
<1>6. ASSUME NEW l, Clear(l)
      PROVE  Clear(l)'
  BY <1>1, <1>4, <1>5, <1>6 DEF Clear
<1>7. Free(mounts, "export", {"pend"}) => Free(mounts', "export", {"pend"})
  BY <1>2, EasedSame DEF MountPoints
<1>8. ASSUME NEW s \in Suites
      PROVE  CleanAt(s)'
  <2>1. CleanAt(s)
    BY DEF CleanInv
  <2>2. pc'[s] = pc[s] /\ tries'[s] = tries[s]
    BY <1>1
  <2>3. (Flushed(s)' <=> Flushed(s)) /\ (Retrying(s)' <=> Retrying(s))
    BY <1>1 DEF Flushed, Retrying
  <2>4. PICK l : l = pc[s]
    OBVIOUS
  <2>5. l \notin Rest => Clear(l)'
    BY <1>6, <2>1, <2>4 DEF CleanAt
  <2>6. pc'[s] \notin Rest => Clear(pc[s])'
    BY <2>2, <2>4, <2>5
  <2> QED
    BY <1>1, <1>7, <2>1, <2>2, <2>3, <2>6 DEF CleanAt
<1>9. Quiet' => Clear("done")'
  BY <1>1, <1>6 DEF CleanInv, Quiet
<1> QED
  BY <1>3, <1>8, <1>9 DEF CleanInv

\* A new export covers the ones that leaked files pin.
LEMMA ExportPushed ==
    ASSUME TypeOK, Exported, ~env["tmpfs"], NEW s \in Suites, mounts' = Push(mounts, "export", s),
           env' = [env EXCEPT !["tmpfs"] = TRUE], UNCHANGED cache
    PROVE  Exported'
<1>0. /\ mounts \in MountMap /\ opts \in Suites \cup {NoSuite} /\ "export" \in MountPoints
      /\ env \in [EnvFlags -> BOOLEAN]
  BY DEF TypeOK, MountMap, MountPoints
<1>1. /\ mounts'["export"][1] = [by |-> s, opts |-> opts, ro |-> FALSE, pins |-> {}]
      /\ \A i \in 2..(Len(mounts["export"]) + 1) : mounts'["export"][i] = mounts["export"][i - 1]
      /\ Len(mounts'["export"]) = Len(mounts["export"]) + 1
  BY <1>0, PushTop, PushMap
<1>2. Len(mounts["export"]) \in Nat
  BY <1>0, EmptyStack
<1>3. mounts'["export"][1].pins = {}
  BY <1>1
<1>4. ASSUME NEW i \in 1..Len(mounts'["export"]), i # 1
      PROVE  /\ i - 1 \in 1..Len(mounts["export"])
             /\ mounts'["export"][i].pins = mounts["export"][i - 1].pins
  <2>1. i \in 2..(Len(mounts["export"]) + 1)
    BY <1>1, <1>2, <1>4
  <2> QED
    BY <1>1, <1>2, <2>1
<1>5. Free(mounts', "export", {"late"}) /\ (cache = {} => Free(mounts', "export", {"cache"}))
  BY <1>3, <1>4 DEF Exported, Free
<1>6. ASSUME Leaked, NEW i \in 1..Len(mounts'["export"]), i > 1
      PROVE  "leak" \in mounts'["export"][i].pins
  <2>1. /\ i - 1 \in 1..Len(mounts["export"])
        /\ mounts'["export"][i].pins = mounts["export"][i - 1].pins
    BY <1>4, <1>6
  <2>2. "leak" \in mounts["export"][i - 1].pins
    BY <1>6, <2>1 DEF Leaked
  <2> QED
    BY <2>1, <2>2
<1>7. env'["tmpfs"]
  BY <1>0 DEF EnvFlags
<1> QED
  BY <1>5, <1>6, <1>7 DEF Exported, Leaked

\* A bring-up starts from a clean state and knows what it has built, however
\* far it comes.
LEMMA BringupClean ==
    ASSUME IInv, IInv', FreshInv, ~Overlap, CleanInv,
           NEW s \in Suites, Get(s)
    PROVE  CleanInv'
<1> USE DEF locals, kernel
<1>0. /\ TypeOK /\ pc \in [Suites -> Labels] /\ mounts \in MountMap /\ mounts' \in MountMap
      /\ opts \in Suites \cup {NoSuite} /\ env \in [EnvFlags -> BOOLEAN] /\ Alone
      /\ Known /\ CleanAt(s) /\ Stage(s)
  BY DEF IInv, TypeOK, MountMap, FreshInv, CleanInv, StageInv
<1>m. {"export", "nfsdfs", "client", "scratch", "hostbin"} = MountPoints
  BY DEF MountPoints
<1>n. EnvFlags = {"tmpfs", "nfsdfs", "nfsd", "client"}
  BY DEF EnvFlags
<1>p. /\ pc[s] \in BringupLabels \cup {"get", "idle"}
      /\ UNCHANGED <<hostbin, tries>>
  BY DEF Get, SuiteInit, GetJoin, GetFirst, LoopbackUp, MakeDirs, MountTmpfs, MountNfsdfs,
         MountStep, ConfigureExports, StartNfsd, MountClient, CaptureRoot, BringupLabels
<1>t. tries'[s] = 0
  BY <1>0, <1>p DEF CleanAt, Retrying, BringupLabels
<1>c. pc[s] # "idle" => Clear(pc[s])
  BY <1>0, <1>p DEF CleanAt, Rest, BringupLabels
<1>r. pc[s] \notin Rest \/ \A t \in Suites \ {s} : pc[t] \in Rest
  <2>1. pc[s] = "idle" => SuiteInit(s)
    BY DEF Get, SuiteInit, GetJoin, GetFirst, LoopbackUp, MakeDirs, MountTmpfs, MountNfsdfs,
           MountStep, ConfigureExports, StartNfsd, MountClient, CaptureRoot
  <2> QED
    BY <1>p, <2>1 DEF SuiteInit, Rest, BringupLabels
<1>f. ASSUME NEW l \in BringupLabels \cup {"get", "cases", "td_hostbin"}, Goto(s, l), Known', Clear(l)'
      PROVE  CleanInv'
  <2>1. pc'[s] = l
    BY <1>0, <1>f DEF Goto
  <2>2. l \notin Rest /\ ~Flushed(s)'
    BY <2>1 DEF Rest, Flushed, BringupLabels
  <2>3. CleanAt(s)'
    BY <1>f, <1>t, <2>1, <2>2 DEF CleanAt
  <2> QED
    BY <1>0, <1>f, <1>p, <1>r, <2>2, <2>3, CleanFrame
<1>k. ASSUME UNCHANGED <<env, mounts, nfsd, cache>>,
             dirs \subseteq dirs', "hostbin" \in dirs' => "hostbin" \in dirs
      PROVE  Known'
  <2>1. \A q \in MountPoints : Eased(mounts, mounts', q)
    BY <1>k, EasedSame
  <2> QED
    BY <1>0, <1>k, <1>p, <2>1, KnownEased
\* A failed step changes nothing but directories of the deployment.
<1>g. ASSUME GiveUp(s), UNCHANGED <<env, mounts, nfsd, cache, root>>,
             dirs \subseteq dirs', "hostbin" \in dirs' => "hostbin" \in dirs, Clear(pc[s]),
             pc[s] \in {"lo", "mkdirs", "tmpfs", "nfsdfs", "client"}
      PROVE  CleanInv'
  <2>1. Known'
    BY <1>g, <1>k
  <2>2. Clear("td_hostbin")'
    BY <1>g, <1>p DEF Clear, Using, CaseLabels, TeardownLabels, Rest
  <2> QED
    BY <1>f, <1>g, <2>1, <2>2 DEF GiveUp
<1>1. CASE SuiteInit(s)
  <2>1. /\ Quiet /\ Goto(s, "get")
        /\ UNCHANGED <<env, root, hostbin, dirs, mounts, nfsd, cache>>
    BY <1>1 DEF SuiteInit, Quiet
  <2>2. Clear("done")
    BY <2>1 DEF CleanInv
  <2>3. Clear("get")'
    BY <2>1, <2>2 DEF Clear, Using, CaseLabels, TeardownLabels, Rest
  <2> QED
    BY <1>f, <1>k, <2>1, <2>3
<1>2. CASE GetJoin(s)
  BY <1>0, <1>2, NeverShared DEF GetJoin
<1>3. CASE GetFirst(s)
  <2>1. /\ pc[s] = "get" /\ Goto(s, "lo")
        /\ UNCHANGED <<env, root, hostbin, dirs, mounts, nfsd, cache>>
    BY <1>3 DEF GetFirst
  <2>2. Clear("lo")'
    BY <1>c, <2>1 DEF Clear, Using, CaseLabels, TeardownLabels, Rest
  <2> QED
    BY <1>f, <1>k, <2>1, <2>2 DEF BringupLabels
<1>4. CASE LoopbackUp(s)
  <2>1. /\ pc[s] = "lo" /\ (Goto(s, "mkdirs") \/ GiveUp(s))
        /\ UNCHANGED <<env, root, hostbin, dirs, mounts, nfsd, cache>>
    BY <1>4 DEF LoopbackUp
  <2>2. Clear("mkdirs")'
    BY <1>c, <2>1 DEF Clear, Using, CaseLabels, TeardownLabels, Rest
  <2> QED
    BY <1>c, <1>f, <1>g, <1>k, <2>1, <2>2 DEF BringupLabels
<1>5. CASE MakeDirs(s)
  <2>1. /\ pc[s] = "mkdirs" /\ (Goto(s, "tmpfs") \/ GiveUp(s))
        /\ UNCHANGED <<env, root, hostbin, mounts, nfsd, cache>>
        /\ \E made \in SUBSET {"export", "client", "nfsdfs"} : dirs' = dirs \cup made
    BY <1>5 DEF MakeDirs
  <2>2. dirs \subseteq dirs' /\ \A q \in {"hostbin", "scratch"} : q \in dirs' => q \in dirs
    BY <2>1
  <2>3. Clear("tmpfs")'
    BY <1>c, <2>1, <2>2 DEF Clear, Using, CaseLabels, TeardownLabels, Rest
  <2> QED
    BY <1>c, <1>f, <1>g, <1>k, <2>1, <2>2, <2>3 DEF BringupLabels
\* The three filesystems the fixture mounts.
<1>s. ASSUME NEW label \in {"tmpfs", "nfsdfs", "client"}, NEW mp \in MountPoints, NEW flag, NEW next,
             MountStep(s, label, mp, flag, next)
      PROVE  \/ CleanInv'
             \/ /\ pc[s] = label /\ Mountable(mp)
                /\ mounts' = Push(mounts, mp, s) /\ env' = [env EXCEPT ![flag] = TRUE]
                /\ Goto(s, next) /\ UNCHANGED <<root, hostbin, dirs, nfsd, cache>>
  <2>1. \/ /\ pc[s] = label /\ Mountable(mp)
           /\ mounts' = Push(mounts, mp, s) /\ env' = [env EXCEPT ![flag] = TRUE]
           /\ Goto(s, next) /\ UNCHANGED <<root, hostbin, dirs, nfsd, cache>>
        \/ pc[s] = label /\ GiveUp(s) /\ UNCHANGED <<env, mounts, nfsd, cache, root, dirs>>
    BY <1>s DEF MountStep
  <2>2. pc[s] = label => Clear(pc[s])
    BY <1>c
  <2> QED
    BY <1>g, <2>1, <2>2
\* What a mount does to the stacks and to their directories.
<1>q. ASSUME NEW mp \in MountPoints, mounts' = Push(mounts, mp, s), Mountable(mp), UNCHANGED dirs
      PROVE  /\ Covered'
             /\ \A q \in MountPoints \ {mp} : mounts'[q] = mounts[q]
             /\ Len(mounts'[mp]) = Len(mounts[mp]) + 1
             /\ mp \in {"nfsdfs", "client"} => Len(mounts[mp]) = 0 /\ mounts'[mp][1].pins = {}
  <2>1. /\ \A q \in MountPoints \ {mp} : Push(mounts, mp, s)[q] = mounts[q]
        /\ Len(Push(mounts, mp, s)[mp]) = Len(mounts[mp]) + 1
    BY <1>0, <1>q, PushMap
  <2>2. Push(mounts, mp, s)[mp][1] = [by |-> s, opts |-> opts, ro |-> FALSE, pins |-> {}]
    BY <1>0, <1>q, PushTop
  <2>3. Covered'
    BY <1>0, <1>q, <2>1 DEF Known, Covered, Mountable
  <2>4. mp \in {"nfsdfs", "client"} => Len(mounts[mp]) = 0
    BY <1>0, <1>q, EmptyStack DEF Mountable
  <2> QED
    BY <1>q, <2>1, <2>2, <2>3, <2>4
<1>6. CASE MountTmpfs(s)
  <2>1. CASE /\ pc[s] = "tmpfs" /\ Mountable("export")
             /\ mounts' = Push(mounts, "export", s) /\ env' = [env EXCEPT !["tmpfs"] = TRUE]
             /\ Goto(s, "nfsdfs") /\ UNCHANGED <<root, hostbin, dirs, nfsd, cache>>
    <3>1. Clear("tmpfs")
      BY <1>c, <2>1
    <3>2. ~env["tmpfs"]
      BY <3>1 DEF Clear
    <3>3. Exported'
      BY <1>0, <2>1, <3>2, ExportPushed DEF Known
    <3>4. \A f \in EnvFlags \ {"tmpfs"} : env'[f] = env[f]
      BY <1>0, <2>1
    <3>5. Covered' /\ \A q \in MountPoints \ {"export"} : mounts'[q] = mounts[q]
      BY <1>m, <1>q, <2>1
    <3>6. Tracked'
      BY <1>0, <1>m, <1>n, <2>1, <3>4, <3>5 DEF Known, Tracked, Free
    <3>7. Clear("nfsdfs")'
      BY <1>n, <2>1, <3>1, <3>4 DEF Clear, Using, CaseLabels, TeardownLabels, Rest
    <3> QED
      BY <1>f, <2>1, <3>3, <3>5, <3>6, <3>7 DEF BringupLabels, Known
  <2> QED
    BY <1>6, <1>m, <1>s, <2>1 DEF MountTmpfs
<1>7. CASE MountNfsdfs(s)
  <2>1. CASE /\ pc[s] = "nfsdfs" /\ Mountable("nfsdfs")
             /\ mounts' = Push(mounts, "nfsdfs", s) /\ env' = [env EXCEPT !["nfsdfs"] = TRUE]
             /\ Goto(s, "exports") /\ UNCHANGED <<root, hostbin, dirs, nfsd, cache>>
    <3>1. Clear("nfsdfs")
      BY <1>c, <2>1
    <3>2. env'["nfsdfs"] /\ \A f \in EnvFlags \ {"nfsdfs"} : env'[f] = env[f]
      BY <1>0, <1>n, <2>1
    <3>3. /\ Covered' /\ \A q \in MountPoints \ {"nfsdfs"} : mounts'[q] = mounts[q]
          /\ Len(mounts'["nfsdfs"]) = 1 /\ mounts'["nfsdfs"][1].pins = {}
      <4>1. /\ Covered' /\ \A q \in MountPoints \ {"nfsdfs"} : mounts'[q] = mounts[q]
            /\ Len(mounts'["nfsdfs"]) = Len(mounts["nfsdfs"]) + 1
            /\ Len(mounts["nfsdfs"]) = 0 /\ mounts'["nfsdfs"][1].pins = {}
        BY <1>m, <1>q, <2>1
      <4> QED
        BY <4>1
    <3>4. Exported'
      BY <1>0, <1>m, <1>n, <2>1, <3>2, <3>3 DEF Known, Exported, Leaked, Free
    <3>5. Free(mounts', "nfsdfs", PinKinds)
      BY <3>3 DEF Free
    <3>6. Tracked'
      BY <1>0, <1>m, <1>n, <2>1, <3>2, <3>3, <3>5 DEF Known, Tracked
    <3>7. Clear("exports")'
      BY <1>n, <2>1, <3>1, <3>2 DEF Clear, Using, CaseLabels, TeardownLabels, Rest
    <3> QED
      BY <1>f, <2>1, <3>3, <3>4, <3>6, <3>7 DEF BringupLabels, Known
  <2> QED
    BY <1>7, <1>m, <1>s, <2>1 DEF MountNfsdfs
\* Feeding lines pins the deployment's export, at most.
<1>e. ASSUME pc[s] = "exports", NEW n \in 0..3, Feed(n), UNCHANGED <<env, dirs, nfsd>>
      PROVE  Known'
  <2>0. PICK P : P = mounts["export"][1].pins \cup {"cache"}
    OBVIOUS
  <2>1. /\ cache \subseteq cache'
        /\ mounts' = mounts \/ (cache' # {} /\ mounts' = Repin(mounts, "export", 1, P))
    BY <1>e, <2>0 DEF Feed
  <2>2. env["tmpfs"] /\ mounts["export"] # <<>>
    BY <1>0, <1>e DEF Stage
  <2>3. 1 \in 1..Len(mounts["export"])
    BY <1>0, <1>m, <2>2, EmptyStack
  <2>4. /\ \A q \in MountPoints \ {"export"} : mounts'[q] = mounts[q]
        /\ Len(mounts'["export"]) = Len(mounts["export"])
        /\ \A i \in 2..Len(mounts["export"]) : mounts'["export"][i] = mounts["export"][i]
        /\ mounts'["export"][1] = [mounts["export"][1] EXCEPT !.pins = P] \/ mounts' = mounts
    BY <1>0, <1>m, <2>1, <2>3, RepinOne
  <2>5. mounts["export"][1] \in Mounts
    BY <1>0, <1>m, <2>3, MountRecord
  <2>6. mounts'["export"][1].pins \subseteq P
    BY <2>0, <2>4, <2>5 DEF Mounts
  <2>7. "late" \notin P
    BY <1>0, <2>0, <2>3 DEF Known, Exported, Free
  <2>8. Exported'
    <3>1. Free(mounts', "export", {"late"})
      BY <1>0, <2>3, <2>4, <2>6, <2>7 DEF Known, Exported, Free
    <3>2. cache' = {} => cache = {} /\ mounts' = mounts
      BY <2>1
    <3>3. cache' = {} => Free(mounts', "export", {"cache"})
      BY <1>0, <3>2 DEF Known, Exported
    <3>4. Leaked => Leaked'
      BY <1>e, <2>2, <2>3, <2>4 DEF Leaked
    <3> QED
      BY <1>0, <3>1, <3>3, <3>4 DEF Known, Exported
  <2>9. Covered'
    BY <1>0, <1>e, <1>m, <2>2, <2>4 DEF Known, Covered
  <2>10. Tracked'
    BY <1>0, <1>e, <1>m, <1>p, <2>4 DEF Known, Tracked, Free
  <2> QED
    BY <2>8, <2>9, <2>10 DEF Known
<1>8. CASE ConfigureExports(s)
  <2>1. pc[s] = "exports" /\ Clear("exports") /\ UNCHANGED <<env, root, dirs, nfsd>>
    BY <1>8, <1>c DEF ConfigureExports
  <2>2. CASE Feed(3) /\ Goto(s, "nfsd")
    <3>1. Clear("nfsd")'
      BY <1>p, <2>1 DEF Clear, Using, CaseLabels, TeardownLabels, Rest
    <3> QED
      BY <1>e, <1>f, <2>1, <2>2, <3>1 DEF BringupLabels
  <2>3. ASSUME NEW n \in 0..2, MayFail("exports"), Feed(n), GiveUp(s)
        PROVE  CleanInv'
    <3>1. ~Reliable({"exports", "nfsd"})
      BY <2>3 DEF MayFail, Reliable
    <3>2. Clear("td_hostbin")'
      BY <1>p, <2>1, <3>1 DEF Clear, Using, CaseLabels, TeardownLabels, Rest
    <3>3. Known'
      BY <1>e, <2>1, <2>3
    <3> QED
      BY <1>f, <2>3, <3>2, <3>3 DEF GiveUp
  <2>4. \A i \in 1..3 : LineAccepted(i)
    BY DEF LineAccepted, CacheLines
  <2>5. \A n \in 0..2 : n + 1 \in 1..3
    OBVIOUS
  <2> QED
    BY <1>8, <2>2, <2>3, <2>4, <2>5 DEF ConfigureExports
<1>9. CASE StartNfsd(s)
  <2>1. pc[s] = "nfsd" /\ Clear("nfsd") /\ UNCHANGED <<root, dirs, mounts, cache>>
    BY <1>9, <1>c DEF StartNfsd
  <2>2. ~env["nfsd"]
    BY <2>1 DEF Clear, Using, CaseLabels
  <2>3. /\ ~nfsd.threads /\ nfsd.socks \subseteq {"udp"}
        /\ Reliable({"nfsd"}) => nfsd = NfsdDown
    BY <1>0, <2>2 DEF Known, Tracked
  <2>4. CASE env' = [env EXCEPT !["nfsd"] = TRUE] /\ Goto(s, "client")
    <3>1. env'["nfsd"] /\ \A f \in EnvFlags \ {"nfsd"} : env'[f] = env[f]
      BY <1>0, <1>n, <2>4
    <3>2. Tracked'
      BY <1>0, <1>n, <1>p, <2>1, <3>1 DEF Known, Tracked
    <3>3. Covered' /\ Exported'
      BY <1>0, <1>n, <2>1, <3>1 DEF Known, Covered, Exported, Leaked
    <3>4. Clear("client")'
      BY <1>n, <1>p, <2>1, <3>1 DEF Clear, Using, CaseLabels, TeardownLabels, Rest
    <3> QED
      BY <1>f, <2>4, <3>2, <3>3, <3>4 DEF BringupLabels, Known
\* A service with the first listener is what a failing start leaves, at most.
  <2>5. ASSUME MayFail("nfsd") \/ nfsd.socks # {}, GiveUp(s), UNCHANGED env,
               \/ UNCHANGED nfsd
               \/ nfsd' = [nfsd EXCEPT !.serv = TRUE]
               \/ nfsd' = [nfsd EXCEPT !.serv = TRUE, !.socks = {"udp"}]
               \/ nfsd' = NfsdDown
        PROVE  CleanInv'
    <3>1. ~Reliable({"nfsd"}) /\ ~Reliable({"exports", "nfsd"})
      BY <2>3, <2>5 DEF MayFail, Reliable, NfsdDown
    <3>2. ~nfsd'.threads /\ nfsd'.socks \subseteq {"udp"}
      <4>1. nfsd \in NfsdType
        BY <1>0 DEF TypeOK, NfsdType
      <4>2. /\ [nfsd EXCEPT !.serv = TRUE].threads = nfsd.threads
            /\ [nfsd EXCEPT !.serv = TRUE].socks = nfsd.socks
            /\ [nfsd EXCEPT !.serv = TRUE, !.socks = {"udp"}].threads = nfsd.threads
            /\ [nfsd EXCEPT !.serv = TRUE, !.socks = {"udp"}].socks = {"udp"}
            /\ ~NfsdDown.threads /\ NfsdDown.socks = {}
        BY <4>1 DEF NfsdType, NfsdDown
      <4> QED
        BY <2>3, <2>5, <4>2
    <3>3. Tracked'
      BY <1>0, <1>p, <2>1, <2>5, <3>1, <3>2 DEF Known, Tracked
    <3>4. Covered' /\ Exported'
      BY <1>0, <2>1, <2>5 DEF Known, Covered, Exported, Leaked
    <3>5. Clear("td_hostbin")'
      BY <1>p, <2>1, <2>5, <3>1 DEF Clear, Using, CaseLabels, TeardownLabels, Rest
    <3> QED
      BY <1>f, <2>5, <3>3, <3>4, <3>5 DEF GiveUp, Known
  <2> QED
    BY <1>9, <2>4, <2>5 DEF StartNfsd
<1>10. CASE MountClient(s)
  <2>1. CASE /\ pc[s] = "client" /\ Mountable("client")
             /\ mounts' = Push(mounts, "client", s) /\ env' = [env EXCEPT !["client"] = TRUE]
             /\ Goto(s, "root") /\ UNCHANGED <<root, hostbin, dirs, nfsd, cache>>
    <3>1. Clear("client")
      BY <1>c, <2>1
    <3>2. env'["client"] /\ \A f \in EnvFlags \ {"client"} : env'[f] = env[f]
      BY <1>0, <1>n, <2>1
    <3>3. /\ Covered' /\ \A q \in MountPoints \ {"client"} : mounts'[q] = mounts[q]
          /\ Len(mounts'["client"]) = 1
      <4>1. /\ Covered' /\ \A q \in MountPoints \ {"client"} : mounts'[q] = mounts[q]
            /\ Len(mounts'["client"]) = Len(mounts["client"]) + 1
            /\ Len(mounts["client"]) = 0
        BY <1>m, <1>q, <2>1
      <4> QED
        BY <4>1
    <3>4. Exported'
      BY <1>0, <1>m, <1>n, <2>1, <3>2, <3>3 DEF Known, Exported, Leaked, Free
    <3>5. Tracked'
      BY <1>0, <1>m, <1>n, <2>1, <3>2, <3>3 DEF Known, Tracked, Free
    <3>6. Clear("root")'
      BY <1>n, <2>1, <3>1, <3>2 DEF Clear, Using, CaseLabels, TeardownLabels, Rest
    <3> QED
      BY <1>f, <2>1, <3>3, <3>4, <3>5, <3>6 DEF BringupLabels, Known
  <2> QED
    BY <1>10, <1>m, <1>s, <2>1 DEF MountClient
<1>11. CASE CaptureRoot(s)
  <2>1. pc[s] = "root" /\ Goto(s, "cases") /\ UNCHANGED <<env, dirs, mounts, nfsd, cache>>
    BY <1>11 DEF CaptureRoot
  <2>2. Clear("cases")'
    BY <1>c, <1>p, <2>1 DEF Clear, Using, CaseLabels, TeardownLabels, Rest
  <2> QED
    BY <1>f, <1>k, <2>1, <2>2
<1> QED
  BY <1>1, <1>2, <1>3, <1>4, <1>5, <1>6, <1>7, <1>8, <1>9, <1>10, <1>11 DEF Get

\* What the end of a settling loop on one of the client-side mounts leaves.
LEMMA SettledKnown ==
    ASSUME TypeOK, mounts' \in MountMap, Known, NEW s \in Suites,
           NEW mp \in {"hostbin", "scratch", "client"}, Settled(s, mp),
           UNCHANGED cache, env'["tmpfs"] = env["tmpfs"]
    PROVE  /\ Exported' /\ Free(mounts', "nfsdfs", PinKinds)
           /\ \A q \in MountPoints \ {mp} :
                Len(mounts'[q]) = Len(mounts[q]) /\ (mounts'[q] = <<>> <=> mounts[q] = <<>>)
           /\ mounts[mp] = <<>> => mounts'[mp] = <<>>
           /\ Len(mounts[mp]) = 1 => mounts'[mp] = <<>> /\ Len(mounts'[mp]) = 0
           /\ Free(mounts, "export", {"pend"}) \/ tries[s] # MaxTries =>
                Free(mounts', "export", {"pend"})
<1>0. mounts \in MountMap
  BY DEF TypeOK, MountMap
<1>m. mp \in MountPoints /\ {"export", "nfsdfs"} \subseteq MountPoints \ {mp}
  BY DEF MountPoints
<1>1. \A q \in MountPoints \ {mp} :
        Eased(mounts, mounts', q) /\ (tries[s] = MaxTries \/ Free(mounts', q, {"pend"}))
  BY <1>m, SettleEased
<1>2. \A q \in MountPoints \ {mp} : Len(mounts'[q]) = Len(mounts[q])
  BY <1>1 DEF Eased
<1>3. Len(mounts'[mp]) = IF Len(mounts[mp]) = 0 THEN 0 ELSE Len(mounts[mp]) - 1
  BY <1>m, SettleDepth
<1>4. \A q \in MountPoints : /\ mounts[q] = <<>> <=> Len(mounts[q]) = 0
                             /\ mounts'[q] = <<>> <=> Len(mounts'[q]) = 0
  BY <1>0, EmptyStack
<1>5. Free(mounts', "nfsdfs", PinKinds)
  BY <1>1, <1>m, EasedSame DEF Known, Tracked
<1>6. /\ Free(mounts', "export", {"late"})
      /\ cache = {} => Free(mounts', "export", {"cache"})
      /\ Free(mounts, "export", {"pend"}) => Free(mounts', "export", {"pend"})
  BY <1>1, <1>m, EasedSame DEF Known, Exported
<1>7. Eased(mounts, mounts', "export")
  BY <1>1, <1>m
<1>8. Leaked => Leaked'
  BY <1>7 DEF Leaked, Eased, Lighter
<1>9. Exported'
  BY <1>6, <1>8 DEF Known, Exported
<1>10. tries[s] # MaxTries => Free(mounts', "export", {"pend"})
  BY <1>1, <1>m
<1>11. \A q \in MountPoints \ {mp} : mounts'[q] = <<>> <=> mounts[q] = <<>>
  BY <1>2, <1>4
<1>12. (mounts[mp] = <<>> => mounts'[mp] = <<>>)
         /\ (Len(mounts[mp]) = 1 => mounts'[mp] = <<>> /\ Len(mounts'[mp]) = 0)
  <2>1. /\ Len(mounts[mp]) = 0 => Len(mounts'[mp]) = 0
        /\ Len(mounts[mp]) = 1 => Len(mounts'[mp]) = 0
    BY <1>3
  <2>2. /\ mounts[mp] = <<>> <=> Len(mounts[mp]) = 0
        /\ mounts'[mp] = <<>> <=> Len(mounts'[mp]) = 0
    BY <1>4, <1>m
  <2> QED
    BY <2>1, <2>2
<1> QED
  BY <1>2, <1>5, <1>6, <1>9, <1>10, <1>11, <1>12

\* Unmounting the deployment's export: what is left is pinned by leaked files.
LEMMA ExportPopped ==
    ASSUME TypeOK, Exported, Reliable({"exports", "nfsd"}) => cache = {},
           Free(mounts, "export", {"pend"}),
           mounts' = IF env["tmpfs"] /\ ~Busy(mounts, "export") THEN Pop(mounts, "export") ELSE mounts,
           UNCHANGED cache
    PROVE  Exported'
<1>0. mounts \in MountMap /\ "export" \in MountPoints
  BY DEF TypeOK, MountMap, MountPoints
<1>e. Len(mounts["export"]) \in Nat /\ (mounts["export"] = <<>> <=> Len(mounts["export"]) = 0)
  BY <1>0, EmptyStack
<1>1. CASE env["tmpfs"] /\ ~Busy(mounts, "export") /\ mounts["export"] # <<>>
  <2>1. /\ Len(mounts'["export"]) = Len(mounts["export"]) - 1
        /\ \A i \in 1..(Len(mounts["export"]) - 1) : mounts'["export"][i] = mounts["export"][i + 1]
    BY <1>0, <1>1, PopMap, PopRest
  <2>2. ASSUME NEW i \in 1..Len(mounts'["export"])
        PROVE  /\ i + 1 \in 1..Len(mounts["export"]) /\ i + 1 > 1
               /\ mounts'["export"][i].pins = mounts["export"][i + 1].pins
    BY <1>e, <2>1, <2>2
  <2>3. Free(mounts', "export", {"late"}) /\ (cache = {} => Free(mounts', "export", {"cache"}))
    BY <2>2 DEF Exported, Free
  <2>4. Leaked => Leaked'
    BY <2>2 DEF Leaked
  <2> QED
    BY <2>3, <2>4 DEF Exported
<1>2. CASE env["tmpfs"] /\ mounts["export"] = <<>>
  <2>1. Len(mounts'["export"]) = 0
    BY <1>0, <1>2, <1>e, PopMap
  <2> QED
    BY <2>1 DEF Exported, Free, Leaked
<1>3. CASE ~env["tmpfs"] \/ (Busy(mounts, "export") /\ mounts["export"] # <<>>)
  <2>1. mounts' = mounts
    BY <1>3
  <2>2. ASSUME Reliable({"exports", "nfsd"})
        PROVE  \A i \in 1..Len(mounts["export"]) : "leak" \in mounts["export"][i].pins
    <3>0. cache = {} /\ Leaked
      BY <2>2 DEF Exported
    <3>1. CASE ~env["tmpfs"]
      BY <3>0, <3>1 DEF Leaked
    <3>2. CASE Busy(mounts, "export") /\ mounts["export"] # <<>>
      <4>1. 1 \in 1..Len(mounts["export"])
        BY <1>e, <3>2
      <4>2. mounts["export"][1].pins # {} /\ mounts["export"][1].pins \subseteq PinKinds
        BY <1>0, <3>2, <4>1, MountRecord DEF Busy
      <4>3. mounts["export"][1].pins \cap {"late"} = {} /\ mounts["export"][1].pins \cap {"cache"} = {}
              /\ mounts["export"][1].pins \cap {"pend"} = {}
        BY <3>0, <4>1 DEF Exported, Free
      <4>4. "leak" \in mounts["export"][1].pins
        BY <4>2, <4>3 DEF PinKinds
      <4>5. \A i \in 1..Len(mounts["export"]) : i = 1 \/ i > 1
        BY <1>e
      <4> QED
        BY <3>0, <4>4, <4>5 DEF Leaked
    <3> QED
      BY <1>3, <3>1, <3>2
  <2>3. Free(mounts', "export", {"late"}) /\ (cache = {} => Free(mounts', "export", {"cache"}))
    BY <2>1 DEF Exported
  <2>4. Reliable({"exports", "nfsd"}) => Leaked'
    BY <2>1, <2>2 DEF Leaked
  <2> QED
    BY <2>3, <2>4 DEF Exported
<1> QED
  BY <1>1, <1>2, <1>3

\* xfs_teardown() takes down what the flags know of, in its order.
LEMMA TeardownClean ==
    ASSUME IInv, IInv', OrderInv', FreshInv, CleanInv, NEW s \in Suites, Put(s) \/ Teardown(s)
    PROVE  CleanInv'
<1> USE DEF locals, kernel
<1>0. /\ TypeOK /\ pc \in [Suites -> Labels] /\ mounts \in MountMap /\ mounts' \in MountMap
      /\ env \in [EnvFlags -> BOOLEAN] /\ tries \in [Suites -> 0..MaxTries] /\ Alone
      /\ Known /\ Tracked /\ Covered /\ Exported /\ CleanAt(s)
  BY DEF IInv, TypeOK, MountMap, FreshInv, CleanInv, Known
<1>m. {"export", "nfsdfs", "client", "scratch", "hostbin"} = MountPoints
  BY DEF MountPoints
<1>n. EnvFlags = {"tmpfs", "nfsdfs", "nfsd", "client"}
  BY DEF EnvFlags
<1>p. pc[s] \in TeardownLabels \cup {"put"} /\ pc[s] \notin Rest
  <2>1. pc[s] \in TeardownLabels \cup {"put"}
    BY DEF Put, Teardown, TdHostbin, TdScratch, TdClient, TdNfsd, TdNfsdfs, TdTmpfs,
           PlainUmount, TdEnd, TeardownLabels
  <2> QED
    BY <2>1 DEF Rest, TeardownLabels
<1>c. Clear(pc[s]) /\ (Flushed(s) => Free(mounts, "export", {"pend"})) /\ (tries[s] # 0 => Retrying(s))
  BY <1>0, <1>p DEF CleanAt
<1>f. ASSUME NEW l \in TeardownLabels, Goto(s, l), \A t \in Suites \ {s} : tries'[t] = tries[t],
             Known', Clear(l)',
             l \in {"td_hostbin", "td_end"} \/ (l = "td_scratch" /\ tries'[s] = 0)
               \/ Free(mounts', "export", {"pend"}),
             tries'[s] = 0 \/ l = "td_scratch" \/ (l = "td_hostbin" /\ hostbin')
               \/ (l = "td_client" /\ env'["client"])
      PROVE  CleanInv'
  <2>1. pc'[s] = l
    BY <1>0, <1>f DEF Goto
  <2>2. l \notin Rest
    BY DEF Rest, TeardownLabels
  <2>3. Flushed(s)' => Free(mounts', "export", {"pend"})
    BY <1>f, <2>1 DEF Flushed
  <2>4. tries'[s] # 0 => Retrying(s)'
    BY <1>f, <2>1 DEF Retrying
  <2>5. CleanAt(s)'
    BY <1>f, <2>1, <2>3, <2>4 DEF CleanAt
  <2> QED
    BY <1>0, <1>f, <1>p, <2>2, <2>5, CleanFrame
<1>u. UNCHANGED pc => Goto(s, pc[s])
  BY <1>0 DEF Goto
<1>t. tries' = [tries EXCEPT ![s] = 0] => tries'[s] = 0 /\ \A t \in Suites \ {s} : tries'[t] = tries[t]
  BY <1>0
<1>k. ASSUME UNCHANGED <<env, hostbin, mounts, dirs, nfsd, cache>>
      PROVE  Known'
  <2>1. \A q \in MountPoints : Eased(mounts, mounts', q)
    BY <1>k, EasedSame
  <2> QED
    BY <1>0, <1>k, <2>1, KnownEased
\* An attempt that finds the mount busy only flushes the delayed fputs.
<1>a. ASSUME NEW mp \in MountPoints, SettleAgain(s, mp),
             UNCHANGED <<pc, env, root, hostbin, dirs, nfsd, cache>>,
             \/ pc[s] = "td_scratch"
             \/ pc[s] = "td_hostbin" /\ hostbin
             \/ pc[s] = "td_client" /\ env["client"]
      PROVE  CleanInv'
  <2>1. \A q \in MountPoints : Eased(mounts, mounts', q) /\ Free(mounts', q, {"pend"})
    BY <1>0, <1>a, SettleEased
  <2>2. Known'
    BY <1>0, <1>a, <2>1, KnownEased
  <2>3. tries' = [tries EXCEPT ![s] = @ + 1]
    BY <1>a DEF SettleAgain
  <2>4. PICK l : l = pc[s]
    OBVIOUS
  <2>5. l \in TeardownLabels /\ l \notin Rest
    BY <1>a, <2>4 DEF TeardownLabels, Rest
  <2>6. Clear(l)'
    BY <1>a, <1>c, <2>4, <2>5 DEF Clear
  <2>7. Free(mounts', "export", {"pend"})
    BY <1>m, <2>1
  <2>8. Goto(s, l) /\ \A t \in Suites \ {s} : tries'[t] = tries[t]
    BY <1>0, <1>a, <1>u, <2>3, <2>4
  <2> QED
    BY <1>a, <1>f, <2>2, <2>4, <2>5, <2>6, <2>7, <2>8
<1>1. CASE Put(s)
  <2>1. pc[s] = "put" /\ Goto(s, "td_hostbin") /\ UNCHANGED <<env, root, hostbin, tries, kernel>>
    BY <1>0, <1>1, NeverShared DEF Put
  <2>2. env["nfsd"]
    BY <1>n, <2>1 DEF IInv, MountedWhileHeld, Holders
  <2>3. Clear("td_hostbin")'
    BY <2>1, <2>2 DEF Clear, Using, CaseLabels, TeardownLabels, Rest
  <2>4. tries'[s] = 0
    BY <1>c, <2>1 DEF Retrying
  <2> QED
    BY <1>f, <1>k, <2>1, <2>3, <2>4 DEF TeardownLabels
<1>2. CASE TdHostbin(s)
  <2>0. pc[s] = "td_hostbin" /\ UNCHANGED <<env, root, nfsd, cache>>
    BY <1>2 DEF TdHostbin
  <2>1. CASE hostbin /\ SettleAgain(s, "hostbin") /\ UNCHANGED <<pc, hostbin, dirs>>
    BY <1>a, <1>m, <2>0, <2>1
  <2>2. CASE /\ hostbin /\ Settled(s, "hostbin")
             /\ hostbin' = FALSE
             /\ dirs' = IF mounts'["hostbin"] = <<>> THEN dirs \ {"hostbin"} ELSE dirs
             /\ Goto(s, "td_scratch")
    <3>1. Len(mounts["hostbin"]) = 1
      BY <1>0, <2>2 DEF Tracked
    <3>2. /\ Exported' /\ Free(mounts', "nfsdfs", PinKinds)
          /\ \A q \in MountPoints \ {"hostbin"} :
               Len(mounts'[q]) = Len(mounts[q]) /\ (mounts'[q] = <<>> <=> mounts[q] = <<>>)
          /\ mounts'["hostbin"] = <<>> /\ Len(mounts'["hostbin"]) = 0
      BY <1>0, <2>0, <2>2, <3>1, SettledKnown
    <3>3. dirs' = dirs \ {"hostbin"}
      BY <2>2, <3>2
    <3>4. Tracked'
      BY <1>0, <1>m, <2>0, <2>2, <3>2, <3>3 DEF Tracked
    <3>5. Covered'
      BY <1>0, <3>2, <3>3 DEF Covered
    <3>6. Clear("td_scratch")'
      BY <1>c, <2>0, <2>2, <3>3 DEF Clear, Using, CaseLabels, TeardownLabels, Rest
    <3>7. tries' = [tries EXCEPT ![s] = 0]
      BY <2>2 DEF Settled
    <3> QED
      BY <1>f, <1>t, <2>2, <3>2, <3>4, <3>5, <3>6, <3>7 DEF TeardownLabels, Known
  <2>3. CASE ~hostbin /\ Goto(s, "td_scratch") /\ UNCHANGED <<mounts, tries, hostbin, dirs>>
    <3>1. tries'[s] = 0
      BY <1>c, <2>0, <2>3 DEF Retrying
    <3>2. Clear("td_scratch")'
      BY <1>c, <2>0, <2>3 DEF Clear, Using, CaseLabels, TeardownLabels, Rest
    <3> QED
      BY <1>f, <1>k, <2>0, <2>3, <3>1, <3>2 DEF TeardownLabels
  <2> QED
    BY <1>2, <2>1, <2>2, <2>3 DEF TdHostbin, TeardownNext
<1>3. CASE TdScratch(s)
  <2>0. pc[s] = "td_scratch" /\ UNCHANGED <<env, root, hostbin, nfsd, cache>>
    BY <1>3 DEF TdScratch
  <2>d. dirs' = IF pc'[s] # "td_scratch" /\ mounts'["scratch"] = <<>> THEN dirs \ {"scratch"} ELSE dirs
    BY <1>3 DEF TdScratch
  <2>1. CASE SettleAgain(s, "scratch") /\ UNCHANGED pc
    BY <1>a, <1>m, <2>0, <2>1, <2>d
  <2>2. ASSUME NEW l \in {"td_scratch", "td_client"}, Settled(s, "scratch"), Goto(s, l)
        PROVE  CleanInv'
    <3>1. /\ Exported' /\ Free(mounts', "nfsdfs", PinKinds)
          /\ \A q \in MountPoints \ {"scratch"} :
               Len(mounts'[q]) = Len(mounts[q]) /\ (mounts'[q] = <<>> <=> mounts[q] = <<>>)
          /\ mounts["scratch"] = <<>> => mounts'["scratch"] = <<>>
          /\ Free(mounts, "export", {"pend"}) \/ tries[s] # MaxTries =>
               Free(mounts', "export", {"pend"})
      BY <1>0, <2>0, <2>2, SettledKnown
    <3>2. tries' = [tries EXCEPT ![s] = 0] /\ pc'[s] = l
      BY <1>0, <2>2 DEF Settled, Goto
    <3>3. Free(mounts', "export", {"pend"})
      <4>1. tries[s] = MaxTries => Flushed(s)
        BY <2>0, FixtureAssumption DEF Flushed
      <4> QED
        BY <1>c, <3>1, <4>1
    <3>4. /\ l = "td_client" => mounts'["scratch"] = <<>> /\ dirs' = dirs \ {"scratch"}
          /\ l = "td_scratch" => dirs' = dirs
      <4>1. l = "td_client" => Len(mounts'["scratch"]) = 0
        BY <3>2 DEF OrderInv, Place, Depth
      <4>2. l = "td_client" => mounts'["scratch"] = <<>>
        BY <1>0, <1>m, <4>1, EmptyStack
      <4> QED
        BY <2>d, <3>2, <4>2
    <3>5. Tracked'
      BY <1>0, <1>m, <2>0, <3>1, <3>4 DEF Tracked
    <3>6. Covered'
      BY <1>0, <3>1, <3>4 DEF Covered
    <3>7. Clear(l)'
      BY <1>c, <2>0, <3>4 DEF Clear, Using, CaseLabels, TeardownLabels, Rest
    <3> QED
      BY <1>f, <1>t, <2>2, <3>1, <3>2, <3>3, <3>5, <3>6, <3>7 DEF TeardownLabels, Known
  <2>3. UNCHANGED pc => Goto(s, "td_scratch")
    BY <1>u, <2>0
  <2> QED
    BY <1>3, <2>1, <2>2, <2>3 DEF TdScratch, ScratchSweep, TeardownNext
<1>4. CASE TdClient(s)
  <2>0. /\ pc[s] = "td_client" /\ UNCHANGED <<root, hostbin, dirs, nfsd, cache>>
        /\ Free(mounts, "export", {"pend"})
    BY <1>4, <1>c DEF TdClient, Flushed
  <2>1. CASE env["client"] /\ SettleAgain(s, "client") /\ UNCHANGED <<pc, env>>
    BY <1>a, <1>m, <2>0, <2>1
  <2>2. CASE /\ env["client"] /\ Settled(s, "client")
             /\ env' = [env EXCEPT !["client"] = FALSE] /\ Goto(s, "td_nfsd")
    <3>0. ~env'["client"] /\ \A f \in EnvFlags \ {"client"} : env'[f] = env[f]
      BY <1>0, <1>n, <2>2
    <3>1. Len(mounts["client"]) = 1
      BY <1>0, <2>2 DEF Tracked
    <3>2. /\ Exported' /\ Free(mounts', "nfsdfs", PinKinds)
          /\ \A q \in MountPoints \ {"client"} :
               Len(mounts'[q]) = Len(mounts[q]) /\ (mounts'[q] = <<>> <=> mounts[q] = <<>>)
          /\ mounts'["client"] = <<>> /\ Len(mounts'["client"]) = 0
          /\ Free(mounts', "export", {"pend"})
      <4>1. env'["tmpfs"] = env["tmpfs"]
        BY <1>n, <3>0
      <4> QED
        BY <1>0, <2>0, <2>2, <3>1, <4>1, SettledKnown
    <3>3. Tracked'
      BY <1>0, <1>m, <1>n, <2>0, <3>0, <3>2 DEF Tracked
    <3>4. Covered'
      BY <1>0, <2>0, <3>2 DEF Covered
    <3>5. Clear("td_nfsd")'
      BY <1>c, <1>n, <2>0, <3>0 DEF Clear, Using, CaseLabels, TeardownLabels, Rest
    <3>6. tries' = [tries EXCEPT ![s] = 0]
      BY <2>2 DEF Settled
    <3> QED
      BY <1>f, <1>t, <2>2, <3>2, <3>3, <3>4, <3>5, <3>6 DEF TeardownLabels, Known
  <2>3. CASE ~env["client"] /\ Goto(s, "td_nfsd") /\ UNCHANGED <<mounts, tries, env>>
    <3>1. tries'[s] = 0
      BY <1>c, <2>0, <2>3 DEF Retrying
    <3>2. Clear("td_nfsd")'
      BY <1>c, <2>0, <2>3 DEF Clear, Using, CaseLabels, TeardownLabels, Rest
    <3> QED
      BY <1>f, <1>k, <2>0, <2>3, <3>1, <3>2 DEF TeardownLabels
  <2> QED
    BY <1>4, <2>1, <2>2, <2>3 DEF TdClient, TeardownNext
<1>5. CASE TdNfsd(s)
  <2>0. /\ pc[s] = "td_nfsd" /\ UNCHANGED <<root, hostbin, dirs, tries>> /\ Goto(s, "td_nfsdfs")
        /\ Free(mounts, "export", {"pend"}) /\ tries'[s] = 0
    BY <1>5, <1>c DEF TdNfsd, Flushed, Retrying, TeardownNext
  <2>1. CASE /\ env["nfsd"] /\ nfsd' = NfsdDown /\ cache' = {} /\ mounts' = Uncached(mounts)
             /\ env' = [env EXCEPT !["nfsd"] = FALSE]
    <3>0. ~env'["nfsd"] /\ \A f \in EnvFlags \ {"nfsd"} : env'[f] = env[f]
      BY <1>0, <1>n, <2>1
    <3>1. (\A q \in MountPoints : Eased(mounts, mounts', q)) /\ Free(mounts', "export", {"cache"})
      BY <1>0, <2>1, UncachedEased
    <3>2. /\ Free(mounts', "nfsdfs", PinKinds)
          /\ Free(mounts', "export", {"pend"}) /\ Free(mounts', "export", {"late"})
      BY <1>0, <1>m, <2>0, <3>1, EasedSame DEF Tracked, Exported
    <3>3. Eased(mounts, mounts', "export")
      BY <1>m, <3>1
    <3>4. Exported'
      <4>1. Leaked => Leaked'
        BY <1>n, <3>0, <3>3 DEF Leaked, Eased, Lighter
      <4> QED
        BY <1>0, <3>1, <3>2, <4>1 DEF Exported
    <3>5. \A q \in MountPoints : Len(mounts'[q]) = Len(mounts[q]) /\ (mounts'[q] = <<>> <=> mounts[q] = <<>>)
      <4>1. \A q \in MountPoints : Len(mounts'[q]) = Len(mounts[q])
        BY <3>1 DEF Eased
      <4> QED
        BY <1>0, <4>1, EmptyStack
    <3>6. Tracked'
      BY <1>0, <1>m, <1>n, <2>0, <2>1, <3>0, <3>2, <3>5 DEF Tracked, NfsdDown
    <3>7. Covered'
      BY <1>0, <2>0, <3>5 DEF Covered
    <3>8. Clear("td_nfsdfs")'
      BY <1>c, <1>n, <2>0, <2>1, <3>0 DEF Clear, Using, CaseLabels, TeardownLabels, Rest
    <3> QED
      BY <1>f, <2>0, <3>2, <3>4, <3>6, <3>7, <3>8 DEF TeardownLabels, Known
  <2>2. CASE ~env["nfsd"] /\ UNCHANGED <<nfsd, cache, mounts, env>>
    <3>1. Clear("td_nfsdfs")'
      BY <1>c, <2>0, <2>2 DEF Clear, Using, CaseLabels, TeardownLabels, Rest
    <3> QED
      BY <1>f, <1>k, <2>0, <2>2, <3>1 DEF TeardownLabels
  <2> QED
    BY <1>5, <2>1, <2>2 DEF TdNfsd
<1>6. CASE TdNfsdfs(s)
  <2>0. /\ pc[s] = "td_nfsdfs" /\ UNCHANGED <<root, hostbin, dirs, tries, nfsd, cache>>
        /\ mounts' = IF env["nfsdfs"] /\ ~Busy(mounts, "nfsdfs") THEN Pop(mounts, "nfsdfs") ELSE mounts
        /\ env' = [env EXCEPT !["nfsdfs"] = FALSE]
        /\ Goto(s, "td_tmpfs")
    BY <1>6 DEF TdNfsdfs, PlainUmount, TeardownNext
  <2>1. Free(mounts, "export", {"pend"}) /\ tries'[s] = 0
    BY <1>c, <2>0 DEF Flushed, Retrying
  <2>2. ~env'["nfsdfs"] /\ \A f \in EnvFlags \ {"nfsdfs"} : env'[f] = env[f]
    BY <1>0, <1>n, <2>0
  <2>3. ~Busy(mounts, "nfsdfs")
    <3>1. ASSUME mounts["nfsdfs"] # <<>>
          PROVE  mounts["nfsdfs"][1].pins = {}
      <4>1. 1 \in 1..Len(mounts["nfsdfs"])
        BY <1>0, <1>m, <3>1, EmptyStack
      <4>2. mounts["nfsdfs"][1].pins \subseteq PinKinds
        BY <1>0, <1>m, <4>1, MountRecord
      <4> QED
        BY <1>0, <4>1, <4>2 DEF Tracked, Free
    <3> QED
      BY <3>1 DEF Busy
  <2>4. /\ Len(mounts'["nfsdfs"]) = 0
        /\ \A q \in MountPoints \ {"nfsdfs"} : mounts'[q] = mounts[q]
    <3>1. /\ \A q \in MountPoints \ {"nfsdfs"} : Pop(mounts, "nfsdfs")[q] = mounts[q]
          /\ Len(Pop(mounts, "nfsdfs")["nfsdfs"])
               = IF mounts["nfsdfs"] = <<>> THEN 0 ELSE Len(mounts["nfsdfs"]) - 1
      BY <1>0, <1>m, PopMap
    <3>2. Len(mounts["nfsdfs"]) = IF env["nfsdfs"] THEN 1 ELSE 0
      BY <1>0 DEF Tracked
    <3>3. CASE env["nfsdfs"]
      BY <2>0, <2>3, <3>1, <3>2, <3>3
    <3>4. CASE ~env["nfsdfs"]
      BY <2>0, <3>2, <3>4
    <3> QED
      BY <3>3, <3>4
  <2>5. mounts'["nfsdfs"] = <<>>
    BY <1>0, <1>m, <2>4, EmptyStack
  <2>6. Tracked'
    BY <1>0, <1>m, <1>n, <2>0, <2>2, <2>4 DEF Tracked, Free
  <2>7. Covered'
    BY <1>0, <2>0, <2>4, <2>5 DEF Covered
  <2>8. Exported' /\ Free(mounts', "export", {"pend"})
    BY <1>0, <1>m, <1>n, <2>0, <2>1, <2>2, <2>4 DEF Exported, Leaked, Free
  <2>9. Clear("td_tmpfs")'
    BY <1>c, <1>n, <2>0, <2>2 DEF Clear, Using, CaseLabels, TeardownLabels, Rest
  <2> QED
    BY <1>f, <2>0, <2>1, <2>6, <2>7, <2>8, <2>9 DEF TeardownLabels, Known
<1>7. CASE TdTmpfs(s)
  <2>0. /\ pc[s] = "td_tmpfs" /\ UNCHANGED <<root, hostbin, dirs, tries, nfsd, cache>>
        /\ mounts' = IF env["tmpfs"] /\ ~Busy(mounts, "export") THEN Pop(mounts, "export") ELSE mounts
        /\ env' = [env EXCEPT !["tmpfs"] = FALSE]
        /\ Goto(s, "td_end")
    BY <1>7 DEF TdTmpfs, PlainUmount, TeardownNext
  <2>1. Free(mounts, "export", {"pend"}) /\ tries'[s] = 0
    BY <1>c, <2>0 DEF Flushed, Retrying
  <2>2. ~env'["tmpfs"] /\ \A f \in EnvFlags \ {"tmpfs"} : env'[f] = env[f]
    BY <1>0, <1>n, <2>0
  <2>3. Reliable({"exports", "nfsd"}) => cache = {}
    BY <1>c, <2>0 DEF Clear, Using, CaseLabels
  <2>4. Exported'
    BY <1>0, <2>0, <2>1, <2>3, ExportPopped
  <2>5. \A q \in MountPoints \ {"export"} : mounts'[q] = mounts[q]
    <3>1. \A q \in MountPoints \ {"export"} : Pop(mounts, "export")[q] = mounts[q]
      BY <1>0, <1>m, PopMap
    <3>2. mounts' = mounts \/ mounts' = Pop(mounts, "export")
      BY <2>0
    <3> QED
      BY <3>1, <3>2
  <2>6. mounts["export"] = <<>> => mounts'["export"] = <<>>
    BY <1>0, <2>0 DEF Pop, MountMap
  <2>7. Tracked'
    BY <1>0, <1>m, <1>n, <2>0, <2>2, <2>5 DEF Tracked, Free
  <2>8. Covered'
    BY <1>0, <2>0, <2>5, <2>6 DEF Covered
  <2>9. Clear("td_end")'
    BY <1>c, <1>n, <2>0, <2>2 DEF Clear, Using, CaseLabels, TeardownLabels, Rest
  <2> QED
    BY <1>f, <2>0, <2>1, <2>4, <2>7, <2>8, <2>9 DEF TeardownLabels, Known
<1>8. CASE TdEnd(s)
  <2>0. /\ pc[s] = "td_end" /\ UNCHANGED <<env, hostbin, tries, mounts, nfsd, cache>>
        /\ dirs' = {mp \in dirs : mp \in {"export", "client", "nfsdfs"} => mounts[mp] # <<>>}
        /\ root' = NoSuite
    BY <1>8 DEF TdEnd
  <2>1. PICK l \in {"done", "failed"} : Goto(s, l)
    BY <1>8 DEF TdEnd
  <2>2. /\ pc'[s] = l
        /\ \A t \in Suites \ {s} : pc'[t] = pc[t] /\ pc[t] \in Rest
    BY <1>0, <1>p, <2>1, AloneStep
  <2>3. Clear("td_end")
    BY <1>c, <2>0
  <2>4. ~hostbin /\ "scratch" \notin dirs /\ (Reliable({"hostbin"}) => "hostbin" \notin dirs)
    BY <1>0, <2>3 DEF Clear, Using, CaseLabels, Tracked
  <2>5. dirs \subseteq MountPoints
    BY <1>0 DEF TypeOK
  <2>6. \A mp \in dirs' : mounts'[mp] # <<>> \/ (mp = "hostbin" /\ ~Reliable({"hostbin"}))
    BY <1>m, <2>0, <2>4, <2>5
  <2>7. dirs' \subseteq dirs /\ \A mp \in dirs : mounts[mp] # <<>> => mp \in dirs'
    BY <2>0
  <2>8. Clear("done")'
    BY <2>0, <2>3, <2>6, <2>7 DEF Clear, Using, CaseLabels, TeardownLabels, Rest
  <2>9. Tracked'
    BY <1>0, <2>0, <2>4, <2>7 DEF Tracked
  <2>10. Covered' /\ Exported'
    BY <1>0, <2>0, <2>7 DEF Covered, Exported, Leaked
  <2>11. ASSUME NEW t \in Suites
         PROVE  CleanAt(t)'
    <3>1. pc'[t] \in Rest /\ ~Retrying(t)
      BY <2>0, <2>2 DEF Retrying, Rest
    <3>2. tries'[t] = 0
      BY <2>0, <3>1 DEF CleanInv, CleanAt
    <3> QED
      BY <3>1, <3>2 DEF CleanAt, Flushed, Rest
  <2> QED
    BY <2>8, <2>9, <2>10, <2>11 DEF CleanInv, Known
<1> QED
  BY <1>1, <1>2, <1>3, <1>4, <1>5, <1>6, <1>7, <1>8 DEF Teardown

\* What is left behind is known after every step.
LEMMA CleanStep ==
    ASSUME IInv, IInv', OrderInv', FreshInv, CleanInv, ~Overlap, [Next]_vars
    PROVE  CleanInv'
<1>1. CASE UNCHANGED vars
  BY <1>1 DEF CleanInv, Known, Tracked, Covered, Exported, Leaked, Quiet, Clear, CleanAt, Flushed, Retrying,
              vars, locals, kernel
<1>2. ASSUME NEW s \in Suites, Get(s)
      PROVE  CleanInv'
  BY <1>2, BringupClean
<1>3. ASSUME NEW s \in Suites, Case(s) \/ CaseLoop(s) \/ SuiteExit(s)
      PROVE  CleanInv'
  BY <1>3, CaseClean DEF FreshInv
<1>4. ASSUME NEW s \in Suites, Put(s) \/ Teardown(s)
      PROVE  CleanInv'
  BY <1>4, TeardownClean
<1>5. CASE Async
  BY <1>5, AsyncClean
<1>6. CASE Finished
  BY <1>1, <1>6 DEF Finished
<1> QED
  BY <1>1, <1>2, <1>3, <1>4, <1>5, <1>6 DEF Next

\* The flags always know what is there, up to what a failing step left half
\* done.
THEOREM CleanInvariance == ~Overlap => (Spec => []CleanInv)
<1> SUFFICES ASSUME ~Overlap PROVE Spec => []CleanInv
  OBVIOUS
<1>1. Init => CleanInv
  <2> SUFFICES ASSUME Init PROVE CleanInv
    OBVIOUS
  <2>1. \A mp \in MountPoints : mounts[mp] = <<>> /\ Len(mounts[mp]) = 0
    BY EmptySeq DEF Init
  <2>2. \A f \in EnvFlags : env[f] = FALSE
    BY DEF Init, EnvDown
  <2>3. Tracked
    BY <2>1, <2>2 DEF Init, Tracked, Free, MountPoints, EnvFlags, NfsdDown
  <2>4. Covered /\ Exported
    BY <2>1 DEF Covered, Exported, Leaked, Free, MountPoints
  <2>5. Clear("done")
    BY <2>2 DEF Init, Clear, EnvFlags, Using, CaseLabels, TeardownLabels, Rest
  <2>6. \A s \in Suites : CleanAt(s)
    BY DEF Init, CleanAt, Flushed, Rest
  <2> QED
    BY <2>3, <2>4, <2>5, <2>6 DEF CleanInv, Known
<1>2. IInv /\ IInv' /\ OrderInv' /\ FreshInv /\ CleanInv /\ [Next]_vars => CleanInv'
  BY CleanStep
<1>3. Spec => []IInv
  BY Invariance
<1>4. Spec => [](IInv /\ OrderInv)
  BY OrderInvariance
<1>5. Spec => []FreshInv
  BY FreshInvariance
<1> QED
  BY <1>1, <1>2, <1>3, <1>4, <1>5, PTL DEF Spec

\* What is left when nobody uses or works on the deployment, whatever failed.
LEMMA AtRest ==
    ASSUME IInv, FreshInv, CleanInv, Quiet
    PROVE  /\ env = EnvDown /\ ~hostbin /\ opts = NoSuite /\ root = NoSuite
           /\ ~nfsd.threads /\ nfsd.socks \subseteq {"udp"}
           /\ \A mp \in MountPoints \ {"export"} : mounts[mp] = <<>>
           /\ dirs \ {"hostbin"} = {mp \in MountPoints : mounts[mp] # <<>>}
<1>0. /\ mounts \in MountMap /\ env \in [EnvFlags -> BOOLEAN] /\ dirs \subseteq MountPoints
      /\ Clear("done") /\ Tracked /\ Covered /\ opts = NoSuite
  BY DEF IInv, TypeOK, MountMap, CleanInv, Known, FreshInv
<1>1. /\ ~hostbin /\ "scratch" \notin dirs /\ root = NoSuite
      /\ ~env["client"] /\ ~env["nfsd"] /\ ~env["nfsdfs"] /\ ~env["tmpfs"]
      /\ \A mp \in dirs : mounts[mp] # <<>> \/ mp = "hostbin"
  BY <1>0 DEF Clear, Using, CaseLabels, TeardownLabels, Rest
<1>2. env = EnvDown
  BY <1>0, <1>1 DEF EnvDown, EnvFlags
<1>3. ~nfsd.threads /\ nfsd.socks \subseteq {"udp"}
  BY <1>0, <1>1 DEF Tracked
<1>4. \A mp \in {"nfsdfs", "client", "hostbin"} : mounts[mp] = <<>>
  <2>1. \A mp \in {"nfsdfs", "client", "hostbin"} : mp \in MountPoints /\ Len(mounts[mp]) = 0
    BY <1>0, <1>1 DEF Tracked, MountPoints
  <2> QED
    BY <1>0, <2>1, EmptyStack
<1>5. mounts["scratch"] = <<>>
  BY <1>0, <1>1 DEF Covered, MountPoints
<1>6. \A mp \in MountPoints \ {"export"} : mounts[mp] = <<>>
  BY <1>4, <1>5 DEF MountPoints
<1>7. dirs \ {"hostbin"} = {mp \in MountPoints : mounts[mp] # <<>>}
  BY <1>0, <1>1, <1>4 DEF Covered
<1> QED
  BY <1>0, <1>1, <1>2, <1>3, <1>6, <1>7

\* Between suites that run one after another nothing of a deployment is left
\* except exports that a leaked file pins, whatever bring-up steps fail
\* (writing the export tables, starting nfsd and mounting the programs'
\* filesystem excepted, whose partial effects xfs_teardown() does not know
\* of), however often a settling loop has to retry or detach, and whatever
\* the cases leave open.
THEOREM AlwaysClean ==
    ~Overlap /\ FailAt \cap {"exports", "nfsd", "hostbin"} = {} => (Spec => []CleanBetweenSuites)
<1> SUFFICES ASSUME ~Overlap, FailAt \cap {"exports", "nfsd", "hostbin"} = {}
             PROVE  Spec => []CleanBetweenSuites
  OBVIOUS
<1>0. Reliable({"exports", "nfsd"}) /\ Reliable({"nfsd"}) /\ Reliable({"hostbin"})
  BY DEF Reliable
<1>1. ASSUME IInv, FreshInv, CleanInv, Quiet
      PROVE  CleanBetweenSuites
  <2>0. Clear("done") /\ Tracked /\ Exported
    BY <1>1 DEF CleanInv, Known
  <2>1. /\ env = EnvDown /\ ~hostbin /\ opts = NoSuite /\ root = NoSuite
        /\ \A mp \in MountPoints \ {"export"} : mounts[mp] = <<>>
        /\ dirs \ {"hostbin"} = {mp \in MountPoints : mounts[mp] # <<>>}
    BY <1>1, AtRest
  <2>2. ~env["nfsd"] /\ ~env["tmpfs"]
    BY <2>1 DEF EnvDown, EnvFlags
  <2>3. nfsd = NfsdDown /\ "hostbin" \notin dirs
    BY <1>0, <2>0, <2>1, <2>2 DEF Tracked
  <2>4. cache = {}
    BY <1>0, <2>0, <2>2 DEF Clear, Rest
  <2>5. ASSUME NEW mp \in MountPoints, NEW i \in 1..Len(mounts[mp])
        PROVE  mp = "export" /\ "leak" \in mounts[mp][i].pins
    <3>1. mp = "export"
      BY <2>1, <2>5, EmptySeq
    <3> QED
      BY <1>0, <2>0, <2>2, <2>5, <3>1 DEF Exported, Leaked
  <2> QED
    BY <2>1, <2>3, <2>4, <2>5 DEF CleanBetweenSuites
<1>2. IInv /\ FreshInv /\ CleanInv => CleanBetweenSuites
  BY <1>1 DEF CleanBetweenSuites
<1>3. Spec => []CleanInv
  BY CleanInvariance
<1>4. Spec => []FreshInv
  BY FreshInvariance
<1> QED
  BY <1>2, <1>3, <1>4, Invariance, PTL

-----------------------------------------------------------------------------
(***************************************************************************)
(* How much can be left, whatever steps fail.                              *)
(***************************************************************************)

\* No two exports are from the same bring-up, and each is from one that came
\* so far.
Exporting == {"idle", "get", "lo", "mkdirs", "tmpfs"}
Apart == \A i, j \in 1..Len(mounts["export"]) :
    mounts["export"][i].by = mounts["export"][j].by => i = j
Made == \A i \in 1..Len(mounts["export"]) : pc[mounts["export"][i].by] \notin Exporting

\* A suite that has mounted its export does not do so again.
LEMMA NoReturn ==
    ASSUME TypeOK, [Next]_vars
    PROVE  \A s \in Suites : pc[s] \notin Exporting => pc'[s] \notin Exporting
<1> USE DEF locals, kernel
<1>0. pc \in [Suites -> Labels]
  BY DEF TypeOK
<1>f. ASSUME NEW s \in Suites, NEW l, Goto(s, l), pc[s] \in Exporting \/ l \notin Exporting
      PROVE  \A t \in Suites : pc[t] \notin Exporting => pc'[t] \notin Exporting
  BY <1>0, <1>f DEF Goto
<1>1. CASE UNCHANGED pc
  BY <1>1
<1>2. ASSUME NEW s \in Suites, Get(s)
      PROVE  \A t \in Suites : pc[t] \notin Exporting => pc'[t] \notin Exporting
  <2>1. CASE SuiteInit(s) \/ GetJoin(s) \/ GetFirst(s) \/ LoopbackUp(s) \/ MakeDirs(s) \/ MountTmpfs(s)
    <3>1. pc[s] \in Exporting /\ \E l : Goto(s, l)
      BY <2>1 DEF SuiteInit, GetJoin, GetFirst, LoopbackUp, MakeDirs, MountTmpfs, MountStep, GiveUp,
                  Exporting
    <3> QED
      BY <1>f, <3>1
  <2>2. CASE MountNfsdfs(s) \/ ConfigureExports(s) \/ StartNfsd(s) \/ MountClient(s) \/ CaptureRoot(s)
    <3>1. \E l \in {"exports", "nfsd", "client", "root", "cases", "td_hostbin"} : Goto(s, l)
      BY <2>2 DEF MountNfsdfs, ConfigureExports, StartNfsd, MountClient, MountStep, CaptureRoot, GiveUp
    <3> QED
      BY <1>f, <3>1 DEF Exporting
  <2> QED
    BY <1>2, <2>1, <2>2 DEF Get
<1>3. ASSUME NEW s \in Suites, Case(s) \/ CaseLoop(s) \/ SuiteExit(s)
      PROVE  \A t \in Suites : pc[t] \notin Exporting => pc'[t] \notin Exporting
  <2>1. UNCHANGED pc \/ \E l \in Using : Goto(s, l)
    BY <1>3 DEF Case, CaseTouch, ScratchMount, HostbinMount, RemountRW, CaseCall, CaseLoop,
                ScratchUmount, ScratchSweep, RemountRO, SuiteExit, CaseLabels, Using
  <2> QED
    BY <1>1, <1>f, <2>1 DEF Using, CaseLabels, Exporting
<1>4. ASSUME NEW s \in Suites, Put(s) \/ Teardown(s)
      PROVE  \A t \in Suites : pc[t] \notin Exporting => pc'[t] \notin Exporting
  <2>1. UNCHANGED pc \/ \E l \in TeardownLabels \cup {"done", "failed"} : Goto(s, l)
    <3>1. CASE Put(s) \/ TdEnd(s)
      BY <3>1 DEF Put, TdEnd, TeardownLabels
    <3>2. CASE Teardown(s) /\ ~TdEnd(s)
      BY <3>2 DEF Teardown, TdHostbin, TdScratch, ScratchSweep, TdClient, TdNfsd, TdNfsdfs,
                  TdTmpfs, PlainUmount, TeardownNext, TeardownLabels
    <3> QED
      BY <1>4, <3>1, <3>2
  <2> QED
    BY <1>1, <1>f, <2>1 DEF TeardownLabels, Exporting
<1>5. CASE Async \/ Finished \/ UNCHANGED vars
  BY <1>1, <1>5 DEF Async, DelayedFput, LateDone, Finished, vars
<1> QED
  BY <1>2, <1>3, <1>4, <1>5 DEF Next

\* The same exports, by their makers.
SameMakers(m, n) ==
    /\ Len(n["export"]) = Len(m["export"])
    /\ \A i \in 1..Len(m["export"]) : n["export"][i].by = m["export"][i].by

\* What a step does to the stack of exports: bring-up puts its own on top,
\* teardown may take the top off, and nothing else changes who is there.
LEMMA MakersStep ==
    ASSUME IInv, [Next]_vars
    PROVE  \/ SameMakers(mounts, mounts')
           \/ mounts["export"] # <<>> /\ mounts' = Pop(mounts, "export")
           \/ \E s \in Suites : /\ pc[s] = "tmpfs" /\ pc'[s] = "nfsdfs"
                                /\ mounts' = Push(mounts, "export", s)
<1> USE DEF locals, kernel
<1>0. /\ TypeOK /\ pc \in [Suites -> Labels] /\ mounts \in MountMap /\ "export" \in MountPoints
      /\ opts \in Suites \cup {NoSuite}
  BY DEF IInv, TypeOK, MountMap, MountPoints
<1>s. mounts'["export"] = mounts["export"] \/ Eased(mounts, mounts', "export")
        \/ Touched(mounts, mounts', "export") => SameMakers(mounts, mounts')
  BY DEF SameMakers, Eased, Touched, Lighter
<1>1. CASE UNCHANGED vars \/ Finished
  BY <1>1, <1>s DEF vars, Finished
<1>2. CASE Async
  BY <1>0, <1>2, <1>s, AsyncEased
<1>3. ASSUME NEW s \in Suites, Case(s) \/ CaseLoop(s) \/ SuiteExit(s)
      PROVE  SameMakers(mounts, mounts')
  BY <1>3, <1>s, CaseTouched DEF Deployed
<1>4. ASSUME NEW s \in Suites, Get(s)
      PROVE  \/ SameMakers(mounts, mounts')
             \/ /\ pc[s] = "tmpfs" /\ pc'[s] = "nfsdfs"
                /\ mounts' = Push(mounts, "export", s)
  <2>1. CASE SuiteInit(s) \/ GetJoin(s) \/ GetFirst(s) \/ LoopbackUp(s) \/ MakeDirs(s) \/ StartNfsd(s)
               \/ CaptureRoot(s)
    BY <1>s, <2>1 DEF SuiteInit, GetJoin, GetFirst, LoopbackUp, MakeDirs, StartNfsd, CaptureRoot
  <2>2. CASE MountTmpfs(s)
    BY <1>0, <1>s, <2>2 DEF MountTmpfs, MountStep, Goto
  <2>3. ASSUME NEW mp \in {"nfsdfs", "client"}, mounts' = mounts \/ mounts' = Push(mounts, mp, s)
        PROVE  SameMakers(mounts, mounts')
    <3>1. Push(mounts, mp, s)["export"] = mounts["export"]
      <4>1. mp \in MountPoints /\ "export" \in MountPoints \ {mp}
        BY DEF MountPoints
      <4> QED
        BY <1>0, <4>1, PushMap
    <3> QED
      BY <1>s, <2>3, <3>1
  <2>4. CASE MountNfsdfs(s) \/ MountClient(s)
    BY <2>3, <2>4 DEF MountNfsdfs, MountClient, MountStep
  <2>5. CASE ConfigureExports(s)
    <3>1. \E n \in 0..3 : Feed(n)
      BY <2>5 DEF ConfigureExports
    <3>2. PICK P : mounts' = mounts \/ mounts' = Repin(mounts, "export", 1, P)
      BY <3>1 DEF Feed
    <3>3. 1 \in 1..Len(mounts["export"])
      BY <1>0, <2>5, EmptyStack DEF IInv, StageInv, Stage, ConfigureExports
    <3>4. mounts["export"][1] \in Mounts
      BY <1>0, <3>3, MountRecord
    <3>5. CASE mounts' = Repin(mounts, "export", 1, P)
      <4>1. /\ Len(mounts'["export"]) = Len(mounts["export"])
            /\ \A j \in 1..Len(mounts["export"]) : mounts'["export"][j]
                 = IF j = 1 THEN [mounts["export"][1] EXCEPT !.pins = P] ELSE mounts["export"][j]
        BY <1>0, <3>3, <3>5, RepinOne
      <4> QED
        BY <3>4, <4>1 DEF SameMakers, Mounts
    <3> QED
      BY <1>s, <3>2, <3>5
  <2> QED
    BY <1>4, <2>1, <2>2, <2>4, <2>5 DEF Get
<1>5. ASSUME NEW s \in Suites, Put(s) \/ Teardown(s)
      PROVE  \/ SameMakers(mounts, mounts')
             \/ mounts["export"] # <<>> /\ mounts' = Pop(mounts, "export")
  <2>1. CASE Put(s) \/ TdEnd(s)
    BY <1>s, <2>1 DEF Put, TdEnd
  <2>2. ASSUME NEW mp \in {"hostbin", "scratch", "client"}, SettleAgain(s, mp) \/ Settled(s, mp)
        PROVE  SameMakers(mounts, mounts')
    <3>1. mp \in MountPoints /\ "export" \in MountPoints \ {mp}
      BY DEF MountPoints
    <3> QED
      BY <1>0, <1>s, <2>2, <3>1, SettleEased
  <2>3. CASE TdHostbin(s) \/ TdScratch(s) \/ TdClient(s)
    <3>1. mounts' = mounts \/ \E mp \in {"hostbin", "scratch", "client"} :
                                SettleAgain(s, mp) \/ Settled(s, mp)
      BY <2>3 DEF TdHostbin, TdScratch, TdClient, ScratchSweep
    <3> QED
      BY <1>s, <2>2, <3>1
  <2>4. CASE TdNfsd(s)
    BY <1>0, <1>s, <2>4, UncachedEased DEF TdNfsd
  <2>5. CASE TdNfsdfs(s)
    <3>1. Pop(mounts, "nfsdfs")["export"] = mounts["export"]
      BY <1>0, PopMap DEF MountPoints
    <3>2. mounts' = mounts \/ mounts' = Pop(mounts, "nfsdfs")
      BY <2>5 DEF TdNfsdfs, PlainUmount
    <3> QED
      BY <1>s, <3>1, <3>2
  <2>6. CASE TdTmpfs(s)
    <3>1. mounts' = mounts \/ mounts' = Pop(mounts, "export")
      BY <2>6 DEF TdTmpfs, PlainUmount
    <3>2. mounts["export"] = <<>> => Pop(mounts, "export")["export"] = mounts["export"]
      BY <1>0 DEF Pop, MountMap
    <3> QED
      BY <1>s, <3>1, <3>2
  <2> QED
    BY <1>5, <2>1, <2>3, <2>4, <2>5, <2>6 DEF Teardown
<1> QED
  BY <1>1, <1>2, <1>3, <1>4, <1>5 DEF Next

\* Every export is from a bring-up of its own, also when suites overlap.
THEOREM ExportsApart == Spec => [](Apart /\ Made)
<1>1. Init => Apart /\ Made
  <2> SUFFICES ASSUME Init PROVE Apart /\ Made
    OBVIOUS
  <2>1. Len(mounts["export"]) = 0
    BY EmptySeq DEF Init, MountPoints
  <2> QED
    BY <2>1 DEF Apart, Made
<1>2. ASSUME IInv, Apart, Made, [Next]_vars
      PROVE  Apart' /\ Made'
  <2>0. /\ TypeOK /\ mounts \in MountMap /\ "export" \in MountPoints /\ opts \in Suites \cup {NoSuite}
        /\ pc \in [Suites -> Labels]
    BY <1>2 DEF IInv, TypeOK, MountMap, MountPoints
  <2>1. \A s \in Suites : pc[s] \notin Exporting => pc'[s] \notin Exporting
    BY <1>2, <2>0, NoReturn
  <2>2. \A i \in 1..Len(mounts["export"]) : mounts["export"][i].by \in Suites
    BY <2>0, MountRecord DEF Mounts
  <2>3. Len(mounts["export"]) \in Nat
    BY <2>0, EmptyStack
  <2>4. CASE SameMakers(mounts, mounts')
    BY <1>2, <2>1, <2>2, <2>4 DEF SameMakers, Apart, Made
  <2>5. CASE mounts["export"] # <<>> /\ mounts' = Pop(mounts, "export")
    <3>1. /\ Len(mounts'["export"]) = Len(mounts["export"]) - 1
          /\ \A i \in 1..(Len(mounts["export"]) - 1) : mounts'["export"][i] = mounts["export"][i + 1]
      BY <2>0, <2>5, PopMap, PopRest
    <3>2. \A i \in 1..Len(mounts'["export"]) : /\ i \in Int /\ i + 1 \in 1..Len(mounts["export"])
                                            /\ mounts'["export"][i] = mounts["export"][i + 1]
      BY <2>3, <3>1
    <3>3. Made'
      BY <1>2, <2>1, <2>2, <3>2 DEF Made
    <3>4. Apart'
      <4> SUFFICES ASSUME NEW i \in 1..Len(mounts'["export"]), NEW j \in 1..Len(mounts'["export"]),
                          mounts'["export"][i].by = mounts'["export"][j].by
                   PROVE  i = j
        BY DEF Apart
      <4>0. /\ i \in Int /\ i + 1 \in 1..Len(mounts["export"])
            /\ j \in Int /\ j + 1 \in 1..Len(mounts["export"])
            /\ mounts'["export"][i].by = mounts["export"][i + 1].by
            /\ mounts'["export"][j].by = mounts["export"][j + 1].by
        BY <3>2
      <4>1. mounts["export"][i + 1].by = mounts["export"][j + 1].by
        BY <4>0
      <4>2. i + 1 = j + 1
        BY <1>2, <4>0, <4>1 DEF Apart
      <4> QED
        BY <4>0, <4>2
    <3> QED
      BY <3>3, <3>4
  <2>6. ASSUME NEW s \in Suites, pc[s] = "tmpfs", pc'[s] = "nfsdfs", mounts' = Push(mounts, "export", s)
        PROVE  Apart' /\ Made'
    <3>1. /\ mounts'["export"][1] = [by |-> s, opts |-> opts, ro |-> FALSE, pins |-> {}]
          /\ \A i \in 2..(Len(mounts["export"]) + 1) : mounts'["export"][i] = mounts["export"][i - 1]
          /\ Len(mounts'["export"]) = Len(mounts["export"]) + 1
      BY <2>0, <2>6, PushTop, PushMap
    <3>2. mounts'["export"][1].by = s
      BY <3>1
    <3>3. \A i \in 1..Len(mounts'["export"]) : i # 1 =>
            /\ i - 1 \in 1..Len(mounts["export"]) /\ i \in Int
            /\ mounts'["export"][i].by = mounts["export"][i - 1].by
      <4> SUFFICES ASSUME NEW i \in 1..Len(mounts'["export"]), i # 1
                   PROVE  /\ i - 1 \in 1..Len(mounts["export"]) /\ i \in Int
                          /\ mounts'["export"][i].by = mounts["export"][i - 1].by
        OBVIOUS
      <4>1. i \in 2..(Len(mounts["export"]) + 1) /\ i - 1 \in 1..Len(mounts["export"])
        BY <2>3, <3>1
      <4> QED
        BY <3>1, <4>1
    <3>4. pc[s] \in Exporting /\ pc'[s] \notin Exporting
      BY <2>6 DEF Exporting
    <3>5. \A i \in 1..Len(mounts["export"]) : mounts["export"][i].by # s
      BY <1>2, <3>4 DEF Made
    <3>6. Made'
      BY <1>2, <2>1, <2>2, <3>2, <3>3, <3>4 DEF Made
    <3>7. Apart'
      <4> SUFFICES ASSUME NEW i \in 1..Len(mounts'["export"]), NEW j \in 1..Len(mounts'["export"]),
                          mounts'["export"][i].by = mounts'["export"][j].by
                   PROVE  i = j
        BY DEF Apart
      <4>1. CASE i = 1 \/ j = 1
        BY <3>2, <3>3, <3>5, <4>1
      <4>2. CASE i # 1 /\ j # 1
        <5>1. i - 1 = j - 1
          BY <1>2, <3>3, <4>2 DEF Apart
        <5> QED
          BY <3>3, <4>2, <5>1
      <4> QED
        BY <4>1, <4>2
    <3> QED
      BY <3>6, <3>7
  <2> QED
    BY <1>2, <2>4, <2>5, <2>6, MakersStep
<1> QED
  BY <1>1, <1>2, Invariance, PTL DEF Spec

\* What the next suite may find, whatever steps of earlier bring-ups failed:
\* a service without threads that listens on UDP at most, the directory for
\* the programs, lines in the export caches, and at most one export of every
\* suite that has ended.
BoundedLoss ==
    Quiet =>
      /\ env = EnvDown /\ ~hostbin /\ opts = NoSuite /\ root = NoSuite
      /\ ~nfsd.threads /\ nfsd.socks \subseteq {"udp"}
      /\ \A mp \in MountPoints \ {"export"} : mounts[mp] = <<>>
      /\ dirs \ {"hostbin"} = {mp \in MountPoints : mounts[mp] # <<>>}
      /\ Len(mounts["export"]) <= Cardinality({s \in Suites : pc[s] \in {"done", "failed"}})

\* Whatever steps fail, what xfs_teardown() does not undo is bounded: failures
\* do not pile up from suite to suite.
THEOREM LossAlwaysBounded == ~Overlap => (Spec => []BoundedLoss)
<1> SUFFICES ASSUME ~Overlap PROVE Spec => []BoundedLoss
  OBVIOUS
<1>1. ASSUME IInv, FreshInv, CleanInv, Apart, Made, Quiet
      PROVE  BoundedLoss
  <2> DEFINE T == {s \in Suites : pc[s] \in {"done", "failed"}}
             n == Len(mounts["export"])
             f == [i \in 1..n |-> mounts["export"][i].by]
  <2>1. mounts \in MountMap /\ "export" \in MountPoints
    BY <1>1 DEF IInv, TypeOK, MountMap, MountPoints
  <2>2. n \in Nat
    BY <2>1, EmptyStack
  <2>3. IsFiniteSet(T)
    BY FixtureAssumption, FS_Subset
  <2>4. \A i \in 1..n : mounts["export"][i].by \in T
    <3>1. \A i \in 1..n : mounts["export"][i].by \in Suites
      BY <2>1, MountRecord DEF Mounts
    <3> QED
      BY <1>1, <3>1 DEF Made, Exporting, Quiet
  <2>5. f \in [1..n -> T]
    BY <2>4
  <2>6. \A i, j \in 1..n : f[i] = f[j] => i = j
    BY <1>1 DEF Apart
  <2>7. IsFiniteSet(1..n) /\ Cardinality(1..n) = n
    BY <2>2, FS_Interval
  <2>8. n \in Nat /\ Cardinality(T) \in Nat
    BY <2>2, <2>3, FS_CardinalityType
  <2> HIDE DEF T, n, f
  <2>9. ~(Cardinality(T) < Cardinality(1..n))
    <3> SUFFICES ASSUME Cardinality(T) < Cardinality(1..n) PROVE FALSE
      OBVIOUS
    <3>1. \E x, y \in 1..n : x # y /\ f[x] = f[y]
      BY <2>3, <2>5, <2>7, FS_PigeonHole
    <3> QED
      BY <2>6, <3>1
  <2>10. n <= Cardinality(T)
    BY <2>7, <2>8, <2>9
  <2> USE DEF T, n
  <2> QED
    BY <1>1, <2>10, AtRest DEF BoundedLoss
<1>2. IInv /\ FreshInv /\ CleanInv /\ Apart /\ Made => BoundedLoss
  BY <1>1 DEF BoundedLoss
<1>3. Spec => []CleanInv
  BY CleanInvariance
<1>4. Spec => []FreshInv
  BY FreshInvariance
<1> QED
  BY <1>2, <1>3, <1>4, ExportsApart, Invariance, PTL

-----------------------------------------------------------------------------
(***************************************************************************)
(* What can stop a bring-up: a failure of its own, or the UDP listener     *)
(* that the failure of an earlier one left.                                *)
(***************************************************************************)

\* While a bring-up mounts, its directories are there.
Mounting == {"tmpfs", "nfsdfs", "exports", "nfsd", "client"}
Ready == \A s \in Suites : pc[s] \in Mounting => Deployed \subseteq dirs

\* Nothing is in the way of a bring-up but a listener.
LEMMA Unobstructed ==
    ASSUME IInv, CleanInv, Ready, NEW s \in Suites
    PROVE  /\ pc[s] = "tmpfs" => Mountable("export")
           /\ pc[s] = "nfsdfs" => Mountable("nfsdfs")
           /\ pc[s] = "client" => Mountable("client")
           /\ pc[s] = "nfsd" => nfsd.socks \subseteq {"udp"}
<1>0. mounts \in MountMap /\ {"export", "nfsdfs", "client"} \subseteq MountPoints /\ Tracked
      /\ (pc[s] \notin Rest => Clear(pc[s]))
  BY DEF IInv, TypeOK, MountMap, MountPoints, CleanInv, Known, CleanAt
<1>1. pc[s] \in {"tmpfs", "nfsdfs", "client"} => {"export", "nfsdfs", "client"} \subseteq dirs
  BY DEF Ready, Mounting, Deployed
<1>2. pc[s] = "tmpfs" => Mountable("export")
  BY <1>1 DEF Mountable
<1>3. pc[s] = "nfsdfs" => Mountable("nfsdfs")
  <2>1. pc[s] = "nfsdfs" => ~env["nfsdfs"]
    BY <1>0 DEF Clear, Rest
  <2>2. ~env["nfsdfs"] => mounts["nfsdfs"] = <<>>
    BY <1>0, EmptyStack DEF Tracked
  <2> QED
    BY <1>1, <2>1, <2>2 DEF Mountable
<1>4. pc[s] = "client" => Mountable("client")
  <2>1. pc[s] = "client" => ~env["client"]
    BY <1>0 DEF Clear, Rest, Using, CaseLabels
  <2>2. ~env["client"] => mounts["client"] = <<>>
    BY <1>0, EmptyStack DEF Tracked
  <2> QED
    BY <1>1, <2>1, <2>2 DEF Mountable
<1>5. pc[s] = "nfsd" => nfsd.socks \subseteq {"udp"}
  <2>1. pc[s] = "nfsd" => ~env["nfsd"]
    BY <1>0 DEF Clear, Rest, Using, CaseLabels
  <2> QED
    BY <1>0, <2>1 DEF Tracked
<1> QED
  BY <1>2, <1>3, <1>4, <1>5

\* What may make suite s give up where it is.
MayStop(s) == pc[s] \in FailAt \/ (pc[s] = "nfsd" /\ nfsd.socks = {"udp"})

\* A step of get goes on, or gives up for one of these reasons.
LEMMA GetOutcome ==
    ASSUME IInv, CleanInv, Ready, NEW s \in Suites, Get(s)
    PROVE  /\ \/ UNCHANGED failing /\ \E l \in BringupLabels \cup {"get", "cases"} : Goto(s, l)
              \/ GiveUp(s) /\ pc[s] \in BringupLabels /\ MayStop(s)
           /\ pc'[s] \in Mounting => Deployed \subseteq dirs'
<1>0. pc \in [Suites -> Labels] /\ (pc[s] \in Mounting => Deployed \subseteq dirs)
  BY DEF IInv, TypeOK, Ready
<1>g. \A l : Goto(s, l) => pc'[s] = l
  BY <1>0 DEF Goto
<1>b. /\ pc[s] = "tmpfs" => Mountable("export")
      /\ pc[s] = "nfsdfs" => Mountable("nfsdfs")
      /\ pc[s] = "client" => Mountable("client")
      /\ pc[s] = "nfsd" => nfsd.socks \subseteq {"udp"}
  BY Unobstructed
<1> USE DEF kernel
\* A step that changes no directory.
<1>u. ASSUME UNCHANGED dirs,
             \/ /\ UNCHANGED failing
                /\ \/ \E l \in {"get", "lo", "mkdirs", "root", "cases"} : Goto(s, l)
                   \/ pc[s] \in Mounting /\ \E l \in Mounting \ {"tmpfs"} : Goto(s, l)
             \/ GiveUp(s) /\ pc[s] \in BringupLabels /\ MayStop(s)
      PROVE  /\ \/ UNCHANGED failing /\ \E l \in BringupLabels \cup {"get", "cases"} : Goto(s, l)
                \/ GiveUp(s) /\ pc[s] \in BringupLabels /\ MayStop(s)
             /\ pc'[s] \in Mounting => Deployed \subseteq dirs'
  <2>1. \/ UNCHANGED failing /\ \E l \in BringupLabels \cup {"get", "cases"} : Goto(s, l)
        \/ GiveUp(s) /\ pc[s] \in BringupLabels /\ MayStop(s)
    BY <1>u DEF BringupLabels, Mounting
  <2>2. pc'[s] \in Mounting => pc[s] \in Mounting
    BY <1>u, <1>g DEF GiveUp, Mounting
  <2> QED
    BY <1>0, <1>u, <2>1, <2>2
<1>1. CASE SuiteInit(s) \/ GetJoin(s) \/ GetFirst(s)
  BY <1>1, <1>u DEF SuiteInit, GetJoin, GetFirst
<1>2. CASE LoopbackUp(s)
  BY <1>2, <1>u DEF LoopbackUp, MayFail, MayStop, BringupLabels
<1>3. CASE MakeDirs(s)
  <2>1. CASE GiveUp(s)
    <3>1. pc[s] = "mkdirs" /\ pc'[s] = "td_hostbin"
      BY <1>3, <1>g, <2>1 DEF MakeDirs, GiveUp
    <3>2. MayFail("mkdirs")
      BY <1>3, <1>g, <3>1 DEF MakeDirs, MkdirOK
    <3> QED
      BY <2>1, <3>1, <3>2 DEF MayFail, MayStop, BringupLabels, Mounting
  <2>2. CASE ~GiveUp(s)
    <3>1. /\ Goto(s, "tmpfs") /\ UNCHANGED failing
          /\ dirs' = dirs \cup {"export", "client", "nfsdfs"}
      BY <1>3, <2>2 DEF MakeDirs
    <3> QED
      BY <3>1 DEF BringupLabels, Deployed
  <2> QED
    BY <2>1, <2>2
<1>4. CASE MountTmpfs(s)
  <2>1. /\ pc[s] = "tmpfs" /\ UNCHANGED dirs
        /\ (Goto(s, "nfsdfs") /\ UNCHANGED failing) \/ (GiveUp(s) /\ MayFail("tmpfs"))
    BY <1>4, <1>b DEF MountTmpfs, MountStep
  <2> QED
    BY <1>u, <2>1 DEF MayFail, MayStop, BringupLabels, Mounting
<1>5. CASE MountNfsdfs(s)
  <2>1. /\ pc[s] = "nfsdfs" /\ UNCHANGED dirs
        /\ (Goto(s, "exports") /\ UNCHANGED failing) \/ (GiveUp(s) /\ MayFail("nfsdfs"))
    BY <1>5, <1>b DEF MountNfsdfs, MountStep
  <2> QED
    BY <1>u, <2>1 DEF MayFail, MayStop, BringupLabels, Mounting
<1>6. CASE ConfigureExports(s)
  <2>1. /\ \A i \in 1..3 : LineAccepted(i)
        /\ \A n \in 0..2 : n + 1 \in 1..3
    BY DEF LineAccepted, CacheLines
  <2>2. /\ pc[s] = "exports" /\ UNCHANGED dirs
        /\ (Goto(s, "nfsd") /\ UNCHANGED failing) \/ (GiveUp(s) /\ MayFail("exports"))
    BY <1>6, <2>1 DEF ConfigureExports
  <2> QED
    BY <1>u, <2>2 DEF MayFail, MayStop, BringupLabels, Mounting
<1>7. CASE StartNfsd(s)
  <2>1. /\ pc[s] = "nfsd" /\ UNCHANGED dirs
        /\ \/ Goto(s, "client") /\ UNCHANGED failing
           \/ GiveUp(s) /\ (MayFail("nfsd") \/ nfsd.socks # {})
    BY <1>7 DEF StartNfsd
  <2>2. nfsd.socks # {} => nfsd.socks = {"udp"}
    BY <1>b, <2>1
  <2> QED
    BY <1>u, <2>1, <2>2 DEF MayFail, MayStop, BringupLabels, Mounting
<1>8. CASE MountClient(s)
  <2>1. /\ pc[s] = "client" /\ UNCHANGED dirs
        /\ (Goto(s, "root") /\ UNCHANGED failing) \/ (GiveUp(s) /\ MayFail("client"))
    BY <1>8, <1>b DEF MountClient, MountStep
  <2> QED
    BY <1>u, <2>1 DEF MayFail, MayStop, BringupLabels
<1>9. CASE CaptureRoot(s)
  BY <1>9, <1>u DEF CaptureRoot
<1> QED
  BY <1>1, <1>2, <1>3, <1>4, <1>5, <1>6, <1>7, <1>8, <1>9 DEF Get

\* A step outside get leaves the bring-ups where they are, and does not fail.
LEMMA OtherOutcome ==
    ASSUME TypeOK, NEW s \in Suites,
           Case(s) \/ CaseLoop(s) \/ SuiteExit(s) \/ Put(s) \/ Teardown(s)
    PROVE  /\ failing' => failing
           /\ pc[s] \notin Rest \cup BringupLabels
           /\ \E l \in Using \cup TeardownLabels \cup {"done", "failed"} :
                Goto(s, l) /\ (l = "failed" => failing)
<1> USE DEF locals, kernel
<1>0. pc \in [Suites -> Labels] /\ failing \in BOOLEAN
  BY DEF TypeOK
<1>1. CASE Case(s) \/ CaseLoop(s) \/ SuiteExit(s)
  <2>1. UNCHANGED failing /\ pc[s] \in CaseLabels
    BY <1>1 DEF Case, CaseTouch, ScratchMount, HostbinMount, RemountRW, CaseCall, CaseLoop,
                ScratchUmount, RemountRO, SuiteExit, CaseLabels
  <2>2. UNCHANGED pc \/ \E l \in Using : Goto(s, l)
    BY <1>1 DEF Case, CaseTouch, ScratchMount, HostbinMount, RemountRW, CaseCall, CaseLoop,
                ScratchUmount, ScratchSweep, RemountRO, SuiteExit, CaseLabels, Using
  <2>3. UNCHANGED pc => Goto(s, pc[s]) /\ pc[s] \in Using
    BY <1>0, <2>1 DEF Goto, Using
  <2>4. \A l \in Using \cup CaseLabels : l # "failed" /\ l \notin Rest \cup BringupLabels
    BY DEF Using, CaseLabels, Rest, BringupLabels
  <2> QED
    BY <2>1, <2>2, <2>3, <2>4
<1>2. CASE Put(s) \/ Teardown(s)
  <2>1. pc[s] \in TeardownLabels \cup {"put"} /\ (failing' = failing \/ failing' = FALSE)
    BY <1>2 DEF Put, Teardown, TdHostbin, TdScratch, TdClient, TdNfsd, TdNfsdfs, TdTmpfs,
                PlainUmount, TdEnd, TeardownLabels
  <2>2. \A l \in TeardownLabels \cup {"put"} : l # "failed" /\ l \notin Rest \cup BringupLabels
    BY DEF TeardownLabels, Rest, BringupLabels
  <2>3. UNCHANGED pc => Goto(s, pc[s])
    BY <1>0 DEF Goto
  <2>4. CASE Put(s)
    <3>1. \E l \in {"td_hostbin", "done"} : Goto(s, l)
      BY <2>4 DEF Put
    <3> QED
      BY <2>1, <2>2, <3>1 DEF TeardownLabels
  <2>5. CASE TdEnd(s)
    <3>1. \E l \in {"done", "failed"} : Goto(s, l) /\ (l = "failed" => failing)
      BY <1>0, <2>5 DEF TdEnd
    <3> QED
      BY <2>1, <2>2, <3>1
  <2>6. CASE Teardown(s) /\ ~TdEnd(s)
    <3>1. UNCHANGED pc \/ \E l \in TeardownLabels : Goto(s, l)
      BY <2>6 DEF Teardown, TdHostbin, TdScratch, ScratchSweep, TdClient, TdNfsd, TdNfsdfs,
                  TdTmpfs, PlainUmount, TeardownNext, TeardownLabels
    <3>2. UNCHANGED pc => pc[s] \in TeardownLabels
      BY <2>6 DEF Teardown, TdHostbin, TdScratch, TdClient, TdNfsd, TdNfsdfs, TdTmpfs,
                  PlainUmount, TeardownLabels
    <3>3. \E l \in TeardownLabels : Goto(s, l)
      BY <2>3, <3>1, <3>2
    <3> QED
      BY <2>1, <2>2, <3>3
  <2> QED
    BY <1>2, <2>4, <2>5, <2>6
<1> QED
  BY <1>1, <1>2

\* The directories stay while a bring-up mounts: only its own teardown, which
\* comes later, removes them.
LEMMA ReadyStep ==
    ASSUME IInv, FreshInv, CleanInv, Ready, ~Overlap, [Next]_vars
    PROVE  Ready'
<1>0. TypeOK /\ pc \in [Suites -> Labels] /\ Alone
  BY DEF IInv, TypeOK, FreshInv
<1>r. Rest \cap Mounting = {}
  BY DEF Rest, Mounting
<1>f. ASSUME NEW s \in Suites, NEW l, Goto(s, l),
             pc[s] \notin Rest \/ \A t \in Suites \ {s} : pc[t] \in Rest,
             l \in Mounting => Deployed \subseteq dirs'
      PROVE  Ready'
  <2>1. /\ pc'[s] = l
        /\ \A t \in Suites \ {s} : pc'[t] = pc[t] /\ pc[t] \in Rest
    BY <1>0, <1>f, AloneStep
  <2> QED
    BY <1>f, <1>r, <2>1 DEF Ready
<1>1. CASE UNCHANGED vars \/ Async \/ Finished
  <2>1. UNCHANGED <<pc, dirs>>
    BY <1>1 DEF Async, DelayedFput, LateDone, Finished, vars, kernel
  <2> QED
    BY <2>1 DEF Ready
<1>2. ASSUME NEW s \in Suites, Get(s)
      PROVE  Ready'
  <2>1. PICK l : Goto(s, l)
    BY <1>2, GetOutcome DEF GiveUp
  <2>2. pc'[s] = l /\ (pc'[s] \in Mounting => Deployed \subseteq dirs')
    BY <1>0, <1>2, <2>1, GetOutcome DEF Goto
  <2>3. pc[s] \notin Rest \/ \A t \in Suites \ {s} : pc[t] \in Rest
    <3>1. CASE SuiteInit(s)
      BY <3>1 DEF SuiteInit, Rest
    <3>2. CASE ~SuiteInit(s)
      BY <1>2, <3>2 DEF Get, GetJoin, GetFirst, LoopbackUp, MakeDirs, MountTmpfs, MountNfsdfs, MountStep,
                        ConfigureExports, StartNfsd, MountClient, CaptureRoot, Rest
    <3> QED
      BY <3>1, <3>2
  <2> QED
    BY <1>f, <2>1, <2>2, <2>3
<1>3. ASSUME NEW s \in Suites,
             Case(s) \/ CaseLoop(s) \/ SuiteExit(s) \/ Put(s) \/ Teardown(s)
      PROVE  Ready'
  <2>1. /\ pc[s] \notin Rest
        /\ \E l \in Using \cup TeardownLabels \cup {"done", "failed"} : Goto(s, l)
    BY <1>0, <1>3, OtherOutcome
  <2>2. Mounting \cap (Using \cup TeardownLabels \cup {"done", "failed"}) = {}
    BY DEF Mounting, Using, CaseLabels, TeardownLabels
  <2> QED
    BY <1>f, <2>1, <2>2
<1> QED
  BY <1>1, <1>2, <1>3 DEF Next

\* The directories are there whenever a bring-up mounts.
LEMMA ReadyInvariance == ~Overlap => (Spec => []Ready)
<1> SUFFICES ASSUME ~Overlap PROVE Spec => []Ready
  OBVIOUS
<1>1. Init => Ready
  BY DEF Init, Ready, Mounting
<1>2. IInv /\ FreshInv /\ CleanInv /\ Ready /\ [Next]_vars => Ready'
  BY ReadyStep
<1>3. Spec => []CleanInv
  BY CleanInvariance
<1>4. Spec => []FreshInv
  BY FreshInvariance
<1> QED
  BY <1>1, <1>2, <1>3, <1>4, Invariance, PTL DEF Spec

\* xfs_bringup() gives up only at a step that fails by itself, or at
\* xfs_start_nfsd() while the UDP listener of an earlier failure has the port:
\* no mount, directory, export or cache line that is left is in its way.
StopsOnlyForFailures ==
    [][\A s \in Suites : pc[s] \in BringupLabels /\ pc'[s] = "td_hostbin" =>
         pc[s] \in FailAt \/ (pc[s] = "nfsd" /\ nfsd.socks = {"udp"})]_vars

\* So the effect of any failure but that of a listener ends with its suite.
THEOREM FailuresStayLocal == ~Overlap => (Spec => StopsOnlyForFailures)
<1> SUFFICES ASSUME ~Overlap PROVE Spec => StopsOnlyForFailures
  OBVIOUS
<1>1. ASSUME IInv, CleanInv, Ready, [Next]_vars,
             NEW s \in Suites, pc[s] \in BringupLabels, pc'[s] = "td_hostbin"
      PROVE  pc[s] \in FailAt \/ (pc[s] = "nfsd" /\ nfsd.socks = {"udp"})
  <2>0. TypeOK /\ pc \in [Suites -> Labels]
    BY <1>1 DEF IInv, TypeOK
  <2>1. pc'[s] # pc[s]
    BY <1>1 DEF BringupLabels
  <2>2. ~(UNCHANGED vars \/ Async \/ Finished)
    BY <2>1 DEF Async, DelayedFput, LateDone, Finished, vars
  <2>3. PICK t \in Suites : Get(t) \/ Case(t) \/ CaseLoop(t) \/ SuiteExit(t) \/ Put(t) \/ Teardown(t)
    BY <1>1, <2>2 DEF Next
  <2>4. \E l : Goto(t, l)
    BY <1>1, <2>0, <2>3, GetOutcome, OtherOutcome DEF GiveUp
  <2>5. t = s
    BY <2>0, <2>1, <2>4 DEF Goto
  <2>6. Get(s)
    BY <1>1, <2>0, <2>3, <2>5, OtherOutcome
  <2>7. \A l \in BringupLabels \cup {"get", "cases"} : ~Goto(s, l)
    BY <1>1, <2>0 DEF Goto, BringupLabels
  <2> QED
    BY <1>1, <2>6, <2>7, GetOutcome DEF MayStop
<1>2. IInv /\ CleanInv /\ Ready /\ [Next]_vars =>
        [\A s \in Suites : pc[s] \in BringupLabels /\ pc'[s] = "td_hostbin" =>
           pc[s] \in FailAt \/ (pc[s] = "nfsd" /\ nfsd.socks = {"udp"})]_vars
  BY <1>1
<1>3. Spec => []CleanInv
  BY CleanInvariance
<1>4. Spec => []Ready
  BY ReadyInvariance
<1> QED
  BY <1>2, <1>3, <1>4, Invariance, PTL DEF Spec, StopsOnlyForFailures

\* No get has failed, and none is failing.
OkInv == ~failing /\ \A s \in Suites : pc[s] # "failed"

\* If no step of a bring-up fails by itself, xfstests_nfs_get() succeeds for
\* every suite of a boot: what earlier suites left mounted, cached, listening
\* or as a directory never stops a later one.
THEOREM GetAlwaysSucceeds == ~Overlap /\ FailAt = {} => (Spec => []GetSucceeds)
<1> SUFFICES ASSUME ~Overlap, FailAt = {} PROVE Spec => []GetSucceeds
  OBVIOUS
<1>1. Init => OkInv
  BY DEF Init, OkInv
<1>2. ASSUME IInv, CleanInv, Ready, OkInv, [Next]_vars
      PROVE  OkInv'
  <2>0. TypeOK /\ pc \in [Suites -> Labels] /\ ~failing
    BY <1>2 DEF IInv, TypeOK, OkInv
  <2>f. ASSUME NEW s \in Suites, NEW l, Goto(s, l), l # "failed", ~failing'
        PROVE  OkInv'
    BY <1>2, <2>0, <2>f DEF Goto, OkInv
  <2>1. CASE UNCHANGED vars \/ Async \/ Finished
    <3>1. UNCHANGED <<pc, failing>>
      BY <2>1 DEF Async, DelayedFput, LateDone, Finished, vars
    <3> QED
      BY <1>2, <3>1 DEF OkInv
  <2>2. ASSUME NEW s \in Suites, Get(s)
        PROVE  OkInv'
    <3>1. ~MayStop(s)
      <4>1. CASE pc[s] = "nfsd"
        <5>1. Tracked /\ Clear("nfsd")
          BY <1>2, <4>1 DEF CleanInv, CleanAt, Known, Rest
        <5>2. ~env["nfsd"]
          BY <5>1 DEF Clear, Using, CaseLabels
        <5>3. nfsd = NfsdDown
          BY <5>1, <5>2 DEF Tracked, Reliable
        <5> QED
          BY <5>3 DEF NfsdDown, MayStop
      <4> QED
        BY <4>1 DEF MayStop
    <3>2. UNCHANGED failing /\ \E l \in BringupLabels \cup {"get", "cases"} : Goto(s, l)
      BY <1>2, <2>2, <3>1, GetOutcome
    <3> QED
      BY <2>0, <2>f, <3>2 DEF BringupLabels
  <2>3. ASSUME NEW s \in Suites,
               Case(s) \/ CaseLoop(s) \/ SuiteExit(s) \/ Put(s) \/ Teardown(s)
        PROVE  OkInv'
    <3>1. ~failing' /\ \E l : Goto(s, l) /\ l # "failed"
      BY <2>0, <2>3, OtherOutcome
    <3> QED
      BY <2>f, <3>1
  <2> QED
    BY <1>2, <2>1, <2>2, <2>3 DEF Next
<1>3. OkInv => GetSucceeds
  BY DEF OkInv, GetSucceeds
<1>4. Spec => []CleanInv
  BY CleanInvariance
<1>5. Spec => []Ready
  BY ReadyInvariance
<1> QED
  BY <1>1, <1>2, <1>3, <1>4, <1>5, Invariance, PTL DEF Spec

===============================================================================
