-------------------------- MODULE LinkStormProofs --------------------------
(***************************************************************************)
(* Proofs about LinkStorm, for every set of storms and every number of     *)
(* names, rounds, open files and attempts.                                 *)
(***************************************************************************)
EXTENDS LinkStorm, FiniteSetTheorems, TLAPS

\* A link exists only between a storm's own link and unlink, unless the
\* storm died there.
OwnLinks == links \subseteq {<<s, i[s]>> : s \in {t \in Storms : pc[t] \in {"unlink", "oops"}}}

\* A storm has signalled exactly when it is through with its frame.
Signalled == done = {s \in Storms : pc[s] = "exited"}

\* Before the case spawns storms there are none, and none dies before the
\* frame is gone.
Spawned ==
    /\ main \in {"open", "target"} => \A s \in Storms : pc[s] = "unborn"
    /\ ~FrameGone => \A s \in Storms : pc[s] # "oops"

\* An aborted case is in its cleanup, and has storms only from the
\* assertions on that leave them.
Deserted ==
    aborted # "no" => /\ FrameGone
                      /\ aborted \notin Unguarded => \A s \in Storms : pc[s] = "unborn"

\* What the case has behind it: the storms and the open files unless an
\* assertion failed, the files and the target from the first rmdir() on.
Finished ==
    /\ FrameGone /\ aborted = "no" => done = Storms /\ silly.held = 0 /\ left = "absent"
    /\ ~FrameGone => left = "absent"
    /\ main \in {"rmdir", "over"} => src = "absent" /\ left = "absent"

LInv == TypeOK /\ OnlyNamedRaces /\ OwnLinks /\ Signalled /\ Spawned /\ Deserted /\ Finished
-----------------------------------------------------------------------------
\* The counts of .nfsXXXX entries stay counts.
LEMMA SillyTypes ==
    ASSUME TypeOK
    PROVE  /\ Flushed(silly) = [held |-> silly.held, pend |-> 0,
                                 removing |-> silly.removing + silly.pend]
           /\ Flushed(silly) \in [held : Nat, pend : Nat, removing : Nat]
           /\ \A file, g \in {"absent", "idle", "busy", "open"} :
                /\ Unlinked(silly, file) \in [held : Nat, pend : Nat, removing : Nat]
                /\ Unlinked(Unlinked(silly, file), g) \in [held : Nat, pend : Nat, removing : Nat]
                /\ file # "open" => Unlinked(silly, file).held = silly.held
                /\ file # "open" /\ g # "open" => Unlinked(Unlinked(silly, file), g).held = silly.held
<1>1. silly \in [held : Nat, pend : Nat, removing : Nat]
  BY DEF TypeOK
<1>2. Flushed(silly) = [held |-> silly.held, pend |-> 0, removing |-> silly.removing + silly.pend]
  <2> DEFINE y == [silly EXCEPT !.pend = 0]
  <2>1. y = [held |-> silly.held, pend |-> 0, removing |-> silly.removing]
    BY <1>1
  <2>2. Flushed(silly) = [y EXCEPT !.removing = @ + silly.pend]
    BY <1>1 DEF Flushed
  <2> QED
    BY <1>1, <2>1, <2>2
<1>3. Flushed(silly) \in [held : Nat, pend : Nat, removing : Nat]
  BY <1>1, <1>2
<1>4. ASSUME NEW y \in [held : Nat, pend : Nat, removing : Nat],
             NEW file \in {"absent", "idle", "busy", "open"}
      PROVE  /\ Unlinked(y, file) \in [held : Nat, pend : Nat, removing : Nat]
             /\ file # "open" => Unlinked(y, file).held = y.held
  <2>1. CASE file = "busy"
    BY <2>1 DEF Unlinked
  <2>2. CASE file = "open"
    BY <2>2 DEF Unlinked
  <2>3. CASE file \notin {"busy", "open"}
    BY <2>3 DEF Unlinked
  <2> QED
    BY <2>1, <2>2, <2>3
<1>5. ASSUME NEW file \in {"absent", "idle", "busy", "open"},
             NEW g \in {"absent", "idle", "busy", "open"}
      PROVE  /\ Unlinked(silly, file) \in [held : Nat, pend : Nat, removing : Nat]
             /\ Unlinked(Unlinked(silly, file), g) \in [held : Nat, pend : Nat, removing : Nat]
             /\ file # "open" => Unlinked(silly, file).held = silly.held
             /\ file # "open" /\ g # "open" => Unlinked(Unlinked(silly, file), g).held = silly.held
  <2> DEFINE y == Unlinked(silly, file)
  <2>1. y \in [held : Nat, pend : Nat, removing : Nat] /\ (file # "open" => y.held = silly.held)
    BY <1>1, <1>4
  <2>2. Unlinked(y, g) \in [held : Nat, pend : Nat, removing : Nat] /\ (g # "open" => Unlinked(y, g).held = y.held)
    BY <2>1, <1>4
  <2> QED
    BY <2>1, <2>2
<1> QED
  BY <1>2, <1>3, <1>5

\* The initial state satisfies the invariant.
THEOREM InitLInv == Init => LInv
<1> SUFFICES ASSUME Init PROVE LInv
  OBVIOUS
<1>1. TypeOK
  <2>1. 0 \in 0..(Names - 1)
    BY LinkStormAssumption
  <2> QED
    BY <2>1 DEF Init, TypeOK
<1>2. OnlyNamedRaces /\ OwnLinks /\ Signalled /\ Spawned /\ Deserted /\ Finished
  BY DEF Init, OnlyNamedRaces, OwnLinks, Signalled, Spawned, Deserted, Finished, FrameGone
<1> QED
  BY <1>1, <1>2 DEF LInv

\* The delayed fputs turn pending entries into REMOVEs.
LEMMA DelayedFputStep ==
    ASSUME LInv, DelayedFput
    PROVE  LInv'
<1> USE DEF LInv, DelayedFput, Settled, case, storm, tree
<1>1. TypeOK'
  BY LinkStormAssumption, SillyTypes DEF TypeOK
<1>2. OnlyNamedRaces'
  BY DEF OnlyNamedRaces, TypeOK
<1>3. OwnLinks'
  BY DEF OwnLinks, TypeOK
<1>4. Signalled'
  BY DEF Signalled, TypeOK
<1>5. Spawned' /\ Deserted'
  BY DEF Spawned, Deserted, FrameGone, Unguarded, TypeOK
<1>6. Finished'
  BY SillyTypes DEF Finished, FrameGone, TypeOK
<1> QED
  BY <1>1, <1>2, <1>3, <1>4, <1>5, <1>6

\* A REMOVE takes its entry away.
LEMMA RemoveDoneStep ==
    ASSUME LInv, RemoveDone
    PROVE  LInv'
<1> USE DEF LInv, RemoveDone, case, storm, tree
<1>1. TypeOK'
  BY LinkStormAssumption, SillyTypes DEF TypeOK
<1>2. OnlyNamedRaces'
  BY DEF OnlyNamedRaces, TypeOK
<1>3. OwnLinks'
  BY DEF OwnLinks, TypeOK
<1>4. Signalled'
  BY DEF Signalled, TypeOK
<1>5. Spawned' /\ Deserted'
  BY DEF Spawned, Deserted, FrameGone, Unguarded, TypeOK
<1>6. Finished'
  BY SillyTypes DEF Finished, FrameGone, TypeOK
<1> QED
  BY <1>1, <1>2, <1>3, <1>4, <1>5, <1>6

\* A storm looks at the flag.
LEMMA PollStep ==
    ASSUME LInv, NEW s \in Storms, Poll(s)
    PROVE  LInv'
<1> USE DEF LInv, Poll, Goto, case, storm, tree
<1>1. TypeOK'
  BY LinkStormAssumption, SillyTypes DEF TypeOK
<1>2. OnlyNamedRaces'
  BY DEF OnlyNamedRaces, TypeOK
<1>3. OwnLinks'
  BY DEF OwnLinks, TypeOK
<1>4. Signalled'
  BY DEF Signalled, TypeOK
<1>5. Spawned' /\ Deserted'
  BY DEF Spawned, Deserted, FrameGone, Unguarded, TypeOK
<1>6. Finished'
  BY SillyTypes DEF Finished, FrameGone, TypeOK
<1> QED
  BY <1>1, <1>2, <1>3, <1>4, <1>5, <1>6

\* A storm dies on a dead frame; a link it made stays.
LEMMA OopsStep ==
    ASSUME LInv, NEW s \in Storms, Oops(s)
    PROVE  LInv'
<1> USE DEF LInv, Oops, Goto, case, storm, tree
<1>1. TypeOK'
  BY LinkStormAssumption, SillyTypes DEF TypeOK
<1>2. OnlyNamedRaces'
  BY DEF OnlyNamedRaces, TypeOK
<1>3. OwnLinks'
  BY DEF OwnLinks, TypeOK
<1>4. Signalled'
  BY DEF Signalled, TypeOK
<1>5. Spawned' /\ Deserted'
  BY DEF Spawned, Deserted, FrameGone, Unguarded, TypeOK
<1>6. Finished'
  BY SillyTypes DEF Finished, FrameGone, TypeOK
<1> QED
  BY <1>1, <1>2, <1>3, <1>4, <1>5, <1>6

\* A link never meets its own name: the storm unlinked it last time.
LEMMA LinkStep ==
    ASSUME LInv, NEW s \in Storms, Link(s)
    PROVE  LInv'
<1> USE DEF LInv, Link, Goto, LinkResult, LinkTolerated, case, storm, tree
<1>1. TypeOK'
  BY LinkStormAssumption, SillyTypes DEF TypeOK
<1>2. OnlyNamedRaces'
  BY DEF OnlyNamedRaces, TypeOK
<1>3. OwnLinks'
  BY DEF OwnLinks, TypeOK
<1>4. Signalled'
  BY DEF Signalled, TypeOK
<1>5. Spawned' /\ Deserted'
  BY DEF Spawned, Deserted, FrameGone, Unguarded, TypeOK
<1>6. Finished'
  BY SillyTypes DEF Finished, FrameGone, TypeOK
<1> QED
  BY <1>1, <1>2, <1>3, <1>4, <1>5, <1>6

\* The storm removes the link it made.
LEMMA UnlinkStep ==
    ASSUME LInv, NEW s \in Storms, Unlink(s)
    PROVE  LInv'
<1> USE DEF LInv, Unlink, Goto, NextName, case, storm, tree
<1>1. TypeOK'
  BY LinkStormAssumption, SillyTypes DEF TypeOK
<1>2. OnlyNamedRaces'
  BY DEF OnlyNamedRaces, TypeOK
<1>3. OwnLinks'
  BY DEF OwnLinks, TypeOK
<1>4. Signalled'
  BY DEF Signalled, TypeOK
<1>5. Spawned' /\ Deserted'
  BY DEF Spawned, Deserted, FrameGone, Unguarded, TypeOK
<1>6. Finished'
  BY SillyTypes DEF Finished, FrameGone, TypeOK
<1> QED
  BY <1>1, <1>2, <1>3, <1>4, <1>5, <1>6

\* The storm signals.
LEMMA CompleteStep ==
    ASSUME LInv, NEW s \in Storms, Complete(s)
    PROVE  LInv'
<1> USE DEF LInv, Complete, Goto, case, storm, tree
<1>1. TypeOK'
  BY LinkStormAssumption, SillyTypes DEF TypeOK
<1>2. OnlyNamedRaces'
  BY DEF OnlyNamedRaces, TypeOK
<1>3. OwnLinks'
  BY DEF OwnLinks, TypeOK
<1>4. Signalled'
  BY DEF Signalled, TypeOK
<1>5. Spawned' /\ Deserted'
  BY DEF Spawned, Deserted, FrameGone, Unguarded, TypeOK
<1>6. Finished'
  BY SillyTypes DEF Finished, FrameGone, TypeOK
<1> QED
  BY <1>1, <1>2, <1>3, <1>4, <1>5, <1>6

\* A file kept open after its unlink.
LEMMA OpenUnlinkedStep ==
    ASSUME LInv, OpenUnlinked
    PROVE  LInv'
<1> USE DEF LInv, OpenUnlinked, Abort, case, storm, tree
<1>1. TypeOK'
  BY LinkStormAssumption, SillyTypes DEF TypeOK
<1>2. OnlyNamedRaces'
  BY DEF OnlyNamedRaces, TypeOK
<1>3. OwnLinks'
  BY DEF OwnLinks, TypeOK
<1>4. Signalled'
  BY DEF Signalled, TypeOK
<1>5. Spawned' /\ Deserted'
  BY DEF Spawned, Deserted, FrameGone, Unguarded, TypeOK
<1>6. Finished'
  BY SillyTypes DEF Finished, FrameGone, TypeOK
<1> QED
  BY <1>1, <1>2, <1>3, <1>4, <1>5, <1>6

\* The target is written.
LEMMA CreateTargetStep ==
    ASSUME LInv, CreateTarget
    PROVE  LInv'
<1> USE DEF LInv, CreateTarget, WriteTarget, Abort, case, storm, tree
<1>1. TypeOK'
  BY LinkStormAssumption, SillyTypes DEF TypeOK
<1>2. OnlyNamedRaces'
  BY DEF OnlyNamedRaces, TypeOK
<1>3. OwnLinks'
  BY DEF OwnLinks, TypeOK
<1>4. Signalled'
  BY DEF Signalled, TypeOK
<1>5. Spawned' /\ Deserted'
  BY DEF Spawned, Deserted, FrameGone, Unguarded, TypeOK
<1>6. Finished'
  BY SillyTypes DEF Finished, FrameGone, TypeOK
<1> QED
  BY <1>1, <1>2, <1>3, <1>4, <1>5, <1>6

\* A storm starts with no link of its own.
LEMMA SpawnStormStep ==
    ASSUME LInv, SpawnStorm
    PROVE  LInv'
<1> USE DEF LInv, SpawnStorm, Abort, Goto, case, storm, tree
<1>1. TypeOK'
  BY LinkStormAssumption, SillyTypes DEF TypeOK
<1>2. OnlyNamedRaces'
  BY DEF OnlyNamedRaces, TypeOK
<1>3. OwnLinks'
  BY DEF OwnLinks, TypeOK
<1>4. Signalled'
  BY DEF Signalled, TypeOK
<1>5. Spawned' /\ Deserted'
  BY DEF Spawned, Deserted, FrameGone, Unguarded, TypeOK
<1>6. Finished'
  BY SillyTypes DEF Finished, FrameGone, TypeOK
<1> QED
  BY <1>1, <1>2, <1>3, <1>4, <1>5, <1>6

\* The target goes.
LEMMA RemoveTargetStep ==
    ASSUME LInv, RemoveTarget
    PROVE  LInv'
<1> USE DEF LInv, RemoveTarget, Abort, case, storm, tree
<1>1. TypeOK'
  BY LinkStormAssumption, SillyTypes DEF TypeOK
<1>2. OnlyNamedRaces'
  BY DEF OnlyNamedRaces, TypeOK
<1>3. OwnLinks'
  BY DEF OwnLinks, TypeOK
<1>4. Signalled'
  BY DEF Signalled, TypeOK
<1>5. Spawned' /\ Deserted'
  BY DEF Spawned, Deserted, FrameGone, Unguarded, TypeOK
<1>6. Finished'
  BY SillyTypes DEF Finished, FrameGone, TypeOK
<1> QED
  BY <1>1, <1>2, <1>3, <1>4, <1>5, <1>6

\* The target is written anew.
LEMMA RecreateTargetStep ==
    ASSUME LInv, RecreateTarget
    PROVE  LInv'
<1> USE DEF LInv, RecreateTarget, WriteTarget, Abort, case, storm, tree
<1>1. TypeOK'
  BY LinkStormAssumption, SillyTypes DEF TypeOK
<1>2. OnlyNamedRaces'
  BY DEF OnlyNamedRaces, TypeOK
<1>3. OwnLinks'
  BY DEF OwnLinks, TypeOK
<1>4. Signalled'
  BY DEF Signalled, TypeOK
<1>5. Spawned' /\ Deserted'
  BY DEF Spawned, Deserted, FrameGone, Unguarded, TypeOK
<1>6. Finished'
  BY SillyTypes DEF Finished, FrameGone, TypeOK
<1> QED
  BY <1>1, <1>2, <1>3, <1>4, <1>5, <1>6

\* The flag is set.
LEMMA StopStormsStep ==
    ASSUME LInv, StopStorms
    PROVE  LInv'
<1> USE DEF LInv, StopStorms, case, storm, tree
<1>1. TypeOK'
  BY LinkStormAssumption, SillyTypes DEF TypeOK
<1>2. OnlyNamedRaces'
  BY DEF OnlyNamedRaces, TypeOK
<1>3. OwnLinks'
  BY DEF OwnLinks, TypeOK
<1>4. Signalled'
  BY DEF Signalled, TypeOK
<1>5. Spawned' /\ Deserted'
  BY DEF Spawned, Deserted, FrameGone, Unguarded, TypeOK
<1>6. Finished'
  BY SillyTypes DEF Finished, FrameGone, TypeOK
<1> QED
  BY <1>1, <1>2, <1>3, <1>4, <1>5, <1>6

\* Every storm has signalled; the open files are closed.
LEMMA JoinAndCloseStep ==
    ASSUME LInv, JoinAndClose
    PROVE  LInv'
<1> USE DEF LInv, JoinAndClose, AllJoined, case, storm, tree
<1>1. TypeOK'
  <2> DEFINE y == [silly EXCEPT !.held = 0]
  <2>0. silly \in [held : Nat, pend : Nat, removing : Nat]
    BY DEF TypeOK
  <2>1. y = [held |-> 0, pend |-> silly.pend, removing |-> silly.removing]
    BY <2>0
  <2>2. silly' = [y EXCEPT !.pend = @ + silly.held]
    BY <2>0
  <2>3. silly' = [held |-> 0, pend |-> silly.pend + silly.held, removing |-> silly.removing]
    BY <2>0, <2>1, <2>2
  <2>4. silly' \in [held : Nat, pend : Nat, removing : Nat]
    BY <2>0, <2>3
  <2> QED
    BY <2>4 DEF TypeOK
<1>2. OnlyNamedRaces'
  BY DEF OnlyNamedRaces, TypeOK
<1>3. OwnLinks'
  BY DEF OwnLinks, TypeOK
<1>4. Signalled'
  BY DEF Signalled, TypeOK
<1>5. Spawned' /\ Deserted'
  BY DEF Spawned, Deserted, FrameGone, Unguarded, TypeOK
<1>6. Finished'
  BY SillyTypes DEF Finished, FrameGone, TypeOK
<1> QED
  BY <1>1, <1>2, <1>3, <1>4, <1>5, <1>6

\* The links go.
LEMMA CleanLinksStep ==
    ASSUME LInv, CleanLinks
    PROVE  LInv'
<1> USE DEF LInv, CleanLinks, case, storm, tree
<1>1. TypeOK'
  BY LinkStormAssumption, SillyTypes DEF TypeOK
<1>2. OnlyNamedRaces'
  BY DEF OnlyNamedRaces, TypeOK
<1>3. OwnLinks'
  BY DEF OwnLinks, TypeOK
<1>4. Signalled'
  BY DEF Signalled, TypeOK
<1>5. Spawned' /\ Deserted'
  BY DEF Spawned, Deserted, FrameGone, Unguarded, TypeOK
<1>6. Finished'
  BY SillyTypes DEF Finished, FrameGone, TypeOK
<1> QED
  BY <1>1, <1>2, <1>3, <1>4, <1>5, <1>6

\* The other names go.
LEMMA CleanFilesStep ==
    ASSUME LInv, CleanFiles
    PROVE  LInv'
<1> USE DEF LInv, CleanFiles, case, storm, tree
<1>1. TypeOK'
  BY LinkStormAssumption, SillyTypes DEF TypeOK
<1>2. OnlyNamedRaces'
  BY DEF OnlyNamedRaces, TypeOK
<1>3. OwnLinks'
  BY DEF OwnLinks, TypeOK
<1>4. Signalled'
  BY DEF Signalled, TypeOK
<1>5. Spawned' /\ Deserted'
  BY DEF Spawned, Deserted, FrameGone, Unguarded, TypeOK
<1>6. Finished'
  BY SillyTypes DEF Finished, FrameGone, TypeOK
<1> QED
  BY <1>1, <1>2, <1>3, <1>4, <1>5, <1>6

\* An attempt to remove the directory.
LEMMA RmdirStep ==
    ASSUME LInv, Rmdir
    PROVE  LInv'
<1> USE DEF LInv, Rmdir, BeforeRmdir, case, storm, tree
<1>1. TypeOK'
  BY LinkStormAssumption, SillyTypes DEF TypeOK
<1>2. OnlyNamedRaces'
  BY DEF OnlyNamedRaces, TypeOK
<1>3. OwnLinks'
  BY DEF OwnLinks, TypeOK
<1>4. Signalled'
  BY DEF Signalled, TypeOK
<1>5. Spawned' /\ Deserted'
  BY DEF Spawned, Deserted, FrameGone, Unguarded, TypeOK
<1>6. Finished'
  BY SillyTypes DEF Finished, FrameGone, TypeOK
<1> QED
  BY <1>1, <1>2, <1>3, <1>4, <1>5, <1>6

\* Every step keeps the invariant.
THEOREM NextLInv == LInv /\ [Next]_vars => LInv'
<1> SUFFICES ASSUME LInv, [Next]_vars PROVE LInv'
  OBVIOUS
<1>1. CASE Case
  BY <1>1, OpenUnlinkedStep, CreateTargetStep, SpawnStormStep, RemoveTargetStep, RecreateTargetStep,
     StopStormsStep, JoinAndCloseStep, CleanLinksStep, CleanFilesStep, RmdirStep DEF Case
<1>2. ASSUME NEW s \in Storms, Storm(s) PROVE LInv'
  BY <1>2, PollStep, OopsStep, LinkStep, UnlinkStep, CompleteStep DEF Storm
<1>3. CASE DelayedFput \/ RemoveDone
  BY <1>3, DelayedFputStep, RemoveDoneStep
<1>4. CASE Over \/ UNCHANGED vars
  <2>1. UNCHANGED vars
    BY <1>4 DEF Over
  <2> QED
    BY <2>1 DEF vars, case, storm, tree, LInv, TypeOK, OnlyNamedRaces, OwnLinks, Signalled,
           Spawned, Deserted, Finished, FrameGone
<1> QED
  BY <1>1, <1>2, <1>3, <1>4 DEF Next

\* Every reachable state satisfies the inductive invariant.
THEOREM LinkStormInvariance == Spec => []LInv
<1> QED
  BY InitLInv, NextLInv, PTL DEF Spec

\* The counts of entries, names and errors keep their types.
THEOREM LinkStormTypes == Spec => []TypeOK
<1> QED
  BY LinkStormInvariance, PTL DEF LInv

\* No storm ever meets an error it does not tolerate.
THEOREM AlwaysNamedRaces == Spec => []OnlyNamedRaces
<1> QED
  BY LinkStormInvariance, PTL DEF LInv

\* The frame that the storms point into outlives them, but for the three
\* assertions that nothing guards.
THEOREM FrameAlwaysOutlivesStorms == Spec => []FrameOutlivesStorms
<1>1. LInv => FrameOutlivesStorms
  <2> SUFFICES ASSUME LInv, FrameGone, NEW s \in Storms, pc[s] \notin {"unborn", "exited"}
               PROVE  aborted \in Unguarded
    BY DEF FrameOutlivesStorms
  <2>1. s \notin done
    BY DEF LInv, Signalled
  <2>2. aborted # "no"
    BY <2>1 DEF LInv, Finished
  <2> QED
    BY <2>2 DEF LInv, Deserted
<1> QED
  BY <1>1, LinkStormInvariance, PTL

\* Beyond what the run checks: link() never finds its own name taken, so of
\* the errors a storm tolerates EEXIST never occurs, and a case that is not
\* aborted finds the links gone with the storms, before its cleanup.
NoLinkLeft == /\ \A s \in Storms : pc[s] = "link" => <<s, i[s]>> \notin links
              /\ FrameGone /\ aborted \notin Unguarded => links = {}

\* The storms clean up after themselves.
THEOREM StormsLeaveNoLink == Spec => []NoLinkLeft
<1> SUFFICES ASSUME LInv PROVE NoLinkLeft
  BY LinkStormInvariance, PTL
<1>1. \A s \in Storms : pc[s] = "link" => <<s, i[s]>> \notin links
  BY DEF LInv, OwnLinks
<1>2. ASSUME FrameGone, aborted \notin Unguarded
      PROVE  \A s \in Storms : pc[s] \in {"unborn", "exited"}
  BY <1>2 DEF LInv, Deserted, Finished, Signalled
<1>3. ASSUME FrameGone, aborted \notin Unguarded
      PROVE  links = {}
  BY <1>2, <1>3 DEF LInv, OwnLinks
<1> QED
  BY <1>1, <1>3 DEF NoLinkLeft

\* When xfs_rmdir_settled() gives up, nothing is left but REMOVEs under way,
\* files an aborted case never closed and links of storms it left running.
THEOREM DirectoryAlwaysEmptied == Spec => DirectoryEmptied
<1>1. ASSUME LInv, [Next]_vars
      PROVE  [main # "over" /\ main' = "over" /\ dir' =>
                /\ Entries' > 0
                /\ Entries' = silly'.removing + silly'.held + Cardinality(links')
                /\ silly'.held > 0 => aborted # "no"
                /\ links' # {} => aborted \in Unguarded]_vars
  <2> SUFFICES ASSUME Next, main # "over", main' = "over", dir'
               PROVE  /\ Entries' > 0
                      /\ Entries' = silly'.removing + silly'.held + Cardinality(links')
                      /\ silly'.held > 0 => aborted # "no"
                      /\ links' # {} => aborted \in Unguarded
    BY <1>1
  <2>1. Rmdir
    BY DEF Next, Case, Over, DelayedFput, RemoveDone, Storm, Poll, Oops, Link, Unlink, Complete, case,
           storm, tree, OpenUnlinked, CreateTarget, SpawnStorm, RemoveTarget, RecreateTarget,
           WriteTarget, Abort, StopStorms, JoinAndClose, CleanLinks, CleanFiles, vars
  <2>2. silly' = [held |-> silly.held, pend |-> 0, removing |-> silly.removing + silly.pend]
    BY <1>1, <2>1, SillyTypes DEF Rmdir, BeforeRmdir, LInv
  <2>3. silly.held \in Nat /\ silly.removing + silly.pend \in Nat
    BY <1>1 DEF LInv, TypeOK
  <2>4. src' = "absent" /\ left' = "absent"
    BY <1>1, <2>1 DEF Rmdir, LInv, Finished
  <2>5. IsFiniteSet(links') /\ Cardinality(links') \in Nat
    <3>1. links' = links /\ links \subseteq Storms \X (0..(Names - 1))
      BY <1>1, <2>1 DEF Rmdir, LInv, TypeOK
    <3>2. IsFiniteSet(Storms \X (0..(Names - 1)))
      <4>1. Names - 1 \in Int /\ IsFiniteSet(Storms)
        BY LinkStormAssumption
      <4>2. IsFiniteSet(0..(Names - 1))
        BY <4>1, FS_Interval
      <4> QED
        BY <4>1, <4>2, FS_Product
    <3> QED
      BY <3>1, <3>2, FS_Subset, FS_CardinalityType
  <2>6. Entries' = silly'.removing + silly'.held + Cardinality(links')
    BY <2>2, <2>3, <2>4, <2>5 DEF Entries, Here
  <2>7. silly'.held > 0 => aborted # "no"
    BY <1>1, <2>1, <2>2 DEF Rmdir, LInv, Finished, FrameGone
  <2>8. links' # {} => aborted \in Unguarded
    <3>1. links' = links /\ FrameGone
      BY <2>1 DEF Rmdir, FrameGone
    <3>2. ASSUME aborted \notin Unguarded
          PROVE  \A s \in Storms : pc[s] \in {"unborn", "exited"}
      BY <1>1, <3>1, <3>2 DEF LInv, Deserted, Finished, Signalled
    <3> QED
      BY <1>1, <3>1, <3>2 DEF LInv, OwnLinks
  <2>9. Entries' > 0
    BY <2>1 DEF Rmdir
  <2> QED
    BY <2>6, <2>7, <2>8, <2>9
<1> QED
  BY <1>1, LinkStormInvariance, PTL DEF Spec, DirectoryEmptied
=============================================================================
