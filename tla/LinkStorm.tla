----------------------------- MODULE LinkStorm -----------------------------
(***************************************************************************)
(* kunit/xfstests/generic/084.c: kthreads link and unlink a target that    *)
(* the case itself keeps removing and recreating, in a directory that also *)
(* holds open-but-unlinked files; at the end the directory is emptied with *)
(* xfs_rmdir_settled() of nfs_fixture.c.                                   *)
(*                                                                         *)
(* On NFS unlinking a file that is open renames it to .nfsXXXX, and a file *)
(* closed by a kernel thread stays open until its delayed fput runs.  Such *)
(* an entry is "held" by an open file, "pend"ing on the delayed fputs, or  *)
(* "removing", when its asynchronous REMOVE is on its way.                 *)
(*                                                                         *)
(* A KUNIT_ASSERT that fails ends the case's kthread where it stands.      *)
(* KUnit then runs the deferred g084_remove_tree(), and nobody stops or    *)
(* awaits the storms that were started: they go on with a struct           *)
(* g084_storm and a flag on the stack of a thread that is gone.            *)
(***************************************************************************)
EXTENDS Integers, FiniteSets

CONSTANTS
    Storms,      \* the storm kthreads (G084_STORMS of them)
    Names,       \* link names of a storm (8)
    Rounds,      \* G084_ROUNDS
    Opens,       \* G084_OPEN
    MaxTries     \* attempts of xfs_rmdir_settled() (20)

\* There is something of everything.
ASSUME LinkStormAssumption ==
    /\ IsFiniteSet(Storms)
    /\ Names \in Nat \ {0} /\ Rounds \in Nat \ {0} /\ Opens \in Nat
    /\ MaxTries \in Nat \ {0}

VARIABLES
    main,    \* where the case is
    aborted, \* where an assertion failed in it, "no" if none did
    count,   \* its loop counter
    stop,    \* the flag the storms poll
    pc,      \* where each storm is
    i,       \* its name counter, i & 7
    err,     \* s->err
    done,    \* the storms that have signalled their completion
    dir,     \* the directory exists
    src,     \* the link target: "absent", "idle" or "busy" (delayed fput)
    left,    \* the name of an open_unlinked file that an assertion left:
             \* "absent", "idle", "busy" or "open" (never closed)
    links,   \* the links that exist
    silly    \* the number of .nfsXXXX entries of each kind

case == <<main, aborted, count, stop>>
storm == <<pc, i, err, done>>
tree == <<dir, src, left, links, silly>>
vars == <<case, storm, tree>>

OK == 0
ENOENT == -2
EEXIST == -17

\* The directory is made and its deferred removal registered.
Init ==
    /\ main = "open" /\ aborted = "no" /\ count = 0 /\ stop = FALSE
    /\ pc = [s \in Storms |-> "unborn"]
    /\ i = [s \in Storms |-> 0]
    /\ err = [s \in Storms |-> OK]
    /\ done = {}
    /\ dir = TRUE /\ src = "absent" /\ left = "absent" /\ links = {}
    /\ silly = [held |-> 0, pend |-> 0, removing |-> 0]

-----------------------------------------------------------------------------
(***************************************************************************)
(* The NFS client and the kernel's delayed fputs (external).               *)
(***************************************************************************)

\* Releasing the last open file of a sillyrenamed entry sends its REMOVE.
Flushed(y) == [y EXCEPT !.pend = 0, !.removing = @ + y.pend]
Settled(file) == IF file = "busy" THEN "idle" ELSE file

\* The worker that runs delayed fputs, and the replies to REMOVEs.
DelayedFput ==
    /\ silly.pend > 0 \/ "busy" \in {src, left}
    /\ silly' = Flushed(silly) /\ src' = Settled(src) /\ left' = Settled(left)
    /\ UNCHANGED <<case, storm, dir, links>>

RemoveDone ==
    /\ silly.removing > 0
    /\ silly' = [silly EXCEPT !.removing = @ - 1]
    /\ UNCHANGED <<case, storm, dir, src, left, links>>

\* Unlinking a file: a sillyrename while it is busy or open.
Unlinked(y, file) == CASE file = "busy" -> [y EXCEPT !.pend = @ + 1]
                       [] file = "open" -> [y EXCEPT !.held = @ + 1]
                       [] OTHER -> y

Here(file) == IF file = "absent" THEN 0 ELSE 1

Entries == silly.held + silly.pend + silly.removing + Cardinality(links)
             + Here(src) + Here(left)

-----------------------------------------------------------------------------
(***************************************************************************)
(* g084_link_unlink().                                                     *)
(***************************************************************************)

Goto(s, l) == pc' = [pc EXCEPT ![s] = l]

\* The case has returned or was aborted: its stack frame is gone.
FrameGone == main \in {"clean", "sweep", "rmdir", "over"}

\* In a dead frame the flag may read as anything.
Poll(s) ==
    /\ pc[s] = "poll"
    /\ \E set \in IF FrameGone THEN BOOLEAN ELSE {stop} :
         Goto(s, IF set THEN "complete" ELSE "link")
    /\ UNCHANGED <<case, i, err, done, tree>>

\* Nor need the access survive: the stack may be unmapped by now.
Oops(s) ==
    /\ FrameGone
    /\ pc[s] \in {"poll", "link", "unlink", "complete"}
    /\ Goto(s, "oops")
    /\ UNCHANGED <<case, i, err, done, tree>>

LinkResult(s) == CASE <<s, i[s]>> \in links -> EEXIST
                   [] src = "absent" -> ENOENT
                   [] OTHER -> OK

\* Defect: the target's disappearance is not expected.
FaultyLinkTolerated(e) == e \in {OK, EEXIST}

\* The races the test names.
LinkTolerated(e) == e \in {OK, ENOENT, EEXIST}

Link(s) ==
    /\ pc[s] = "link"
    /\ links' = IF LinkResult(s) = OK THEN links \cup {<<s, i[s]>>} ELSE links
    /\ IF LinkTolerated(LinkResult(s))
         THEN Goto(s, "unlink") /\ UNCHANGED err
         ELSE Goto(s, "complete") /\ err' = [err EXCEPT ![s] = LinkResult(s)]
    /\ UNCHANGED <<case, i, done, dir, src, left, silly>>

NextName(n) == (n + 1) % Names

\* A missing link is tolerated, so unlinking never fails here.
Unlink(s) ==
    /\ pc[s] = "unlink"
    /\ links' = links \ {<<s, i[s]>>}
    /\ i' = [i EXCEPT ![s] = NextName(@)]
    /\ Goto(s, "poll")
    /\ UNCHANGED <<case, err, done, dir, src, left, silly>>

Complete(s) ==
    /\ pc[s] = "complete"
    /\ done' = done \cup {s}
    /\ Goto(s, "exited")
    /\ UNCHANGED <<case, i, err, tree>>

-----------------------------------------------------------------------------
(***************************************************************************)
(* a_link_storm_against_a_vanishing_target().                              *)
(***************************************************************************)

\* A KUNIT_ASSERT fails: what is left is the deferred g084_remove_tree().
Abort ==
    /\ main' = "clean" /\ aborted' = main
    /\ UNCHANGED <<count, stop, storm, dir, links, silly>>

\* One of the files that are kept open after their unlink; if it cannot be
\* written, opened or unlinked, as much of it stays.
OpenUnlinked ==
    /\ main = "open"
    /\ \/ /\ count < Opens
          /\ silly' = [silly EXCEPT !.held = @ + 1]
          /\ count' = count + 1
          /\ UNCHANGED <<main, aborted, stop, storm, dir, src, left, links>>
       \/ /\ count = Opens
          /\ main' = "target" /\ count' = 0
          /\ UNCHANGED <<aborted, stop, storm, tree>>
       \/ /\ count < Opens
          /\ Abort
          /\ left' \in {"absent", "busy", "open"} /\ UNCHANGED src

\* xfs_write_new_file() may fail before or after it has made the file.
WriteTarget(next) ==
    \/ src' = "busy" /\ next /\ UNCHANGED <<aborted, stop, storm, dir, left, links, silly>>
    \/ src' \in {src, "busy"} /\ Abort /\ UNCHANGED left

CreateTarget ==
    /\ main = "target"
    /\ WriteTarget(main' = "spawn" /\ UNCHANGED count)

\* kthread_run() may fail, with the storms before this one running.
SpawnStorm ==
    /\ main = "spawn"
    /\ \/ /\ \E s \in Storms : pc[s] = "unborn" /\ Goto(s, "poll")
          /\ UNCHANGED <<case, i, err, done, tree>>
       \/ /\ \A s \in Storms : pc[s] # "unborn"
          /\ main' = "remove"
          /\ UNCHANGED <<aborted, count, stop, storm, tree>>
       \/ /\ \E s \in Storms : pc[s] = "unborn"
          /\ Abort /\ UNCHANGED <<src, left>>

\* One round: the target is unlinked, then written anew.  Either may fail
\* under the storms.
RemoveTarget ==
    /\ main = "remove"
    /\ \/ /\ src' = "absent" /\ silly' = Unlinked(silly, src)
          /\ main' = "recreate"
          /\ UNCHANGED <<aborted, count, stop, storm, dir, left, links>>
       \/ Abort /\ UNCHANGED <<src, left>>

RecreateTarget ==
    /\ main = "recreate"
    /\ WriteTarget(/\ count' = count + 1
                   /\ main' = IF count + 1 < Rounds THEN "remove" ELSE "stop")

\* Defect: the storms are not told.
FaultyStopStorms ==
    /\ main = "stop"
    /\ main' = "join"
    /\ UNCHANGED <<aborted, count, stop, storm, tree>>

StopStorms ==
    /\ main = "stop"
    /\ stop' = TRUE
    /\ main' = "join"
    /\ UNCHANGED <<aborted, count, storm, tree>>

\* Defect: one completion is enough.
FaultyAllJoined == done # {}

\* wait_for_completion() of every storm in turn.
AllJoined == done = Storms

\* The wait, and the filp_close() of the unlinked files.
JoinAndClose ==
    /\ main = "join"
    /\ AllJoined
    /\ silly' = [silly EXCEPT !.held = 0, !.pend = @ + silly.held]
    /\ main' = "clean"
    /\ UNCHANGED <<aborted, count, stop, storm, dir, src, left, links>>

\* g084_remove_tree(): first the links; a storm that still runs makes more.
CleanLinks ==
    /\ main = "clean"
    /\ links' = {}
    /\ main' = "sweep"
    /\ UNCHANGED <<aborted, count, stop, storm, dir, src, left, silly>>

\* Then the names of the open files and the target.
CleanFiles ==
    /\ main = "sweep"
    /\ left' = "absent" /\ src' = "absent"
    /\ silly' = Unlinked(Unlinked(silly, left), src)
    /\ main' = "rmdir" /\ count' = 0
    /\ UNCHANGED <<aborted, stop, storm, dir, links>>

\* Defect: no flush before the attempt.
FaultyBeforeRmdir == silly

BeforeRmdir == Flushed(silly)

\* One attempt of xfs_rmdir_settled(); nothing looks at what it returns.
Rmdir ==
    /\ main = "rmdir"
    /\ silly' = BeforeRmdir /\ UNCHANGED <<src, left, links>>
    /\ dir' = (Entries' > 0)
    /\ count' = count + 1
    /\ main' = IF dir' /\ count + 1 < MaxTries THEN "rmdir" ELSE "over"
    /\ UNCHANGED <<aborted, stop, storm>>

Over == main = "over" /\ UNCHANGED vars

Case == \/ OpenUnlinked \/ CreateTarget \/ SpawnStorm \/ RemoveTarget \/ RecreateTarget
        \/ StopStorms \/ JoinAndClose \/ CleanLinks \/ CleanFiles \/ Rmdir
Storm(s) == Poll(s) \/ Oops(s) \/ Link(s) \/ Unlink(s) \/ Complete(s)

Next == Case \/ Over \/ DelayedFput \/ RemoveDone \/ \E s \in Storms : Storm(s)

Spec == Init /\ [][Next]_vars

\* Every thread is scheduled again and again: each calls cond_resched() or
\* sleeps in an RPC.
FairSpec == Spec /\ WF_vars(Case) /\ \A s \in Storms : WF_vars(Storm(s))

-----------------------------------------------------------------------------
\* The types of the variables.
TypeOK ==
    /\ main \in {"open", "target", "spawn", "remove", "recreate", "stop", "join", "clean",
                 "sweep", "rmdir", "over"}
    /\ aborted \in {"no", "open", "target", "spawn", "remove", "recreate"}
    /\ count \in Nat /\ stop \in BOOLEAN /\ dir \in BOOLEAN
    /\ pc \in [Storms -> {"unborn", "poll", "link", "unlink", "complete", "exited", "oops"}]
    /\ i \in [Storms -> 0..(Names - 1)]
    /\ err \in [Storms -> {OK, ENOENT, EEXIST}]
    /\ done \subseteq Storms
    /\ src \in {"absent", "idle", "busy"}
    /\ left \in {"absent", "idle", "busy", "open"}
    /\ links \subseteq Storms \X (0..(Names - 1))
    /\ silly \in [held : Nat, pend : Nat, removing : Nat]

\* However storms, rounds and delayed fputs interleave, a storm meets only
\* the errors the test names, so that a correct client never fails it.
OnlyNamedRaces == \A s \in Storms : err[s] = OK

\* The assertions between the first kthread_run() and the last wait, of
\* 084.c:137, 144 and 147.
Unguarded == {"spawn", "remove", "recreate"}

\* A storm outlives the stack frame that its struct g084_storm, the stop
\* flag and the completion live in only if one of these three assertions
\* ended the case: neither a case that returns nor one that is aborted
\* earlier leaves a storm running.
FrameOutlivesStorms ==
    FrameGone /\ (\E s \in Storms : pc[s] \notin {"unborn", "exited"}) => aborted \in Unguarded

\* When the cleanup gives up on the directory, then because of a REMOVE that
\* was slower than all its attempts, of a file that the aborted case never
\* closed, or of the link of a storm that outlived its frame: no other name
\* and no close that is still under way keeps the directory.
DirectoryEmptied ==
    [][main # "over" /\ main' = "over" /\ dir' =>
         /\ Entries' > 0
         /\ Entries' = silly'.removing + silly'.held + Cardinality(links')
         /\ silly'.held > 0 => aborted # "no"
         /\ links' # {} => aborted \in Unguarded]_vars

\* The case ends: every storm sees the stop flag and signals, or an
\* assertion has failed and nobody waits for the storms.
CaseEnds == <>(main = "over")
=============================================================================
