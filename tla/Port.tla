--------------------------------- MODULE Port ---------------------------------
(***************************************************************************)
(* The control flow of a port of xfstests (module Calls) and its kthreads, *)
(* and the directory its cases work in.  PosixFile and FileClient give the *)
(* steps on file contents their meaning.                                   *)
(***************************************************************************)
EXTENDS Calls, FiniteSets

(* Functions on the cells of one file. *)
Zeros == [c \in Cells |-> 0]
Larger(m, n) == IF m > n THEN m ELSE n
Smaller(m, n) == IF m < n THEN m ELSE n
Extent(at, n) == {c \in Cells : at <= c /\ c < at + n}
Overwrite(fn, at, val) ==
    [c \in Cells |-> IF c \in Extent(at, Len(val)) THEN val[c - at + 1] ELSE fn[c]]
Erase(fn, C) == [c \in Cells |-> IF c \in C THEN 0 ELSE fn[c]]
\* What a read of n cells returns: it is short at the end of the file.
Window(fn, size, at, n) ==
    [i \in 1 .. Larger(0, Smaller(n, size - at)) |-> fn[at + i - 1]]
\* A mapping shows n cells, also those past the end of the file.
Slice(fn, at, n) == [i \in 1 .. n |-> fn[at + i - 1]]
\* llseek(SEEK_DATA) and (SEEK_HOLE) over the cells the server has filled.
FirstOf(C) == <<CHOOSE c \in C : \A d \in C : c <= d>>
NextData(filled, size, at) ==
    LET C == {c \in filled : at <= c /\ c < size}
    IN  IF at < 0 \/ at >= size \/ C = {} THEN ENXIO ELSE FirstOf(C)
NextHole(filled, size, at) ==
    LET C == {c \in 0 .. size : at <= c /\ (c = size \/ c \notin filled)}
    IN  IF at < 0 \/ at >= size THEN ENXIO ELSE FirstOf(C)

-------------------------------------------------------------------------------
VARIABLES
    suite,      \* the port being run, one of Suites
    pc,         \* pc[t]: the step thread t is at; 0 before kthread_run()
    stop,       \* the stop flag the case shares with its kthreads
    failed,     \* an expectation or assertion of the case did not hold
    left,       \* the step whose failed assertion left the case, or 0
    entered,    \* threads that went round their loop
    mark,       \* mark[t]: the size thread t took with i_size_read()
    starved,    \* a case expected of a loop to have run that had not
    dir,        \* the case's directory exists
    names,      \* the files in it
    open,       \* open[f]: open struct files of f
    fputs,      \* files with a closed struct file whose last fput is delayed
    silly       \* a .nfsXXXX entry waits for such an fput

control   == <<suite, pc, mark, stop, failed, left, entered, starved>>
directory == <<dir, names, open, fputs, silly>>

Threads == 1 .. 5
Code(t) == IF t \in DOMAIN suite.code THEN suite.code[t] ELSE <<>>
Step(t) == Code(t)[pc[t]]
At(t, op) == pc[t] \in 1 .. Len(Code(t)) /\ Step(t).op = op
Ended(t) == pc[t] > Len(Code(t))
\* Files unlinked while they are open, whose .nfsXXXX entries stay until the
\* last close.
Pinned == {f \in Files : open[f] > 0 /\ f \notin names}
\* The deferred actions have removed the directory from under the kthreads of
\* an aborted case.  (A probe of 001.c works outside of any.)
DirGone == left # 0 /\ ~dir

PortInit ==
    /\ suite \in Suites
    /\ pc = [t \in Threads |-> IF t = 1 THEN 1 ELSE 0]
    /\ mark = [t \in Threads |-> 0]
    /\ stop = FALSE
    /\ failed = FALSE
    /\ left = 0
    /\ entered = {}
    /\ starved = FALSE
    /\ dir = FALSE
    /\ names = {}
    /\ open = [f \in Files |-> 0]
    /\ fputs = {}
    /\ silly = FALSE

\* What follows a call.  The case goes on after a failed expectation, and a
\* failed assertion leaves it for its deferred actions; a kthread breaks off
\* at an error, which the case expects not to find after the wait.
Follow(t, fine) ==
    /\ pc' = [pc EXCEPT ![t] = CASE fine -> @ + 1
                               [] ~fine /\ t # 1 -> Len(Code(t)) + 1
                               [] ~fine /\ t = 1 /\ Step(t).fatal -> Deferred(Code(t))
                               [] OTHER -> @ + 1]
    /\ left' = IF ~fine /\ t = 1 /\ Step(t).fatal THEN pc[t] ELSE left
    /\ failed' = (failed \/ (~fine /\ (t = 1 \/ left = 0)))
    /\ UNCHANGED <<suite, mark, stop, entered, starved>>

\* The call returned got: compare it with what the thread accepts.
Return(t, got) == Follow(t, got \in Step(t).want)

\* An asserted call of the case fails for want of memory or of an answer, a
\* kthread_run() among them: KUnit ends the case's thread, the kthreads go on
\* with what was its stack, and the deferred actions are next.
Abort(t) ==
    /\ t = 1 /\ left = 0
    /\ pc[t] \in 1 .. Len(Code(t)) /\ Step(t).fatal
    /\ pc' = [pc EXCEPT ![t] = Deferred(Code(t))]
    /\ left' = pc[t]
    /\ UNCHANGED <<suite, mark, stop, failed, entered, starved, directory>>

\* i_size_read() put the size s in the thread's own variable.
Take(t, s) ==
    /\ pc' = [pc EXCEPT ![t] = @ + 1]
    /\ mark' = [mark EXCEPT ![t] = s]
    /\ UNCHANGED <<suite, stop, failed, left, entered, starved>>

\* Where a write goes, in a file of the given size.
Offset(t, size) == CASE At(t, "append") -> size
                     [] At(t, "write_taken") -> mark[t]
                     [] OTHER -> Step(t).at

Jump(t, to) ==
    /\ pc' = [pc EXCEPT ![t] = to]
    /\ UNCHANGED <<suite, mark, stop, failed, left>>

(* Control: kthread_run(), wait_for_completion(), completion_done(), flags. *)
\* A kthread_run() that fails is an Abort.
StartThread(t) ==
    /\ At(t, "start")
    /\ pc' = [pc EXCEPT ![t] = @ + 1, ![Step(t).n] = 1]
    /\ UNCHANGED <<suite, mark, stop, failed, left, entered, starved, directory>>

\* Defect: the case goes on without waiting.
FaultyJoinThread(t) ==
    /\ At(t, "join")
    /\ Jump(t, pc[t] + 1)
    /\ UNCHANGED <<entered, starved, directory>>

JoinThread(t) ==
    /\ At(t, "join")
    /\ Ended(Step(t).n)
    /\ Jump(t, pc[t] + 1)
    /\ UNCHANGED <<entered, starved, directory>>

\* The flag is on the stack of the case: once an assertion has left it, it may
\* read as anything.
LoopHead(t) ==
    /\ \/ /\ At(t, "while_runs")
          /\ Jump(t, IF Ended(Step(t).n) THEN pc[t] + Step(t).at ELSE pc[t] + 1)
       \/ /\ At(t, "while_go") /\ (stop \/ left # 0)
          /\ Jump(t, pc[t] + Step(t).at)
       \/ /\ At(t, "while_go") /\ (~stop \/ left # 0)
          /\ Jump(t, pc[t] + 1)
    /\ UNCHANGED <<entered, starved, directory>>

LoopBack(t) ==
    /\ At(t, "back")
    /\ Jump(t, pc[t] - Step(t).at)
    /\ entered' = entered \cup {t}
    /\ UNCHANGED <<starved, directory>>

CheckEntered(t) ==
    /\ At(t, "entered")
    /\ Jump(t, pc[t] + 1)
    /\ starved' = (starved \/ Step(t).n \notin entered)
    /\ UNCHANGED <<entered, directory>>

\* Defect: the flag the kthreads poll is not set.
FaultyRaiseStop(t) ==
    /\ At(t, "stop")
    /\ Jump(t, pc[t] + 1)
    /\ UNCHANGED <<entered, starved, directory>>

RaiseStop(t) ==
    /\ At(t, "stop")
    /\ pc' = [pc EXCEPT ![t] = @ + 1]
    /\ stop' = TRUE
    /\ UNCHANGED <<suite, mark, failed, left, entered, starved, directory>>

(* The directory of the case. *)
MakeDir(t) ==
    /\ At(t, "mkdir")
    /\ Return(t, IF dir THEN EEXIST ELSE OK)
    /\ dir' = TRUE
    /\ UNCHANGED <<names, open, fputs, silly>>

MakeNode(t) ==
    /\ At(t, "mknod")
    /\ Return(t, IF Step(t).f \in names THEN EEXIST ELSE OK)
    /\ names' = names \cup {Step(t).f}
    /\ UNCHANGED <<dir, open, fputs, silly>>

\* xfs_rmdir(): one attempt, which a leftover entry makes fail.
RemoveDir(t) ==
    /\ At(t, "rmdir")
    /\ Return(t, IF ~dir THEN ENOENT
                 ELSE IF names \cup Pinned # {} \/ silly THEN ENOTEMPTY ELSE OK)
    /\ dir' = (dir /\ (names \cup Pinned # {} \/ silly))
    /\ UNCHANGED <<names, open, fputs, silly>>

\* Defect: nothing is flushed before the attempt.
FaultyRemoveDirSettled(t) ==
    /\ At(t, "rmdir_settled")
    /\ Return(t, IF ~dir THEN ENOENT
                 ELSE IF names \cup Pinned # {} \/ silly THEN ENOTEMPTY ELSE OK)
    /\ dir' = (dir /\ (names \cup Pinned # {} \/ silly))
    /\ UNCHANGED <<names, open, fputs, silly>>

\* xfs_rmdir_settled(): delayed fputs are flushed before the attempt.  The
\* attempts that wait for an asynchronous REMOVE are in module LinkStorm.
RemoveDirSettled(t) ==
    /\ At(t, "rmdir_settled")
    /\ Return(t, IF ~dir THEN ENOENT
                 ELSE IF names \cup Pinned # {} THEN ENOTEMPTY ELSE OK)
    /\ dir' = (dir /\ names \cup Pinned # {})
    /\ fputs' = {}
    /\ silly' = FALSE
    /\ UNCHANGED <<names, open>>

SettleFput(t) ==
    /\ At(t, "settle")
    /\ Return(t, OK)
    /\ fputs' = {}
    /\ silly' = FALSE
    /\ UNCHANGED <<dir, names, open>>

\* The workqueue releases the closed struct files, and with them the entries
\* that were sillyrenamed because of them.
DelayedFput ==
    /\ fputs # {} \/ silly
    /\ fputs' = {}
    /\ silly' = FALSE
    /\ UNCHANGED <<control, dir, names, open>>

OpenOne(f)  == /\ names' = names \cup {f}
               /\ open' = [open EXCEPT ![f] = @ + 1]
               /\ UNCHANGED <<dir, fputs, silly>>
\* Defect: the struct file is put twice.
FaultyCloseOne(f) == /\ open' = [open EXCEPT ![f] = @ - 2]
                     /\ fputs' = fputs \cup {f}
                     /\ UNCHANGED <<dir, names, silly>>
CloseOne(f) == /\ open' = [open EXCEPT ![f] = @ - 1]
               /\ fputs' = fputs \cup {f}
               /\ silly' = (silly \/ f \notin names)
               /\ UNCHANGED <<dir, names>>
\* An unlink of a name whose struct file is not released yet is a rename.
DropName(f) == /\ names' = names \ {f}
               /\ silly' = (silly \/ f \in fputs)
               /\ fputs' = fputs \ {f}
               /\ UNCHANGED <<dir, open>>

\* A rename takes the struct files of f along; a replaced target whose struct
\* file is not released yet is sillyrenamed first.
MoveName(f, g) == /\ names' = (names \ {f}) \cup {g}
                  /\ silly' = (silly \/ g \in names \cap fputs)
                  /\ fputs' = (fputs \ {f, g}) \cup (IF f \in fputs THEN {g} ELSE {})
                  /\ UNCHANGED <<dir, open>>

DirStep(t) == MakeDir(t) \/ MakeNode(t) \/ RemoveDir(t) \/ RemoveDirSettled(t) \/ SettleFput(t)
ControlStep(t) == Abort(t) \/ StartThread(t) \/ JoinThread(t) \/ RaiseStop(t)
                  \/ LoopHead(t) \/ LoopBack(t) \/ CheckEntered(t)

Done == Ended(1)
===============================================================================
