--------------------------------- MODULE Calls --------------------------------
(***************************************************************************)
(* The ports of xfstests generic/NNN (kunit/xfstests/generic/NNN.c) as     *)
(* programs: a case is a sequence of steps per thread, a step is one call  *)
(* of the case (a system call on the NFS mount, or one of its helpers in   *)
(* nfs_fixture.c) with the results the case accepts.  This module has the  *)
(* steps and the idioms the cases are put together from; DataPorts,        *)
(* SpacePorts and ThreadPorts have the cases; Port, PosixFile and          *)
(* FileClient say what the steps do.                                       *)
(*                                                                         *)
(* Bytes are grouped into cells: a port's cells are the intervals between  *)
(* the offsets and lengths it names, so that every call covers whole       *)
(* cells.  Sizes and offsets count cells.                                  *)
(***************************************************************************)
EXTENDS Integers, Sequences, FiniteSets

CONSTANTS
    Suites,     \* the ports that are run: records of a number and the threads' code
    Files,      \* the names a case uses in its directory
    Limit       \* cells of the largest file the export can hold

ASSUME LimitAssumption == Limit \in Nat \ {0}

Cells == 0 .. Limit - 1

\* Results are sequences of integers: the cells read, or a size, or an error.
OK      == <<0>>
ENOENT  == <<-2>>
ENXIO   == <<-6>>
EBADF   == <<-9>>
EEXIST  == <<-17>>
EINVAL  == <<-22>>
EFBIG   == <<-27>>
ENOSPC  == <<-28>>
ENOTEMPTY == <<-39>>

-------------------------------------------------------------------------------
(* Steps: f and g are files, at and to offsets, n a length or a thread, val *)
(* the cells to write, want the set of results the case accepts, fatal      *)
(* whether a KUNIT_ASSERT checks it, which leaves the case if it fails.     *)
Call(op) == [op |-> op, f |-> "", g |-> "", at |-> 0, to |-> 0, n |-> 0,
             val |-> <<>>, want |-> {OK}, fatal |-> FALSE]
Asserting(calls) == [i \in DOMAIN calls |-> [calls[i] EXCEPT !.fatal = TRUE]]
On(op, f) == [Call(op) EXCEPT !.f = f]
Put(op, f, at, val) == [On(op, f) EXCEPT !.at = at, !.val = val]
Area(op, f, at, n) == [On(op, f) EXCEPT !.at = at, !.n = n]
Get(op, f, at, n, want) == [Area(op, f, at, n) EXCEPT !.want = want]

Mkdir          == Call("mkdir")
Rmdir          == [Call("rmdir") EXCEPT !.want = {OK, ENOENT, ENOTEMPTY}]
RmdirSettled   == [Call("rmdir_settled") EXCEPT !.want = {OK, ENOENT, ENOTEMPTY}]
Settle         == Call("settle")
Unlink(f)      == On("unlink", f)
TryUnlink(f)   == [On("unlink", f) EXCEPT !.want = {OK, ENOENT}]
Creat(f)       == On("creat", f)            \* O_CREAT | O_TRUNC, or O_EXCL of a new name
CreatExcl(f)   == On("excl", f)             \* O_CREAT | O_EXCL
Rename(f, g)   == [On("rename", f) EXCEPT !.g = g]
OpenCreat(f)   == On("open_creat", f)       \* O_CREAT alone
Mknod(f)       == On("mknod", f)            \* a device node or a fifo
Open(f)        == On("open", f)
Close(f)       == On("close", f)            \* of a file open for writing
CloseRO(f)     == On("close_ro", f)
Write(f, at, val)   == Put("write", f, at, val)     \* kernel_write()
MWrite(f, at, val)  == Put("mwrite", f, at, val)    \* through a shared mapping
DWrite(f, at, val)  == Put("dwrite", f, at, val)    \* xfs_direct_write()
AppendTo(f, val)    == Put("append", f, 0, val)     \* O_APPEND
Trunc(f, n)         == Area("trunc", f, 0, n)
Alloc(f, at, n)     == Area("alloc", f, at, n)    \* vfs_fallocate(f, 0, ..)
NoSpace(f, at, n)   == [Alloc(f, at, n) EXCEPT !.want = {ENOSPC}]
Punch(f, at, n)     == Area("punch", f, at, n)
Fsync(f)            == On("fsync", f)
Drop(f)             == On("drop", f)                \* invalidate_inode_pages2()
Kick(f)             == On("kick", f)                \* filemap_flush()
\* Reads: of n cells with any result of W, and of exactly the cells v.
ReadAny(f, at, n, W)   == Get("read", f, at, n, W)        \* kernel_read()
Read(f, at, v)         == ReadAny(f, at, Len(v), {v})
RangeAny(f, at, n, W)  == Get("read_range", f, at, n, W)  \* xfs_read_range()
ReadRange(f, at, v)    == RangeAny(f, at, Len(v), {v})
DReadAny(f, at, n, W)  == Get("dread", f, at, n, W)       \* xfs_direct_read()
DRead(f, at, v)        == DReadAny(f, at, Len(v), {v})
MRead(f, at, v)        == Get("mread", f, at, Len(v), {v})  \* through a mapping
SReadAny(f, at, n, W)  == Get("sread", f, at, n, W)       \* below XFS_EXPORT
SRead(f, at, v)        == SReadAny(f, at, Len(v), {v})
Size(f, n)             == Get("size", f, 0, 0, {<<n>>})   \* xfs_kstat()
SSize(f, n)            == Get("ssize", f, 0, 0, {<<n>>})
Missing(f)             == [Size(f, 0) EXCEPT !.want = {ENOENT}]
SizeAny(f, W)          == Get("size", f, 0, 0, W)
Blocks(f, W)           == Get("blocks", f, 0, 0, W)       \* st_blocks
SeekData(f, at, r)     == Get("seek_data", f, at, 0, {r})
SeekHole(f, at, r)     == Get("seek_hole", f, at, 0, {r})
Copy(f, at, g, to, n, r) ==                               \* copy_file_range()
    [Area("copy", f, at, n) EXCEPT !.g = g, !.to = to, !.want = {<<r>>}]
\* A copy the VFS refuses because of how g is open or what it is.
CopyRefused(f, g, err) == [On("refused", f) EXCEPT !.g = g, !.val = err, !.want = {err}]
\* i_size_read() into the thread's own variable, and a write at that offset.
TakeSize(f)            == On("take_size", f)
WriteTaken(f, val)     == Put("write_taken", f, 0, val)
Start(t)       == [Call("start") EXCEPT !.n = t]
Join(t)        == [Call("join") EXCEPT !.n = t]
Stop           == Call("stop")
\* while (!completion_done(t)) body, while (!stop) body, and an expectation
\* that the loop of t was entered.
WhileRuns(t, body) == <<[Call("while_runs") EXCEPT !.n = t, !.at = Len(body) + 2]>>
                      \o body \o <<[Call("back") EXCEPT !.at = Len(body) + 1]>>
WhileGo(body) == <<[Call("while_go") EXCEPT !.at = Len(body) + 2]>>
                 \o body \o <<[Call("back") EXCEPT !.at = Len(body) + 1]>>
Entered(t)     == [Call("entered") EXCEPT !.n = t]

\* Every step of the ports is well formed: files are files of the case,
\* lengths and offsets are counts of cells, what is written are cells, and
\* only a write, a truncation or an allocation may ask for more than the
\* export can hold.
ControlOps == {"mkdir", "rmdir", "rmdir_settled", "settle", "start", "join", "stop",
               "while_runs", "while_go", "back", "entered"}
WellFormed(s) ==
    /\ s.op \notin ControlOps => s.f \in Files
    /\ s.op \in {"rename", "copy"} => s.g \in Files
    /\ s.op \notin {"seek_data", "seek_hole"} => s.at \in Nat /\ s.n \in Nat
    /\ s.op \in {"write", "append", "write_taken", "mwrite", "dwrite"} => s.val \in Seq(Nat)
    /\ s.op = "dwrite" => s.at + Len(s.val) <= Limit
    /\ s.op = "copy" => s.to \in Nat /\ s.to + s.n <= Limit

ASSUME StepsAssumption ==
    \A suite \in Suites : \A t \in DOMAIN suite.code : \A k \in 1 .. Len(suite.code[t]) :
      WellFormed(suite.code[t][k])

-------------------------------------------------------------------------------
(* The shape of the programs: the C of the ports is structured, and a case   *)
(* waits for its kthreads, closes what it opens and unlinks what it creates. *)

\* A loop ends in a step back to its head, and leaving it goes past that
\* step; threads are not started or joined, and names not removed, in a loop.
Heads == {"while_runs", "while_go"}
LastOf(c, k) == k + c[k].at - 1
Structured(c) ==
    /\ Len(c) \in Nat
    /\ \A k \in 1 .. Len(c) : c[k].op \in Heads =>
         /\ c[k].at > 1 /\ LastOf(c, k) <= Len(c)
         /\ c[LastOf(c, k)].op = "back"
         /\ \A i \in k .. LastOf(c, k) : c[i].op \notin {"start", "join", "unlink"}
    /\ \A k \in 1 .. Len(c) : c[k].op = "back" =>
         /\ c[k].at < k
         /\ c[k - c[k].at].op \in Heads
         /\ LastOf(c, k - c[k].at) = k

ASSUME StructureAssumption == \A suite \in Suites :
    /\ 1 \in DOMAIN suite.code
    /\ \A t \in DOMAIN suite.code : Structured(suite.code[t])

\* Every kthread_run() is followed by the one wait_for_completion() of that
\* thread, and only the case itself starts threads, each of them once.
Waits(c, t) == {k \in 1 .. Len(c) : c[k].op = "join" /\ c[k].n = t}
Joining(code) ==
    \A t \in DOMAIN code : \A k \in 1 .. Len(code[t]) : code[t][k].op = "start" =>
      LET n == code[t][k].n
      IN  /\ t = 1 /\ n \in 2 .. 5
          /\ \E j \in Waits(code[1], n) : k < j /\ Waits(code[1], n) = {j}
          /\ \A i \in 1 .. Len(code[1]) : code[1][i].op = "start" /\ code[1][i].n = n => i = k

ASSUME JoinAssumption == \A suite \in Suites : Joining(suite.code)

\* The deferred actions that KUnit runs when the case returns or an assertion
\* has left it: the calls at the end that only remove.
DeferredOps == {"unlink", "rmdir", "rmdir_settled"}
Deferred(c) == CHOOSE k \in 1 .. Len(c) + 1 :
    /\ \A i \in k .. Len(c) : c[i].op \in DeferredOps
    /\ k > 1 => c[k - 1].op \notin DeferredOps

\* They are not asserted, and only the case asserts.
Deferring(code) ==
    /\ Deferred(code[1]) \in 1 .. Len(code[1]) + 1
    /\ \A i \in Deferred(code[1]) .. Len(code[1]) :
         code[1][i].op \in DeferredOps /\ ~code[1][i].fatal
    /\ \A t \in DOMAIN code \ {1} : \A k \in 1 .. Len(code[t]) : ~code[t][k].fatal

ASSUME DeferredAssumption == \A suite \in Suites : Deferring(suite.code)

\* The struct files of f that code c has open at step k: those it has opened
\* less those it has closed.
IsOpen(s, f) == s.op \in {"creat", "excl", "open_creat", "open"} /\ s.f = f /\ OK \in s.want
IsClose(s, f) == s.op \in {"close", "close_ro"} /\ s.f = f
Held(c, f, k) == Cardinality({i \in 1 .. k - 1 : IsOpen(c[i], f)})
                 - Cardinality({i \in 1 .. k - 1 : IsClose(c[i], f)})
\* An open has to succeed or has to fail, a thread closes what it has open
\* itself, a round of a loop closes what it opens, and so does the thread.
Closing(c) ==
    /\ \A k \in 1 .. Len(c) : \A f \in Files : IsOpen(c[k], f) => c[k].want = {OK}
    /\ \A f \in Files : \A k \in 1 .. Len(c) : Held(c, f, k) >= 0
    /\ \A f \in Files : \A k \in 1 .. Len(c) :
         c[k].op \in Heads => Held(c, f, LastOf(c, k)) = Held(c, f, k)
    /\ \A f \in Files : Held(c, f, Len(c) + 1) = 0

ASSUME CloseAssumption ==
    \A suite \in Suites : \A t \in DOMAIN suite.code : Closing(suite.code[t])

\* A case that removes its directory with xfs_rmdir_settled() does so last,
\* and unlinks every name it or one of its kthreads has created before that;
\* one that asserts does so in its deferred actions.
Asserts(c) == \E k \in 1 .. Len(c) : c[k].fatal
Created(s) == CASE s.op \in {"creat", "excl", "open_creat", "mknod"} -> {s.f}
                [] s.op = "rename" -> {s.g}
                [] OTHER -> {}
Removals(c, f) == {k \in 1 .. Len(c) : c[k].op = "unlink" /\ c[k].f = f}
Settles(c) == \E k \in 1 .. Len(c) : c[k].op = "rmdir_settled"
Cleaning(code) == Settles(code[1]) =>
    /\ code[1][Len(code[1])].op = "rmdir_settled" /\ Deferred(code[1]) <= Len(code[1])
    /\ \A t \in DOMAIN code : \A k \in 1 .. Len(code[t]) : \A f \in Created(code[t][k]) :
         \A i \in (IF t = 1 THEN {k} ELSE Waits(code[1], t)) :
           \E j \in Removals(code[1], f) :
             i < j /\ (Asserts(code[1]) => Deferred(code[1]) <= j)

ASSUME CleanupAssumption == \A suite \in Suites : Cleaning(suite.code)

-------------------------------------------------------------------------------
(* Idioms of the cases. *)
Fill(n, v) == [i \in 1 .. n |-> v]

\* mkdir, the body, and the deferred cleanup of the case: the files it made are
\* unlinked and the directory is removed by xfs_rmdir_settled().
CaseOf(files, body) ==
    <<Mkdir>> \o body \o [i \in DOMAIN files |-> TryUnlink(files[i])] \o <<RmdirSettled>>
\* The same with xfs_rmdir() for xfs_rmdir_settled().
HastyCaseOf(files, body) ==
    <<Mkdir>> \o body \o [i \in DOMAIN files |-> TryUnlink(files[i])] \o <<Rmdir>>

\* xfs_write_new_file().
WriteNewFile(f, v) == <<Creat(f), Write(f, 0, v), Close(f)>>
\* One call between an open and a close of the file.
Opened(f, calls) == <<Open(f)>> \o calls \o <<Close(f)>>
OpenedRO(f, calls) == <<Open(f)>> \o calls \o <<CloseRO(f)>>
\* The client's view and the server's of a whole file, without and with sizes.
Both(f, v) == <<ReadRange(f, 0, v), SRead(f, 0, v)>>
BothSized(f, v) == <<Size(f, Len(v)), ReadRange(f, 0, v), SSize(f, Len(v)), SRead(f, 0, v)>>
\* A sequence of reads of one cell each, from the given one on.
CellByCell(f, at, v) == [i \in DOMAIN v |-> ReadRange(f, at + i - 1, <<v[i]>>)]
\* copy_file_range() of n cells of f into g, which open opens; r of them are copied.
CopyInto(f, at, open, to, n, r) ==
    <<Open(f), open, Copy(f, at, open.f, to, n, r), Close(open.f), CloseRO(f)>>
\* A write whose source is a mapping of f: the pages are faulted in (and are v),
\* then written by the given step.
FromMapping(f, at, v, write) == <<MRead(f, at, v), write>>
===============================================================================
