# TLA+ models of NFSPlayground

NFSPlayground tests the Linux NFS client and server. Its own code is a set of
KUnit suites that run inside a User-Mode-Linux kernel: a loopback NFS
deployment (`kunit/xfstests/nfs_fixture.c`), some 145 C ports of xfstests
`generic/*` cases that run on it, unit suites for the NFS client and SUNRPC,
and scripts that wire all of it into a kernel tree and run it. This directory
models the parts of that code whose correctness depends on order, concurrency,
failure or reference counts, checks the models with TLC and proves the central
results with TLAPS.

Paths below are relative to the repository's root.

## 1. Inventory

| part | state it keeps | operations | what is hard about it |
|---|---|---|---|
| Fixture: bring-up, teardown, get, put (`nfs_fixture.c`) | `xfs_fixture_refs`, `xfs_fixture_lock`, `xfs_env` flags, `xfs_bringup_root`, `xfs_export_mount_opts`, `xfs_hostbin_mounted`; in the kernel: mount stacks, export caches, nfsd's sockets and threads | `xfstests_nfs_get`, `_put`, `_export_opts`, `xfs_scratch_mount/umount`, `xfs_remount_client`, `xfs_hostbin_mount` | partial failure of an eight step bring-up; order of teardown against a hard NFS mount; delayed fputs, stragglers and leaked files that keep mounts busy; bounded retry loops; what one suite leaves to the next |
| Credential switching (`nfs_fixture.c`) | `xfs_saved_creds`, `xfs_override`, the kernel's cred reference counts | `xfs_switch_creds`, `xfs_seteuid`, `xfs_restore_creds`, `xfs_access` | two kernels with opposite reference contracts for `override_creds()`; a case that dies while switched and whose deferred action restores from another thread |
| Userspace programs (`nfs_fixture.c`, `generic/127.c`) | the shared hostfs mount, the log sequence number, one job per kthread | `xfs_run_prog`, `xfs_hostbin_mount/umount`, spawn and join | concurrent callers of a lazily made mount; decoding of wait statuses; jobs that die with the case |
| generic/084 link storm | the target, links, `.nfsXXXX` entries, a stop flag on the case's stack | storm kthreads, rounds, join, `xfs_rmdir_settled` | link/unlink races, sillyrenames pending on delayed fputs |
| generic/604 unmount race | the scratch mount stack, two looked-up paths | umount kthread, second mount, sweeps | only a sleep orders the two |
| VFS helpers (`xfs_read_range`, `xfs_direct_write`, `xfs_truncate`, `xfs_setxattr`, `xfs_posix_lock`, ...) | none | one VFS call each | short reads and writes, what each one flushes, error mapping |
| 56 sequential ports on file contents and space | files of one test directory; in the kernel: the client's page cache and sizes, the server's file, delayed fputs | opens, buffered, direct and mapped writes, truncation, allocation, punching, copying, seeking, with the expected result of each | writeback, reclaim and fputs happen at any time between two calls; the client's and the server's view are compared |
| 14 ports with kthreads on file contents | the same, with completions and stop flags on the case's stack | start, poll, stop and join kthreads that read or write the same file | direct against buffered against mapped I/O, loops that race a completion |
| The other 71 ports | names, attributes, xattrs, locks, directory streams | sequences of helper calls with expected results | a few run kthreads (028, 037, 310, 354, 437, 504, 707) |
| Unit suites (`kunit/*_test.c`) | local objects | calls into kernel code that is not in the repository | pure computations, boundary values |
| Runner (`scripts/kunit/run-nfs-kunit.sh`), source fetching | a kernel tree it edits | wire, configure, run | interrupted and repeated runs |
| Port status, coverage tools | none | text processing | interval merging |
| xfstests runners, CI, patches | outside systems | provisioning | - |

Interactions: a suite's `suite_init` calls `xfstests_nfs_get()`, its cases call
the helpers on the mounted client, and `suite_exit` calls
`xfstests_nfs_put()`. KUnit runs a case in one kthread and its deferred
actions in another; suites run one after another. Cases close files from
kernel threads, so that the real close happens later, on the delayed-fput list,
which every unmount and every `rmdir` of a sillyrenamed directory has to flush.

What makes each part correct:

* fixture: the deployment is complete whenever a suite holds it, nobody pulls
  it down early, no NFS mount outlives its server, a suite never sees the
  mounts or options of another one, and nothing is left between suites;
* credentials: no cred is freed while it is used, none leaks, permission checks
  really apply while switched, and the thread ends as root;
* programs: the binary is there, logs do not mix, every bad end is reported
  and no good one, jobs are not freed under a running kthread;
* ports: a correct client never fails a case, whatever the kernel does between
  two calls, the case ends, stack objects outlive the kthreads that use them
  unless an assertion gets in between, and the case's directory does not stay
  behind.

The hazards are listed one by one, each at its line, in `PROJECT.json`.

## 2. Modules

| module | models |
|---|---|
| `Deployment` | the abstract promise of get/put: one deployment, raised by one suite, that exists as long as somebody holds it |
| `Fixture` | `xfs_bringup()`, `xfs_teardown()`, get, put, the settling loops, scratch, remount and hostfs, over the kernel's mounts, sockets and export caches |
| `FixtureProofs` | theorems about `Fixture`: the refinement of `Deployment`, the order of bring-up and teardown |
| `FixtureCleanProofs` | extends it: what suites that run one after another find and leave |
| `Creds` | credential switching over reference-counted creds |
| `CredsProofs` | theorems about `Creds` |
| `RunProg`, `RunProgProofs` | `xfs_run_prog()` under the kthreads of generic/127, and theorems about it |
| `LinkStorm`, `LinkStormProofs` | generic/084 and `xfs_rmdir_settled()`, and theorems |
| `UmountRace`, `UmountRaceProofs` | generic/604 and `xfs_scratch_umount()`, and theorems |
| `Calls` | the steps of a port, the shape its programs have, and the idioms its cases are put together from |
| `Port` | the control flow of a port and its kthreads, and its directory |
| `PosixFile` | what the ports are entitled to: files without a cache |
| `FileClient` | the same steps over the client's page cache and the server's file |
| `FileClientProofs` | theorems about `FileClient`, with the refinement of `PosixFile` |
| `PortProofs` | extends it: control flow, struct files and directory of the ports |
| `DataPorts`, `SpacePorts` | 56 sequential ports, one definition (or a few) per `generic/NNN.c` |
| `ThreadPorts` | 14 ports with kthreads |
| `MCFixture`, `MCCreds`, `MCRunProg`, `MCLinkStorm`, `MCDataPorts`, `MCThreadPorts` | the small sets the configurations give to the constants |

`Faulty...` operators are deliberate defects. No action uses them; each is
recorded in `PROJECT.json` with the property that must fail when it takes the
place of the definition it follows.

### Fixture

A suite is a caller with a program counter. `pc[s]` names the place in
`xfs_bringup()` (`lo`, `mkdirs`, `tmpfs`, `nfsdfs`, `exports`, `nfsd`,
`client`, `root`), in the cases (`cases`, and `c_scratch`, `c_ro` inside the two
retry loops a case can call), or in `xfs_teardown()` (`td_hostbin` ...
`td_end`). The globals of `nfs_fixture.c` are variables of their own; `mounts`
maps each mount point to its stack of mounts. A mount carries the suite that
made it, the export options it was made with, whether it is read-only, and the
kinds of references that keep it busy:

* `pend`, a closed file on the delayed-fput list: `flush_delayed_fput()` in a
  settling loop, or the worker (`DelayedFput`), releases it;
* `late`, asynchronous writeback that ends on its own (`LateDone`);
* `leak`, a file that a dying case left open: only the lazy detach gets past it;
* `cache`, the svc_export entry, which the end of nfsd releases.

Each action is one step of the code between two points where another thread or
a failure can matter; a failing step goes to `td_hostbin`, as get's error path
calls `xfs_teardown()`. `FailAt` says which steps may fail. `Overlap` drops
KUnit's serialisation of suites, to separate what the mutex and the reference
count give from what KUnit's order gives.

### Creds

`current` holds the two cred pointers of the running thread, `usage` the
reference counts, `attr` what each cred permits. `counted` is the kernel: if
true, `override_creds()` takes a reference and `revert_creds()` drops one,
otherwise they only swap pointers. A case may die between a switch and its
restore only on the kernel that counts (`CaseExit`). On the other one the code is
not safe against it: the exit of the case's thread drops the only reference of
the override cred, and the deferred `xfs_restore_creds()` puts it again. The
ports avoid it by making no fatal assertion while switched.

### RunProg, LinkStorm, UmountRace

Each has one program counter for the case's thread and one per kthread; a step
is what happens between two calls that another thread can interleave with.
Completions are modelled as sets of signalled kthreads. `RunProg` keeps a
history variable, `outcome`, with what really became of each program, against
which the case's verdict is compared. `LinkStorm` counts `.nfsXXXX` entries by
the reason they still exist. In `UmountRace` a lookup takes a reference on the
top mount and the later call works on what was found.

A KUNIT_ASSERT that fails ends the case's thread where it stands. In `LinkStorm`
every assertion after the setup of the directory may fail (`Abort`): of writing, opening
or unlinking one of the open files, of creating the target, of any `kthread_run()`
(084.c:137), and of removing or recreating the target in any round (084.c:144 and
147). `aborted` keeps which. The deferred `g084_remove_tree()` follows, in two
actions (`CleanLinks`, `CleanFiles`) so that storms that were left running can get
in between. Such a storm polls a flag in memory that is no longer
the case's: what it reads is any value (`Poll`), and the access may also kill it
(`Oops`), which is all that undefined behaviour is modelled as; it is not modelled that
the storm writes its result over somebody else's data. The assertions of the
mkdir and of the registration of the cleanup are taken to hold: nothing has been
started or opened when they fail.

### Calls, Port, FileClient, PosixFile and the ports

A port is data: the code of each of its threads is a sequence of step records
(operation, file, offset, cells, accepted results), and `FileClient` interprets
whatever program the constant `Suites` gives it. `Code(1)` is the case's
thread, from the mkdir to the deferred cleanup; every `kthread_run()` of the port
has a code of its own, which `Start` sets going and `Join` waits for.

`Asserting` marks the steps of `ThreadPorts` that the case checks with a KUNIT_ASSERT,
`kthread_run()` among them. If such a step returns something the case does not
accept (`Follow`), or fails for want of memory or of an answer (`Abort`, at any of them
and at any time), the case goes to its deferred actions, `left` keeps the step
at which, and nobody sets a flag, waits or closes a file any more. The
kthreads that run go on, with files in a directory that is being removed
(`DirGone`: their opens then fail), and the stop flag they poll may read as anything
(`LoopHead`). A kthread breaks off at its first error; an expectation that fails
lets the case go on. So a kthread can be left behind by

* a later `kthread_run()` that fails: 464;
* an assertion of the case's own calls between `kthread_run()` and the wait: 247, 340,
  344, 346, 364, 438, 524, 615,

and by no other port: 133, 391, 446, 591 and 761 have no assertion in between.
The steps of `DataPorts` are not marked, since no kthread is at stake there; a
file that an assertion leaves open is what `leak` in `Fixture` is about.

Bytes are grouped into cells: the intervals between the offsets and lengths a
port names, so that every call covers whole cells. Byte patterns are small
numbers, 0 is zero bytes. A comparison of the port is the `want` set of the step
that reads; a result outside it sets `failed`. Where a port draws random
numbers, the definition is the set of the programs it may become.

`FileClient` keeps, per file, the client's size, its cached cells and which of
them are dirty, and the server's size, cells and allocated cells. `Writeback`
may write any dirty cell at any time, `Reclaim` may drop the clean ones,
`DelayedFput` may release closed struct files, none of them need. Calls flush as
the client does: close (of a writer), fsync, truncate, fallocate, direct I/O,
stat, llseek and copy. A direct write drops the cells it wrote; a truncation
drops what is cached past the end; growth drops what a mapping left in the tail
of the last page. An unlink, or a rename over a name, whose struct file is not
released yet leaves a `.nfsXXXX` entry (`silly`) until the fput.

`PosixFile` has one copy of each file. A read below `XFS_EXPORT` must agree with
it once the file is `synced`; between a write and the next sync the server may
show anything. A store through a mapping past the end of a file stays visible in
that mapping until the page is reclaimed (`Reclaim`) or the file grows over it:
the client's page cache behaves so, POSIX leaves it open, and no port depends on
it. `FileClient!ImplementsPosix` maps the content to what a cached read would
see, and `synced` to "no dirty cells".

## 3. Runs

| run | instance | shows |
|---|---|---|
| `FixtureSequential` | 2 suites in KUnit's order, one with its own export options; every kind of leftover reference; up to 2 stacked scratch mounts; no failures | types; each suite gets its own mounts and options; no get fails because of what an earlier suite left; nothing stays between suites except an export pinned by a leaked file |
| `FixtureOverlap` | 2 suites at once, every step of bring-up may fail, files leak, two attempts per loop | the refcount counts holders, the deployment is complete and stable while held, no NFS mount without server whatever failed, `Deployment` is implemented, get and put return |
| `FixtureFailures` | 2 suites in KUnit's order, failures of the steps that teardown undoes, closed and leaked files | nothing is left after a failed bring-up either |
| `FixtureHalfBuilt` | 2 suites, every step may fail | **violation**: see finding 1 |
| `Creds` | both kernels; on the one that counts, cases may die while switched | no use after free, no leak, permission checks apply while switched, root at the end |
| `RunProg` | 3 jobs, every failure, the edge values of every kind of wait status | private logs, the one mount, no job freed under its kthread, nothing left, the exact verdict, the case ends |
| `LinkStorm` | 2 storms, 2 names, 3 rounds, slow REMOVEs, any assertion may fail | only tolerated errors; a storm outlives the stack frame only by the assertions of 084.c:137, 144 and 147; only a slow REMOVE, an unclosed file or such a storm can keep the directory; the case ends |
| `UmountRace` | 12 files, any interleaving | the mount succeeds, something usable stays, an unmount within the sleep succeeds, nothing hangs or is left |
| `UmountRaceLate` | 2 files, the unmount may come after the sleep | **violation**: see finding 2 |
| `DataPorts` | the 56 sequential ports, some 780 programs, 4 names, files of up to 8 cells | no expectation of any of them fails whatever the timing of writeback, reclaim and fputs; a directory removed with `xfs_rmdir_settled()` is gone; the cached client implements `PosixFile` |
| `ThreadPorts` | the 14 ports with kthreads, up to 4 of them beside the case; any asserted call may fail | no expectation fails in any interleaving but for the call that fails; a clean cached cell is what the server holds and sizes differ only by dirty cells; a kthread outlives its case only by an assertion between its start and its wait; every case ends |
| `LoopsEntered` | the same ports | **violation**: see finding 3 |

### Bounds, and why they are enough

* `MaxTries` is 20 in the code, 1 to 3 in the runs: a loop is left by success,
  by "nothing mounted" or by exhaustion, and both kinds of exit and a repeated
  attempt occur with 2. With 1 the loop still makes one attempt before it gives
  up.
* `ScratchTries` is 8 in the code and 1 or 2 in the runs, with as many stacked
  mounts (`MaxScratch`), the worst case. The assumption `MaxScratch <=
  ScratchTries` is what the ports respect; more mounts than sweeps would leave
  one without a server.
* Two suites are enough for what one leaves to the next, and for one that joins
  while the other leaves; the theorems hold for any number.
* `CredIds` has 4 members: a switched case inside `xfs_access()` uses three.
* `Rounds` is 3 and `Names` 2 in `LinkStorm`: a name is reused and the target
  disappears before, between and after the uses of a link.
* `Files` of `UmountRace` is G604_FILES; `SweepTries` is 3, one more than can be mounted.
* `Limit` is 8 cells, the most a port needs, and at the same time the largest
  file of the export and the RLIMIT_FSIZE of 394, so that the ports about a
  limit (213, 308, 394) meet it exactly.
* Rounds of a port that all do the same are cut to two (three where the third
  differs), a verification in chunks to one read, four or more workers that
  differ only by number to two or three; each definition says what it cut. Two
  rounds are what it takes for one round to meet what the other left cached,
  dirty or sillyrenamed.

### Fairness

Safety runs use none. `Fixture!FairSpec` assumes that a thread inside get, put
or a retry loop is scheduled, and that KUnit starts and ends suites; nothing is
assumed of what a case does, of the delayed-fput worker or of stragglers,
because the loops are bounded and flush by themselves. `RunProg!FairSpec` adds
that a started program ends: fsx runs a fixed number of operations.
`LinkStorm!FairSpec` and `UmountRace!FairSpec` assume only that each thread runs;
each of their steps ends because the loopback server stays up until
`suite_exit`, which `ServerOutlivesMounts` shows of the fixture. `FileClient!FairSpec` assumes
the same of the case's thread of a port, and of its kthreads as long as no assertion
has left the case (after that nobody waits for them, and they may die), and
nothing of writeback, reclaim or the
fput worker: a flush that a call needs is part of the call.

## 4. Findings

1. `FixtureHalfBuilt`: nfs_fixture.c:1300 calls `xfs_teardown()` to "clean up a
   half-built stack". If an export line fails after the svc_export one, or a
   listener fails in `xfs_start_nfsd()`, `nfsd_up` was never set, so
   `xfs_stop_nfsd()` is skipped: the export cache keeps the tmpfs busy and the
   service stays with its UDP socket, so that every later bring-up fails.
2. `UmountRaceLate`: 604.c:8 says both commands succeed. Only `msleep(10)` orders
   them; a later unmount meets the mount's lookup and returns -EBUSY, which
   line 95 reports as a failure of a correct client.
3. `LoopsEntered`: 364.c:112 expects "no fsync ever ran" not to be the case, but
   the writer kthread may complete before the loop at line 104 looks at it for the
   first time, and 438.c:131 and 615.c:131 expect the same of a kthread that may
   first be scheduled after the stop flag is set.

Three smaller remarks, without a run: nfs_fixture.h:6-7 says that consecutive
suites share one deployment, but with KUnit's order every put is the last one and
lines 39-40 of the same header say that the fixture re-mounts per suite; 084.c:27
says that the port checks that the directory can be emptied, but the result of
`xfs_rmdir_settled()` is dropped; and a KUNIT_ASSERT that fails between a `kthread_run()`
and its wait (084.c:137, 144 and 147, 464.c:156 and the ports listed under `Port`
above) leaves kthreads on a stack that is gone, in 084, 438 and 615 with a stop flag that nobody
sets. No comment or test promises otherwise; `FrameOutlivesStorms` and `WorkersJoined`
say that these are the only places where it can happen.

## 5. Proofs

### FixtureProofs, from `FixtureAssumption`

For every finite set of suites, all bounds, leftovers and failures, overlapping
or not:

* `TypeCorrect`: `Spec => []TypeOK`;
* `RefsCounted`: `Spec => []RefsCountHolders`;
* `AlwaysMounted`: `Spec => []MountedWhileHeld`;
* `StableWhileHeld`: `Spec => HeldDeploymentIsStable`;
* `Refinement`: `Spec => ImplementsDeployment`.

None of these is inductive. `IInv` adds to `TypeOK` and the properties:

* `LockInv`: a suite is inside bring-up or teardown exactly when it has the lock,
  so at most one is, and while it is nobody holds the deployment;
* `StageInv`: what each place in bring-up already has (after `exports` all three
  lines, after `nfsd` threads and both sockets, ...), which is what makes the
  last step establish `MountedWhileHeld`;
* the count as a cardinality, which needs the facts of `FiniteSetTheorems` about
  adding and removing one element.

The proof that a step preserves it has one step per action. The mount stacks
are handled through lemmas about `Push`, `Pop`, `Flush`, `Repin`, `Remount` and
`Uncached` (what each does to types and to which stacks are empty), so that the
actions need not expand nested EXCEPTs. The refinement maps `owner` to `root`
and `holders` to the counted suites; `RootInv` relates the two, and each step
is a step of `Deployment` or leaves both unchanged.

### CredsProofs, from `CredsAssumption`

For any users and any set of creds, under both contracts:
`NeverFreedWhileUsed`, `NoCredLeaks`, `DacAlwaysApplies`, `AlwaysRootAgain`.
The inductive invariant `CInv` is `TypeOK`, `Exact` (the count of each cred is
exactly the number of pointers that own a reference to it under the kernel's
contract), `Shape` (which pointers can be set at which time, and which differ)
and `Identities` (which identity each pointer's cred gives). `CurrentNeverFreed` is
not inductive because a count that is positive but too small breaks it only
some steps later.

### FixtureProofs, second part: the order, from `FixtureAssumption`

* `ServerAlwaysOutlives`: `Spec => []ServerOutlivesMounts`, for every set of
  suites, overlapping or not, every bound and every set of failing steps.

A mount without a server is the end of a chain of omissions, so the invariant
has to follow the chain. `OrderInv` says, beside `IInv`, where a suite stands and
what is then known (`Place`: no threads before `client` or after `td_nfsd`; no
scratch mount at `td_client`; the sweeps done and the mounts left at `td_scratch`
are together at most `ScratchTries`), that the flags teardown goes by know of every
client mount and of the server (`Stacks`), and that nothing runs while nobody
has the lock or the deployment (`Idle`). `MaxScratch <= ScratchTries` is used
once, where the last sweep must leave nothing: without it the theorem is false.

### FixtureCleanProofs, from `FixtureAssumption` and KUnit's order

With `~Overlap`:

* `AlwaysFresh`: `Spec => []FreshDeployment`, whatever steps fail;
* `AlwaysClean`: `Spec => []CleanBetweenSuites`, if the steps in `{"exports",
  "nfsd", "hostbin"}` do not fail;
* `GetAlwaysSucceeds`: `Spec => []GetSucceeds`, if no step fails;
* `LossAlwaysBounded`: `Spec => []BoundedLoss`, whatever steps fail. Between suites
  the flags, options and root are reset, nothing but exports is mounted, and all that can
  be left is a service without threads and with no listener but UDP, the directory
  for the programs, lines in the export caches, and at most one export of each
  suite that has ended: the losses do not pile up;
* `FailuresStayLocal`: `Spec => StopsOnlyForFailures`, whatever steps fail. A bring-up
  gives up only at a step that fails by itself, or in `xfs_start_nfsd()` while the UDP
  listener that an earlier failure left has the port. So finding 1 is the only
  way one suite's failure stops the next: exports, cache lines and directories
  that stay never do.

The hypotheses are the ones the runs have. `Overlap` cannot be dropped from the
first: a suite that joins another's deployment uses mounts it did not make. The
exception in the second is finding 1: what a failed listener or a half-written
export table leaves is not recorded in any flag that teardown looks at, and
`xfs_hostbin_mount()` leaves its directory when the mount fails.

(`ExportsApart`, which the bound rests on, holds for overlapping suites as well: no two
exports are from the same bring-up.) `BoundedLoss` and `StopsOnlyForFailures` are stated
in the proof module; no run has them.

`FreshInv`: one suite at a time is under way (`Alone`), the options are its own
until teardown resets them, and the tops of the stacks it has reached are its
own. `CleanInv` has what teardown needs: the flags and the stacks agree
(`Tracked`), every mount has a directory (`Covered`), every export but the
current one is pinned by a leaked file and never by a straggler, and by the
export cache only while the cache is filled (`Exported`); where a clause depends on
`exports`, `nfsd` or `hostbin` not failing it says so (`Reliable`), so that one invariant
carries the clean case and the bounded loss; for every place what is
already gone, or not yet there (`Clear`); and that closed files are flushed once
the scratch loop is over, on its last attempt too (`Flushed`, `Retrying`),
because the export gets a single unmount without settling. `Ready` adds that the
directories are there when the mounts need them, and `GetOutcome` sorts the steps
of get into those that go on and those that may stop. The proofs rest on
lemmas about single mounts: which operators only drop references (`Eased`), what
a case may add (`Touched`), and what pushing and popping do to the rest of a stack.

### RunProgProofs, LinkStormProofs, UmountRaceProofs

From `RunProgAssumption`, for any number of jobs: `RunProgLogs`, `RunProgBinary`,
`RunProgJobs`, `RunProgNothingLeft`, `RunProgVerdict`. `RInv` ties the hostfs flag to
the one mount and to who may be past it (`Mounted`), the sequence counter to the
number of names given (`Logs`, which makes the names distinct), each log file to a
job that has yet to unlink it (`Owned`), each result to what became of the
program (`Results`) and main's loops to the jobs behind them (`Progress`). That
`xfs_run_prog()` returns 0 exactly for the wait status 0 is the lemma `DecodeExact`.

From `LinkStormAssumption`, for any rounds, names and storms: `AlwaysNamedRaces`,
`FrameAlwaysOutlivesStorms`, `StormsLeaveNoLink` and the action property
`DirectoryAlwaysEmptied`. The second says that wherever an assertion fails, and
whatever storms do, one runs without its frame only after an assertion of
`Unguarded`: the theorem is false for the code without that exception, and for every
smaller set of places. `LInv` adds that a link exists only between a storm's own
link and unlink (or where it died), that a storm has signalled exactly when it is
through, that an aborted case is in its cleanup and had no storm yet unless it was
left at an unguarded place (`Deserted`), and what the case has behind it at each place.

From `UmountRaceAssumption`, for any number of files and sweeps:
`MountAlwaysSucceeds`, `AlwaysUsable`, `FrameAlwaysOutlives`, `ScratchAlwaysSwept` and the
action property `OnTimeUmount`. `UInv` enumerates what the stack can be on each
side of the case's mount and what each thread's lookup then found.

### FileClientProofs, from `LimitAssumption` and `StepsAssumption`

For any files, threads, largest file and programs, as long as every step is
`WellFormed` (it names files of the case, offsets and lengths are counts, a direct
write or a copy stays below the limit; TLC evaluates the assumption on the
programs of all ports):

* `AlwaysCoherent`: `Spec => []CacheCoherent`;
* `CacheInvisible`: `Spec => ImplementsPosix`, the refinement of `PosixFile`.

`FInv` is `Sound` for every file: the server never has more than the client, the
last cell of a file that is longer here is dirty, a dirty cell is cached, a clean
cached cell below the end is the server's, and the server has zeroes past its
end. Each call is a lemma about one file given by its five components (what a
flush, a write, a store, a truncation, an allocation, a hole, a direct write or a
copy does to soundness and to what a read sees); the step lemmas only have to
match a handler to its lemma. The refinement uses the same lemmas: what
`FileClient` makes of the five components is what `PosixFile` makes of the one
content. Writing the refinement down for all programs is what showed that files
without a cache, in the strict sense, promised too much: zeroes past the end also
to the mapping that has just stored there.

### PortProofs, from the assumptions of `Calls` about the shape of programs

Whether a case joins its kthreads or leaves its directory behind depends on its
program, so `Calls` states what the C of the ports guarantees, and TLC evaluates
it on all 70 of them:

* `StructureAssumption`: a loop is a head and a step back to it, and nothing is
  started, joined or unlinked inside one;
* `JoinAssumption`: only the case starts kthreads, each once, and every
  `kthread_run()` is followed by one wait for that thread;
* `DeferredAssumption`: the deferred actions at the end only remove, and only the
  case asserts, before them;
* `CloseAssumption`: an open is expected to succeed or expected to fail, a thread
  closes what it has opened itself, and is through with it at the end of a round
  and of its code;
* `CleanupAssumption`: a case that ends with `xfs_rmdir_settled()` does so last, and
  has a later unlink for each name it or one of its kthreads creates (a kthread's
  after the wait for it), in its deferred actions if it asserts.

Ports that end with `xfs_rmdir()` instead are under the first four only. For every
set of such programs, any files, sizes and interleavings, and whichever assertions
fail:

* `AlwaysJoined`: `Spec => []WorkersJoined`. A kthread that runs after its case is
  over was started before the assertion that left the case, and its wait was not
  yet passed (`Unjoined`);
* `AlwaysRemoved`: `Spec => []DirectoryRemoved`, and no delayed fput or sillyrename
  is left either, if no kthread was left behind;
* `TypesWhileExpected`: `Spec => [](ExpectationsHold => TypeOK)`;
* `NothingLeftOpen`: a finished case whose expectations held and that no assertion
  left has every struct file closed;
* the action property `QuietAfterEnd`: once a case that left no kthread behind is at
  its end no kthread moves and nobody touches names, directory or struct files.

`TypeOK` is conditional because of the count of open files. In a program whose
open is not asserted the case goes on after the open has failed against
expectation, and the close that follows would count below zero.

`PInv` is the inductive invariant. `LeftSound` (`left` is an asserted step the case has
passed, before its deferred actions), `Awaited` (the wait for a thread that runs
lies ahead of the case, unless the thread is `Unjoined`) and `StartedOnce` (the start
of a thread that has run lies behind it) give the join; `Removable` (the unlink of
every name lies ahead) and `Settled` give the directory; `Counted` says that the open
struct files are those the five threads hold according to their program counters,
exactly until an assertion leaves the case and at least those afterwards. The work is in jumps,
since a loop may run any number of times, or none: `Landmark` shows that no jump
passes a start, a join or an unlink, `HeldLeads` that the struct files held before
and after one are the same. For each group of steps there is a lemma on what it
leaves alone (`OpenLeaves`, `CloseLeaves`, `NameLeaves`, `DataLeaves`, `DirLeaves`,
`ControlLeaves`).

### Model-checked only

* Liveness (`GetReturns`, `PutReturns`, `CaseEnds`, `NothingHangs`), which is out of
  the prover's reach.
* `ExpectationsHold` of the ports: what a read, a size or a return value has to be
  is a fact about each program, and one that expects something else refutes it.
  By `CacheInvisible` it does not depend on the cache: `failed` is the same variable
  in `PosixFile`, so whatever a program can see go wrong in `FileClient` it can see
  go wrong without one. TLC checks it for the programs of the ports.

## 6. What is not modelled

* Addresses, arguments, log texts, inode numbers and times: no property tells
  them apart. Inode numbers are what 007 also compares, times what 080 also does.
* The other 71 ports. Most need state `FileClient` does not have: a namespace with
  types, links and several directories (002, 005, 011, 023, 028, 035, 089, 109,
  245, 707), directory streams (257, 310, 401, 471, 637, 676, 736), attributes and
  permissions, xattrs, locks, private mappings (354, 437). 228 tells RLIMIT_FSIZE
  from a full file system, which one `Limit` does not; 436 expects what the
  server's tmpfs says of allocated but unwritten space.
* Parts of modelled ports: the self-test of the byte stream and the choice among
  36 entries in 001, the fault past the last page in 749, the export of 308 whose limit
  lies below both its writes (and which its size expectation at line 135 fails on),
  the superblocks of the two mounts of 565, the pipes of 591 and the
  buffer modifier of 761, which are folded into the steps that use them.
* Assertions of the setup of a case (mounted, mkdir, registration of the cleanup, in
  604 all those before the race) and those of `DataPorts`, whose steps go on after an error;
  by `ExpectationsHold` no step there errs unless a resource is missing. In 615 a
  zero block count ends the polling loop in the model, where the code counts it.
* What a kthread that outlived its case writes to the stack it no longer owns.
  A new file with the name of one that is unlinked but still open shares its
  contents in the model; only a left worker of 464 can get there.
* The contents of the files of `Fixture`, `RunProg`, `LinkStorm`, `UmountRace`.
* Unit suites: the functions they call are in the kernel, not in the repository.
* xfstests runners, CI workflows and guest init: linear provisioning around
  outside tools.
* The patches: backports to code that is not in the repository.
* One thread that runs `xfs_run_prog()` while a suite tears down: the cases
  join their kthreads first (`JobsOutliveThreads`).

## 7. Plan

1. `NameClient` and `NamePorts`: a namespace of typed entries with links and
   sillyrenames, for the ports listed above, with `LinkStorm` as its racing case;
   then locks (131, 478, 504) and xattrs.
2. `RunnerWiring`: interrupted and repeated runs of `run-nfs-kunit.sh` over the
   kernel tree, with ports that were deleted meanwhile and the sticky COVERAGE
   setting.
3. Pure algorithms: interval merging of `coverage-diff.py`, classification of
   `xfstests-port-status.py`, the RTT estimator, session slot tables and layout
   ranges the unit suites exercise.
