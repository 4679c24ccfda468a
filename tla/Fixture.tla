------------------------------ MODULE Fixture ------------------------------
(***************************************************************************)
(* The loopback NFS fixture of kunit/xfstests/nfs_fixture.c: a refcounted  *)
(* stack (tmpfs export, nfsd control filesystem, sunrpc export caches,     *)
(* knfsd, NFS client mount) that test suites raise with xfstests_nfs_get() *)
(* and lower with xfstests_nfs_put().                                      *)
(*                                                                         *)
(* A suite is one caller: suite_init calls get, its cases use the mounts,  *)
(* suite_exit calls put.  KUnit runs suites one after another; Overlap     *)
(* drops that serialisation, so that what the mutex and the refcount give  *)
(* by themselves can be told from what KUnit's order adds.                 *)
(*                                                                         *)
(* Mounts are the kernel's: a stack per mount point, the top one first,    *)
(* each with the kinds of reference that make it busy:                     *)
(*   "pend"   a closed file whose fput sits on the delayed-fput list;      *)
(*   "late"   a straggler that goes away by itself (async writeback);      *)
(*   "leak"   a file left open by a case that aborted in an assertion;     *)
(*   "cache"  the svc_export entry of the export table.                    *)
(*                                                                         *)
(* An operator named Faulty... is a deliberate defect of the definition    *)
(* that follows it.  No action uses it; put in that definition's place it  *)
(* must break a property.                                                  *)
(***************************************************************************)
EXTENDS Integers, Sequences, FiniteSets

CONSTANTS
    Suites,         \* the test suites of one kernel boot
    NoSuite,        \* not a suite: "nobody", and the default export options
    CustomOpts,     \* the suites that call xfstests_nfs_export_opts()
    Overlap,        \* TRUE: suites run concurrently; FALSE: KUnit's order
    MaxTries,       \* attempts of a settling loop (20 in the code)
    ScratchTries,   \* sweeps of xfs_scratch_umount() (8 in the code)
    MaxScratch,     \* bound: scratch mounts a suite stacks
    CasePins,       \* the references a case may leave on a mount
    FailAt          \* the bring-up steps that may fail

\* There are suites, and nobody is not one; the loops make at least one attempt; and no suite
\* stacks more scratch mounts than xfs_scratch_umount() sweeps.
ASSUME FixtureAssumption ==
    /\ IsFiniteSet(Suites) /\ Suites # {} /\ NoSuite \notin Suites
    /\ CustomOpts \subseteq Suites
    /\ Overlap \in BOOLEAN
    /\ MaxTries \in Nat \ {0} /\ ScratchTries \in Nat \ {0}
    /\ MaxScratch \in 0..ScratchTries
    /\ CasePins \subseteq {"pend", "late", "leak"}
    /\ FailAt \subseteq {"lo", "mkdirs", "tmpfs", "nfsdfs", "exports",
                         "nfsd", "client", "scratch", "hostbin"}

VARIABLES
    pc,       \* where each suite is
    lock,     \* xfs_fixture_lock: its holder
    refs,     \* xfs_fixture_refs
    opts,     \* xfs_export_mount_opts: the suite whose options it holds
    env,      \* xfs_env: what bring-up believes it has mounted and started
    root,     \* xfs_bringup_root: the suite whose thread's root it pins
    hostbin,  \* xfs_hostbin_mounted
    failing,  \* err of the bring-up the lock holder runs
    tries,    \* the settling loop's counter, per suite
    sweeps,   \* xfs_scratch_umount()'s counter, per suite
    dirs,     \* the mount point directories that exist
    mounts,   \* the kernel's mount stacks
    nfsd,     \* the kernel's server state
    cache     \* the lines in the sunrpc export caches

locals == <<tries, sweeps>>
kernel == <<dirs, mounts, nfsd, cache>>
vars == <<pc, lock, refs, opts, env, root, hostbin, failing, locals, kernel>>

MountPoints == {"export", "nfsdfs", "client", "scratch", "hostbin"}
PinKinds == {"pend", "late", "leak", "cache"}
Mounts == [by : Suites, opts : Suites \cup {NoSuite}, ro : BOOLEAN,
           pins : SUBSET PinKinds]

BringupLabels == {"lo", "mkdirs", "tmpfs", "nfsdfs", "exports", "nfsd",
                  "client", "root"}
TeardownLabels == {"td_hostbin", "td_scratch", "td_client", "td_nfsd",
                   "td_nfsdfs", "td_tmpfs", "td_end"}
CaseLabels == {"cases", "c_scratch", "c_ro"}
Labels == {"idle", "get", "put", "done", "failed"}
            \cup BringupLabels \cup TeardownLabels \cup CaseLabels

\* The suites a reference is counted for: from the return of get until put
\* has the lock.
Holders == {s \in Suites : pc[s] \in CaseLabels \cup {"put"}}

NfsdDown == [serv |-> FALSE, socks |-> {}, threads |-> FALSE]
EnvFlags == {"tmpfs", "nfsdfs", "nfsd", "client"}
EnvDown == [f \in EnvFlags |-> FALSE]

Init ==
    /\ pc = [s \in Suites |-> "idle"]
    /\ lock = NoSuite
    /\ refs = 0
    /\ opts = NoSuite
    /\ env = EnvDown
    /\ root = NoSuite
    /\ hostbin = FALSE
    /\ failing = FALSE
    /\ tries = [s \in Suites |-> 0]
    /\ sweeps = [s \in Suites |-> 0]
    /\ dirs = {}
    /\ mounts = [mp \in MountPoints |-> <<>>]
    /\ nfsd = NfsdDown
    /\ cache = {}

-----------------------------------------------------------------------------
(***************************************************************************)
(* The kernel underneath (external).                                       *)
(***************************************************************************)

\* A stack of mounts without the references of the kinds P.
Unpinned(st, P) == [i \in 1..Len(st) |-> [st[i] EXCEPT !.pins = @ \ P]]

\* flush_delayed_fput(): every closed file on the list is really released.
Flush(m) == [mp \in MountPoints |-> Unpinned(m[mp], {"pend"})]

\* path_mount() of a new filesystem: the directory must exist, and nfsd and
\* the shared-superblock client refuse to be stacked on themselves.
Mountable(mp) == /\ mp \in dirs
                 /\ mp \in {"nfsdfs", "client"} => mounts[mp] = <<>>

Push(m, mp, s) ==
    [m EXCEPT ![mp] = <<[by |-> s, opts |-> opts, ro |-> FALSE, pins |-> {}]>> \o @]

Pop(m, mp) == [m EXCEPT ![mp] = IF @ = <<>> THEN <<>> ELSE Tail(@)]

\* The i-th mount of mp with the references P.
Repin(m, mp, i, P) == [m EXCEPT ![mp][i].pins = P]

\* MS_REMOUNT of the client mount: read-only, or read-write.
Remount(m, ro) == [m EXCEPT !["client"][1].ro = ro]

\* path_umount() without MNT_DETACH: refused while anything refers to the top.
Busy(m, mp) == m[mp] # <<>> /\ m[mp][1].pins # {}

\* Unmounting a hard NFS mount talks to the server and waits for it.
ServerAnswers(mp) ==
    (mp \in {"client", "scratch"} /\ mounts[mp] # <<>>) => nfsd.threads

\* Ending nfsd flushes the export table, and with it the entry's mount.
Uncached(m) == [m EXCEPT !["export"] = Unpinned(@, {"cache"})]

-----------------------------------------------------------------------------
(***************************************************************************)
(* suite_init: xfstests_nfs_export_opts() and xfstests_nfs_get().          *)
(***************************************************************************)

Goto(s, l) == pc' = [pc EXCEPT ![s] = l]

\* suite_init of s starts: a suite with its own export size sets it first,
\* outside the lock.
SuiteInit(s) ==
    /\ pc[s] = "idle"
    /\ Overlap \/ \A t \in Suites \ {s} : pc[t] \in {"idle", "done", "failed"}
    /\ Goto(s, "get")
    /\ opts' = IF s \in CustomOpts THEN s ELSE opts
    /\ UNCHANGED <<lock, refs, env, root, hostbin, failing, locals, kernel>>

\* Defect: get returns early when mounted, without counting.
FaultyGetJoin(s) ==
    /\ pc[s] = "get" /\ lock = NoSuite /\ refs > 0
    /\ Goto(s, "cases")
    /\ UNCHANGED <<lock, refs, opts, env, root, hostbin, failing, locals, kernel>>

\* get finds the deployment up and only counts itself in.
GetJoin(s) ==
    /\ pc[s] = "get" /\ lock = NoSuite /\ refs > 0
    /\ refs' = refs + 1
    /\ Goto(s, "cases")
    /\ UNCHANGED <<lock, opts, env, root, hostbin, failing, locals, kernel>>

\* get finds no deployment and starts xfs_bringup() with the lock held.
GetFirst(s) ==
    /\ pc[s] = "get" /\ lock = NoSuite /\ refs = 0
    /\ lock' = s
    /\ Goto(s, "lo")
    /\ UNCHANGED <<refs, opts, env, root, hostbin, failing, locals, kernel>>

\* Defect: the error path of get has no xfs_teardown().
FaultyGiveUp(s) ==
    /\ failing' = TRUE
    /\ Goto(s, "td_end")

\* A bring-up step returned an error: get calls xfs_teardown().
GiveUp(s) ==
    /\ failing' = TRUE
    /\ Goto(s, "td_hostbin")

MayFail(step) == step \in FailAt

LoopbackUp(s) ==
    /\ pc[s] = "lo"
    /\ \/ Goto(s, "mkdirs") /\ UNCHANGED failing
       \/ MayFail("lo") /\ GiveUp(s)
    /\ UNCHANGED <<lock, refs, opts, env, root, hostbin, locals, kernel>>

\* Defect: -EEXIST is an error.
FaultyMkdirOK(mp) == mp \notin dirs

\* xfs_mkdir_tolerant(): a directory an earlier teardown could not remove
\* is as good as a new one.
MkdirOK(mp) == TRUE

\* /export, /mnt (never removed), /mnt/nfs and /nfsdfs, in that order.
MakeDirs(s) ==
    /\ pc[s] = "mkdirs"
    /\ \/ /\ \A mp \in {"export", "client", "nfsdfs"} : MkdirOK(mp)
          /\ dirs' = dirs \cup {"export", "client", "nfsdfs"}
          /\ Goto(s, "tmpfs") /\ UNCHANGED failing
       \/ /\ MayFail("mkdirs") \/ \E mp \in {"export", "client", "nfsdfs"} : ~MkdirOK(mp)
          /\ \E made \in {{}, {"export"}, {"export", "client"}} : dirs' = dirs \cup made
          /\ GiveUp(s)
    /\ UNCHANGED <<lock, refs, opts, env, root, hostbin, locals, mounts, nfsd, cache>>

\* xfs_mount_at() of one of the three filesystems the fixture itself
\* mounts, and the xfs_env flag that remembers it.
MountStep(s, label, mp, flag, next) ==
    /\ pc[s] = label
    /\ \/ /\ Mountable(mp)
          /\ mounts' = Push(mounts, mp, s)
          /\ env' = [env EXCEPT ![flag] = TRUE]
          /\ Goto(s, next) /\ UNCHANGED failing
       \/ /\ MayFail(label) \/ ~Mountable(mp)
          /\ UNCHANGED <<mounts, env>>
          /\ GiveUp(s)
    /\ UNCHANGED <<lock, refs, opts, root, hostbin, locals, dirs, nfsd, cache>>

MountTmpfs(s) == MountStep(s, "tmpfs", "export", "tmpfs", "nfsdfs")
MountNfsdfs(s) == MountStep(s, "nfsdfs", "nfsdfs", "nfsdfs", "exports")

\* The lines xfs_configure_exports() feeds, in its order.
CacheLines == <<"ip_map", "export", "expkey">>

\* ip_map creates the auth domain that the export parsers only look up.
LineAccepted(i) == i > 1 => "ip_map" \in {CacheLines[j] : j \in 1..(i - 1)}

\* Feeding the first n lines: the export line takes a reference on the mount.
Feed(n) ==
    LET fed == {CacheLines[j] : j \in 1..n}
    IN  /\ cache' = cache \cup fed
        /\ mounts' = IF "export" \in fed
                       THEN Repin(mounts, "export", 1, mounts["export"][1].pins \cup {"cache"})
                       ELSE mounts

\* Defect: only the last line's error is looked at.
FaultyConfigureExports(s) ==
    /\ pc[s] = "exports"
    /\ \E n \in 0..3 : (n = 3 \/ MayFail("exports")) /\ Feed(n)
    /\ Goto(s, "nfsd")
    /\ UNCHANGED <<lock, refs, opts, env, root, hostbin, failing, locals, dirs, nfsd>>

ConfigureExports(s) ==
    /\ pc[s] = "exports"
    /\ \/ /\ \A i \in 1..3 : LineAccepted(i)
          /\ Feed(3)
          /\ Goto(s, "nfsd") /\ UNCHANGED failing
       \/ \E n \in 0..2 :
            /\ MayFail("exports") \/ ~LineAccepted(n + 1)
            /\ \A i \in 1..n : LineAccepted(i)
            /\ Feed(n)
            /\ GiveUp(s)
    /\ UNCHANGED <<lock, refs, opts, env, root, hostbin, locals, dirs, nfsd>>

\* xfs_start_nfsd(): service, UDP and TCP listeners, one thread, then the
\* early end of the grace period.  A listener cannot bind a port in use.
\* A failing nfsd_svc() destroys the service it was given; a failing
\* listener leaves it.
StartNfsd(s) ==
    /\ pc[s] = "nfsd"
    /\ \/ /\ nfsd.socks = {}
          /\ nfsd' = [serv |-> TRUE, socks |-> {"udp", "tcp"}, threads |-> TRUE]
          /\ env' = [env EXCEPT !["nfsd"] = TRUE]
          /\ Goto(s, "client") /\ UNCHANGED failing
       \/ /\ MayFail("nfsd") \/ nfsd.socks # {}
          /\ \/ UNCHANGED nfsd
             \/ nfsd' = [nfsd EXCEPT !.serv = TRUE]
             \/ nfsd.socks = {} /\ nfsd' = [nfsd EXCEPT !.serv = TRUE, !.socks = {"udp"}]
             \/ nfsd.socks = {} /\ nfsd' = NfsdDown
          /\ UNCHANGED env
          /\ GiveUp(s)
    /\ UNCHANGED <<lock, refs, opts, root, hostbin, locals, dirs, mounts, cache>>

\* The client's first EXCHANGE_ID needs a running server, whose
\* create_client() dereferences what mounting nfsdfs set up.
MountClient(s) ==
    /\ nfsd.threads
    /\ MountStep(s, "client", "client", "client", "root")

\* Defect: the root is pinned only by a suite that comes second.
FaultyCaptureRoot(s) ==
    /\ pc[s] = "root"
    /\ root' = IF refs > 0 THEN s ELSE root
    /\ refs' = refs + 1
    /\ lock' = NoSuite
    /\ Goto(s, "cases")
    /\ UNCHANGED <<opts, env, hostbin, failing, locals, kernel>>

\* The end of bring-up: the thread's root is pinned, get counts the suite
\* in and lets go of the lock.
CaptureRoot(s) ==
    /\ pc[s] = "root"
    /\ root' = s
    /\ refs' = refs + 1
    /\ lock' = NoSuite
    /\ Goto(s, "cases")
    /\ UNCHANGED <<opts, env, hostbin, failing, locals, kernel>>

-----------------------------------------------------------------------------
(***************************************************************************)
(* What the cases of a suite do to the deployment.                         *)
(***************************************************************************)

\* A case uses a mount and leaves a reference on it.  Server-side reads go
\* through /export, which has no writeback of its own.
CaseTouch(s, mp, pin) ==
    /\ pc[s] = "cases"
    /\ mp # "nfsdfs" /\ mounts[mp] # <<>>
    /\ pin \in CasePins /\ ~(mp = "export" /\ pin = "late")
    /\ mounts' = Repin(mounts, mp, 1, mounts[mp][1].pins \cup {pin})
    /\ UNCHANGED <<pc, lock, refs, opts, env, root, hostbin, failing, locals,
                   dirs, nfsd, cache>>

\* The delayed-fput worker runs.
DelayedFput ==
    /\ \E mp \in MountPoints : \E i \in 1..Len(mounts[mp]) : "pend" \in mounts[mp][i].pins
    /\ mounts' = Flush(mounts)
    /\ UNCHANGED <<pc, lock, refs, opts, env, root, hostbin, failing, locals,
                   dirs, nfsd, cache>>

\* A straggler on the i-th mount of mp completes.
LateDone(mp, i) ==
    /\ i \in 1..Len(mounts[mp]) /\ "late" \in mounts[mp][i].pins
    /\ mounts' = Repin(mounts, mp, i, mounts[mp][i].pins \ {"late"})
    /\ UNCHANGED <<pc, lock, refs, opts, env, root, hostbin, failing, locals,
                   dirs, nfsd, cache>>

\* xfs_scratch_mount(): nosharecache gives each its own superblock, so they
\* stack.
ScratchMount(s) ==
    /\ pc[s] = "cases" /\ Len(mounts["scratch"]) < MaxScratch
    /\ \/ mounts' = Push(mounts, "scratch", s) /\ dirs' = dirs \cup {"scratch"}
       \/ /\ MayFail("scratch") /\ UNCHANGED mounts
          /\ dirs' \in {dirs, dirs \cup {"scratch"}}
    /\ UNCHANGED <<pc, lock, refs, opts, env, root, hostbin, failing, locals, nfsd, cache>>

\* A case calls xfs_scratch_umount() or xfs_remount_client(true).
CaseCall(s, l) ==
    /\ pc[s] = "cases" /\ l \in {"c_scratch", "c_ro"}
    /\ Goto(s, l)
    /\ UNCHANGED <<lock, refs, opts, env, root, hostbin, failing, locals, kernel>>

\* xfs_remount_client(false): nothing stands in the way.
RemountRW(s) ==
    /\ pc[s] = "cases" /\ mounts["client"][1].ro
    /\ mounts' = Remount(Flush(mounts), FALSE)
    /\ UNCHANGED <<pc, lock, refs, opts, env, root, hostbin, failing, locals,
                   dirs, nfsd, cache>>

\* One attempt of xfs_remount_client(true): refused while a write reference
\* is left, given up with -EBUSY after the last one.
RemountRO(s) ==
    /\ pc[s] = "c_ro"
    /\ LET m == Flush(mounts)
       IN IF Busy(m, "client")
            THEN /\ mounts' = m
                 /\ IF tries[s] + 1 < MaxTries
                      THEN tries' = [tries EXCEPT ![s] = @ + 1] /\ UNCHANGED pc
                      ELSE tries' = [tries EXCEPT ![s] = 0] /\ Goto(s, "cases")
            ELSE /\ mounts' = Remount(m, TRUE)
                 /\ tries' = [tries EXCEPT ![s] = 0]
                 /\ Goto(s, "cases")
    /\ UNCHANGED <<lock, refs, opts, env, root, hostbin, failing, sweeps, dirs, nfsd, cache>>

\* xfs_hostbin_mount(): the first program of a deployment mounts hostfs.
HostbinMount(s) ==
    /\ pc[s] = "cases" /\ ~hostbin
    /\ \/ /\ mounts' = Push(mounts, "hostbin", s) /\ hostbin' = TRUE
          /\ dirs' = dirs \cup {"hostbin"}
       \/ /\ MayFail("hostbin") /\ UNCHANGED <<mounts, hostbin>>
          /\ dirs' \in {dirs, dirs \cup {"hostbin"}}
    /\ UNCHANGED <<pc, lock, refs, opts, env, root, failing, locals, nfsd, cache>>

-----------------------------------------------------------------------------
(***************************************************************************)
(* xfs_umount_settled() and xfs_scratch_umount().                          *)
(***************************************************************************)

\* The mounts an attempt meets: the delayed fputs are flushed first.
BeforeAttempt == Flush(mounts)

\* Defect: attempts are not limited.
FaultySettleAgain(s, mp) ==
    /\ Busy(BeforeAttempt, mp)
    /\ mounts' = BeforeAttempt
    /\ tries' = [tries EXCEPT ![s] = @ + 1]

\* Defect: the counter is not advanced.
FaultySettleForever(s, mp) ==
    /\ Busy(BeforeAttempt, mp)
    /\ mounts' = BeforeAttempt
    /\ UNCHANGED tries

\* An attempt that finds the mount busy, within the loop's bound.
SettleAgain(s, mp) ==
    /\ tries[s] < MaxTries
    /\ Busy(BeforeAttempt, mp)
    /\ mounts' = BeforeAttempt
    /\ tries' = [tries EXCEPT ![s] = @ + 1]

\* The loop ends: by an unmount, because nothing is mounted, or, after the
\* last attempt, by the lazy detach.
Settled(s, mp) ==
    /\ ServerAnswers(mp)
    /\ \/ /\ tries[s] < MaxTries
          /\ ~Busy(BeforeAttempt, mp)
          /\ mounts' = Pop(BeforeAttempt, mp)
       \/ /\ tries[s] = MaxTries
          /\ mounts' = Pop(mounts, mp)
    /\ tries' = [tries EXCEPT ![s] = 0]

\* Defect: one sweep too few.
FaultyMoreSweeps(s) == mounts["scratch"] # <<>> /\ sweeps[s] + 2 < ScratchTries

\* Another sweep follows one that unmounted something, up to the bound.
MoreSweeps(s) == mounts["scratch"] # <<>> /\ sweeps[s] + 1 < ScratchTries

\* One sweep of xfs_scratch_umount(), which ends when nothing was mounted or
\* with the last sweep.
ScratchSweep(s, next) ==
    \/ SettleAgain(s, "scratch") /\ UNCHANGED <<pc, sweeps>>
    \/ /\ Settled(s, "scratch")
       /\ IF MoreSweeps(s)
            THEN sweeps' = [sweeps EXCEPT ![s] = @ + 1] /\ UNCHANGED pc
            ELSE sweeps' = [sweeps EXCEPT ![s] = 0] /\ Goto(s, next)

ScratchUmount(s) ==
    /\ pc[s] = "c_scratch"
    /\ ScratchSweep(s, "cases")
    /\ UNCHANGED <<lock, refs, opts, env, root, hostbin, failing, dirs, nfsd, cache>>

-----------------------------------------------------------------------------
(***************************************************************************)
(* suite_exit: xfstests_nfs_put() and xfs_teardown().                      *)
(***************************************************************************)

\* All cases of s have run and suite_exit calls put.
SuiteExit(s) ==
    /\ pc[s] = "cases"
    /\ Goto(s, "put")
    /\ UNCHANGED <<lock, refs, opts, env, root, hostbin, failing, locals, kernel>>

\* Defect: the decrement is tested before it is made.
FaultyPut(s) ==
    /\ pc[s] = "put" /\ lock = NoSuite /\ refs > 0
    /\ refs' = refs - 1
    /\ IF refs <= 2 THEN lock' = s /\ Goto(s, "td_hostbin")
                    ELSE Goto(s, "done") /\ UNCHANGED lock
    /\ UNCHANGED <<opts, env, root, hostbin, failing, locals, kernel>>

\* put drops the reference; the last one tears down with the lock held.
Put(s) ==
    /\ pc[s] = "put" /\ lock = NoSuite /\ refs > 0
    /\ refs' = refs - 1
    /\ IF refs = 1 THEN lock' = s /\ Goto(s, "td_hostbin")
                   ELSE Goto(s, "done") /\ UNCHANGED lock
    /\ UNCHANGED <<opts, env, root, hostbin, failing, locals, kernel>>

\* Defect: the control filesystem is unmounted under the running server.
FaultyTeardownNext ==
    [td_hostbin |-> "td_scratch", td_scratch |-> "td_client",
     td_client |-> "td_nfsdfs", td_nfsdfs |-> "td_nfsd",
     td_nfsd |-> "td_tmpfs", td_tmpfs |-> "td_end"]

\* The order of xfs_teardown(): clients before the server, the server
\* before its control filesystem and its export.
TeardownNext == [td_hostbin |-> "td_scratch", td_scratch |-> "td_client",
                 td_client |-> "td_nfsd", td_nfsd |-> "td_nfsdfs",
                 td_nfsdfs |-> "td_tmpfs", td_tmpfs |-> "td_end"]

TdHostbin(s) ==
    /\ pc[s] = "td_hostbin"
    /\ \/ hostbin /\ SettleAgain(s, "hostbin") /\ UNCHANGED <<pc, hostbin, dirs>>
       \/ /\ hostbin /\ Settled(s, "hostbin")
          /\ hostbin' = FALSE
          /\ dirs' = IF mounts'["hostbin"] = <<>> THEN dirs \ {"hostbin"} ELSE dirs
          /\ Goto(s, TeardownNext["td_hostbin"])
       \/ ~hostbin /\ Goto(s, TeardownNext["td_hostbin"]) /\ UNCHANGED <<mounts, tries, hostbin, dirs>>
    /\ UNCHANGED <<lock, refs, opts, env, root, failing, sweeps, nfsd, cache>>

\* The rmdir of the scratch directory follows the last sweep.
TdScratch(s) ==
    /\ pc[s] = "td_scratch"
    /\ ScratchSweep(s, TeardownNext["td_scratch"])
    /\ dirs' = IF pc'[s] # "td_scratch" /\ mounts'["scratch"] = <<>>
                 THEN dirs \ {"scratch"} ELSE dirs
    /\ UNCHANGED <<lock, refs, opts, env, root, hostbin, failing, nfsd, cache>>

TdClient(s) ==
    /\ pc[s] = "td_client"
    /\ \/ env["client"] /\ SettleAgain(s, "client") /\ UNCHANGED <<pc, env>>
       \/ /\ env["client"] /\ Settled(s, "client")
          /\ env' = [env EXCEPT !["client"] = FALSE]
          /\ Goto(s, TeardownNext["td_client"])
       \/ ~env["client"] /\ Goto(s, TeardownNext["td_client"]) /\ UNCHANGED <<mounts, tries, env>>
    /\ UNCHANGED <<lock, refs, opts, root, hostbin, failing, sweeps, dirs, nfsd, cache>>

\* xfs_stop_nfsd(), only if bring-up got as far as setting nfsd_up.
TdNfsd(s) ==
    /\ pc[s] = "td_nfsd"
    /\ IF env["nfsd"]
         THEN /\ nfsd' = NfsdDown
              /\ cache' = {}
              /\ mounts' = Uncached(mounts)
              /\ env' = [env EXCEPT !["nfsd"] = FALSE]
         ELSE UNCHANGED <<nfsd, cache, mounts, env>>
    /\ Goto(s, TeardownNext["td_nfsd"])
    /\ UNCHANGED <<lock, refs, opts, root, hostbin, failing, locals, dirs>>

\* xfs_umount() of nfsdfs and of the export: one attempt, no settling, and
\* the flag is cleared whether or not it worked.
PlainUmount(s, label, mp, flag) ==
    /\ pc[s] = label
    /\ mounts' = IF env[flag] /\ ~Busy(mounts, mp) THEN Pop(mounts, mp) ELSE mounts
    /\ env' = [env EXCEPT ![flag] = FALSE]
    /\ Goto(s, TeardownNext[label])
    /\ UNCHANGED <<lock, refs, opts, root, hostbin, failing, locals, dirs, nfsd, cache>>

TdNfsdfs(s) == PlainUmount(s, "td_nfsdfs", "nfsdfs", "nfsdfs")
TdTmpfs(s) == PlainUmount(s, "td_tmpfs", "export", "tmpfs")

\* Defect: the export options are not reset.
FaultyOptsAfterTeardown == opts

\* "a suite-specific export size applies to one bring-up only"
OptsAfterTeardown == NoSuite

\* The rest of xfs_teardown(): directories that are no longer mount points
\* go, the export options return to the default, the root is released; get
\* or put returns.
TdEnd(s) ==
    /\ pc[s] = "td_end"
    /\ dirs' = {mp \in dirs : mp \in {"export", "client", "nfsdfs"} => mounts[mp] # <<>>}
    /\ opts' = OptsAfterTeardown
    /\ root' = NoSuite
    /\ lock' = NoSuite
    /\ failing' = FALSE
    /\ Goto(s, IF failing THEN "failed" ELSE "done")
    /\ UNCHANGED <<refs, env, hostbin, locals, mounts, nfsd, cache>>

-----------------------------------------------------------------------------
Get(s) == \/ SuiteInit(s) \/ GetJoin(s) \/ GetFirst(s)
          \/ LoopbackUp(s) \/ MakeDirs(s) \/ MountTmpfs(s) \/ MountNfsdfs(s)
          \/ ConfigureExports(s) \/ StartNfsd(s) \/ MountClient(s) \/ CaptureRoot(s)

Case(s) == \/ \E mp \in MountPoints, pin \in PinKinds : CaseTouch(s, mp, pin)
           \/ ScratchMount(s) \/ HostbinMount(s) \/ RemountRW(s)
           \/ \E l \in CaseLabels : CaseCall(s, l)

\* The loops a case waits in.
CaseLoop(s) == ScratchUmount(s) \/ RemountRO(s)

Teardown(s) == \/ TdHostbin(s) \/ TdScratch(s) \/ TdClient(s) \/ TdNfsd(s)
               \/ TdNfsdfs(s) \/ TdTmpfs(s) \/ TdEnd(s)

\* The kernel's own progress.
Async == DelayedFput \/ \E mp \in MountPoints : \E i \in 1..Len(mounts[mp]) : LateDone(mp, i)

\* Every suite has run: the kernel halts.
Finished == /\ \A s \in Suites : pc[s] \in {"done", "failed"}
            /\ UNCHANGED vars

Next == \/ \E s \in Suites : Get(s) \/ Case(s) \/ CaseLoop(s) \/ SuiteExit(s)
                               \/ Put(s) \/ Teardown(s)
        \/ Async
        \/ Finished

Spec == Init /\ [][Next]_vars

\* A thread inside get, put or a settling loop keeps being scheduled, and
\* KUnit starts and ends suites; nothing is assumed of what a case does.
Fairness == \A s \in Suites : WF_vars(Get(s) \/ CaseLoop(s) \/ SuiteExit(s)
                                        \/ Put(s) \/ Teardown(s))

FairSpec == Spec /\ Fairness
-----------------------------------------------------------------------------
(***************************************************************************)
(* Properties.                                                             *)
(***************************************************************************)

\* The types of the variables.
TypeOK ==
    /\ pc \in [Suites -> Labels]
    /\ lock \in Suites \cup {NoSuite}
    /\ refs \in Nat
    /\ opts \in Suites \cup {NoSuite}
    /\ env \in [EnvFlags -> BOOLEAN]
    /\ root \in Suites \cup {NoSuite}
    /\ hostbin \in BOOLEAN
    /\ failing \in BOOLEAN
    /\ tries \in [Suites -> 0..MaxTries]
    /\ sweeps \in [Suites -> 0..ScratchTries]
    /\ dirs \subseteq MountPoints
    /\ mounts \in [MountPoints -> Seq(Mounts)]
    /\ nfsd \in [serv : BOOLEAN, socks : SUBSET {"udp", "tcp"},
                 threads : BOOLEAN]
    /\ cache \subseteq {"ip_map", "export", "expkey"}

\* xfs_fixture_refs counts exactly the suites between the return of get and
\* put's decrement, whatever fails and however the callers interleave; in
\* particular put's WARN_ON(xfs_fixture_refs <= 0) never fires.
RefsCountHolders == refs = Cardinality(Holders)

\* While any suite holds the deployment all of it is there: the flags, the
\* three mounts, a running server with both listeners and all
\* three export lines, and the root that xfstests_nfs_case_init() gives to
\* the case threads.
MountedWhileHeld ==
    Holders # {} =>
      /\ \A f \in EnvFlags : env[f]
      /\ \A mp \in {"export", "nfsdfs", "client"} : mounts[mp] # <<>>
      /\ nfsd.threads /\ nfsd.socks = {"udp", "tcp"}
      /\ cache = {"ip_map", "export", "expkey"}
      /\ root # NoSuite

\* Nothing NFS stays mounted without a server to answer it (a hard mount
\* would wait for ever), and the server never runs without the control
\* filesystem that create_client() relies on: the order of bring-up and of
\* xfs_teardown(), also when bring-up stops half way.
ServerOutlivesMounts ==
    /\ \A mp \in {"client", "scratch"} : mounts[mp] # <<>> => nfsd.threads
    /\ nfsd.threads => mounts["nfsdfs"] # <<>>

\* With suites run one after another, every suite works on mounts its own
\* bring-up made, and on an export with the options it asked for, also
\* after suites that leaked files or failed: "so the mountpoint is reusable
\* and the next suite is not poisoned".
FreshDeployment ==
    \A s \in Holders :
      /\ \A mp \in {"export", "nfsdfs", "client"} :
           mounts[mp] # <<>> /\ mounts[mp][1].by = s
      /\ mounts["export"][1].opts = IF s \in CustomOpts THEN s ELSE NoSuite

\* As long as no step of a bring-up fails by itself, no get fails: whatever
\* earlier suites left mounted, cached or listening never stops a later one.
GetSucceeds == \A s \in Suites : pc[s] # "failed"

Quiet == \A s \in Suites : pc[s] \in {"idle", "done", "failed"}

\* Between suites nothing of a deployment is left except exports that a
\* leaked file pins: closed files and stragglers are waited for, the client,
\* scratch and program mounts are gone, server and caches are down, the
\* directories are removed and the options are the default again.
CleanBetweenSuites ==
    Quiet =>
      /\ env = EnvDown /\ nfsd = NfsdDown /\ cache = {} /\ ~hostbin
      /\ opts = NoSuite /\ root = NoSuite
      /\ \A mp \in MountPoints : \A i \in 1..Len(mounts[mp]) :
           mp = "export" /\ "leak" \in mounts[mp][i].pins
      /\ dirs = {mp \in MountPoints : mounts[mp] # <<>>}

\* While the deployment is held from one step to the next, that step leaves
\* the server, the flags, the captured root and the number of client mounts
\* alone: no get or put of another suite pulls it from under its users.
HeldDeploymentIsStable ==
    [][Holders # {} /\ Holders' # {} =>
         /\ UNCHANGED <<env, root, nfsd, cache>>
         /\ \A mp \in {"export", "nfsdfs", "client"} : Len(mounts'[mp]) = Len(mounts[mp])]_vars

\* A get returns, with a deployment or with an error after its cleanup.
GetReturns == \A s \in Suites : pc[s] = "get" ~> pc[s] \in CaseLabels \cup {"failed"}

\* A put returns: the settling loops are bounded and the client's unmount
\* always finds its server alive.
PutReturns == \A s \in Suites : pc[s] = "put" ~> pc[s] = "done"

\* nfs_fixture.c says of the call of xfs_teardown() in xfstests_nfs_get():
\* "clean up a half-built stack".
HalfBuiltStackCleanedUp ==
    (Quiet /\ \E s \in Suites : pc[s] = "failed") =>
      /\ nfsd = NfsdDown
      /\ \A mp \in MountPoints : mounts[mp] = <<>>

\* The fixture implements the abstract deployment: owner is the suite whose
\* root is captured, holders the counted suites.
D == INSTANCE Deployment WITH owner <- root, holders <- Holders
ImplementsDeployment == D!DSpec
=============================================================================
