------------------------------ MODULE RunProg ------------------------------
(***************************************************************************)
(* Userspace programs inside the test kernel: xfs_run_prog() and the       *)
(* hostfs mount it shares (kunit/xfstests/nfs_fixture.c), called at once   *)
(* from several kthreads the way kunit/xfstests/generic/127.c does, which  *)
(* starts one kthread for each fsx run, waits for all and judges their     *)
(* results.                                                                *)
(***************************************************************************)
EXTENDS Integers, FiniteSets

CONSTANTS
    N,          \* G127_RUNS: the number of jobs
    Statuses,   \* wait statuses a program may end with
    Failures    \* the steps that may fail: "kthread", "mount", "alloc", "init"

\* A wait status is an exit code, or a signal with or without a core dump.
WaitStatus == {256 * code : code \in 0..255}
                \cup {sig + core : sig \in 1..127, core \in {0, 128}}

\* There is a job, and programs end the ways programs can end.
ASSUME RunProgAssumption ==
    /\ N \in Nat \ {0}
    /\ Statuses \subseteq WaitStatus
    /\ Failures \subseteq {"kthread", "mount", "alloc", "init"}

Jobs == 1..N
Nobody == 0

VARIABLES
    main,       \* the case: "spawn", "join", "exit", then "torndown"
    next,       \* the job main spawns or joins next
    pc,         \* where each job's kthread is
    done,       \* the jobs whose completion is signalled
    ret,        \* j->ret
    failed,     \* the jobs whose expectation failed
    hostbinSet, \* the hostbin module parameter is set
    lock,       \* xfs_hostbin_lock: its holder
    flag,       \* xfs_hostbin_mounted
    mounts,     \* hostfs mounts stacked on XFS_HOSTBIN
    seq,        \* xfs_prog_seq
    log,        \* the log file each job uses
    files,      \* the log files that exist
    outcome     \* history: what became of each job's program

vars == <<main, next, pc, done, ret, failed, hostbinSet, lock, flag, mounts,
          seq, log, files, outcome>>

ENOENT == -2
ENOMEM == -12

Init ==
    /\ main = "spawn" /\ next = 1
    /\ pc = [j \in Jobs |-> "unborn"]
    /\ done = {} /\ failed = {}
    /\ ret = [j \in Jobs |-> 0]
    /\ hostbinSet \in BOOLEAN
    /\ lock = Nobody /\ flag = FALSE /\ mounts = 0
    /\ seq = 0 /\ files = {}
    /\ log = [j \in Jobs |-> 0]
    /\ outcome = [j \in Jobs |-> "none"]

Goto(j, l) == pc' = [pc EXCEPT ![j] = l]
Return(j, r) == ret' = [ret EXCEPT ![j] = r]

-----------------------------------------------------------------------------
(***************************************************************************)
(* xfs_run_prog(), in the kthread of job j.                                *)
(***************************************************************************)

\* Nothing can be run without the module parameter.
Enter(j) ==
    /\ pc[j] = "enter"
    /\ IF hostbinSet THEN Goto(j, "lock") /\ UNCHANGED ret
                     ELSE Goto(j, "complete") /\ Return(j, ENOENT)
    /\ UNCHANGED <<main, next, done, failed, hostbinSet, lock, flag, mounts, seq, log, files, outcome>>

\* Defect: the mutex is missing.
FaultyMayEnter(j) == TRUE

MayEnter(j) == lock = Nobody

\* xfs_hostbin_mount() takes its mutex and looks at the flag ...
HostbinLock(j) ==
    /\ pc[j] = "lock"
    /\ MayEnter(j)
    /\ lock' = j
    /\ Goto(j, IF flag THEN "unlock" ELSE "mount")
    /\ UNCHANGED <<main, next, done, ret, failed, hostbinSet, flag, mounts, seq, log, files, outcome>>

\* ... mounts hostfs if nobody has, and remembers whether it did ...
HostbinMount(j) ==
    /\ pc[j] = "mount"
    /\ \/ mounts' = mounts + 1 /\ flag' = TRUE /\ UNCHANGED ret
       \/ "mount" \in Failures /\ flag' = FALSE /\ Return(j, ENOENT) /\ UNCHANGED mounts
    /\ Goto(j, "unlock")
    /\ UNCHANGED <<main, next, done, failed, hostbinSet, lock, seq, log, files, outcome>>

\* ... and lets go.
HostbinUnlock(j) ==
    /\ pc[j] = "unlock"
    /\ lock' = Nobody
    /\ Goto(j, IF ret[j] # 0 THEN "complete" ELSE "log")
    /\ UNCHANGED <<main, next, done, ret, failed, hostbinSet, flag, mounts, seq, log, files, outcome>>

\* Defect: one log name for all.
FaultyNextSeq == 1

\* atomic_inc_return(&xfs_prog_seq)
NextSeq == seq + 1

\* The log is named and the arguments are built.
Prepare(j) ==
    /\ pc[j] = "log"
    /\ seq' = seq + 1
    /\ log' = [log EXCEPT ![j] = NextSeq]
    /\ \/ Goto(j, "exec") /\ UNCHANGED ret
       \/ "alloc" \in Failures /\ Goto(j, "complete") /\ Return(j, ENOMEM)
    /\ UNCHANGED <<main, next, done, failed, hostbinSet, lock, flag, mounts, files, outcome>>

\* call_usermodehelper_exec() starts the process, whose xfs_prog_init()
\* creates the log before the program is executed.
Exec(j) ==
    /\ pc[j] = "exec"
    /\ \/ files' = files \cup {log[j]} /\ Goto(j, "run") /\ UNCHANGED ret
       \/ /\ "init" \in Failures
          /\ files' \in {files, files \cup {log[j]}}
          /\ Return(j, ENOMEM) /\ Goto(j, "dump")
    /\ UNCHANGED <<main, next, done, failed, hostbinSet, lock, flag, mounts, seq, log, outcome>>

\* Defect: only the exit code is looked at.
FaultyDecode(st) == (st \div 256) % 256

\* The result for a wait status: 128 and the signal, or the exit code.
Decode(st) == IF st % 128 # 0 THEN 128 + (st % 128) ELSE (st \div 256) % 256

\* The program ends; its log is shown unless all is well.
ProgEnds(j) ==
    /\ pc[j] = "run"
    /\ \E st \in Statuses :
         /\ Return(j, Decode(st))
         /\ outcome' = [outcome EXCEPT ![j] = IF st = 0 THEN "ok" ELSE "bad"]
         /\ Goto(j, IF Decode(st) # 0 THEN "dump" ELSE "unlink")
    /\ UNCHANGED <<main, next, done, failed, hostbinSet, lock, flag, mounts, seq, log, files>>

\* Defect: the loop over the lines never leaves the last one.
FaultyDumpLog(j) == pc[j] = "dump" /\ UNCHANGED vars

\* xfs_prog_dump_log() only reads the log, if there is one.
DumpLog(j) ==
    /\ pc[j] = "dump"
    /\ Goto(j, "unlink")
    /\ UNCHANGED <<main, next, done, ret, failed, hostbinSet, lock, flag, mounts, seq, log, files, outcome>>

\* Defect: the log of a program that failed is kept.
FaultyUnlinked(j) == IF ret[j] = 0 THEN files \ {log[j]} ELSE files

Unlinked(j) == files \ {log[j]}

Unlink(j) ==
    /\ pc[j] = "unlink"
    /\ files' = Unlinked(j)
    /\ Goto(j, "complete")
    /\ UNCHANGED <<main, next, done, ret, failed, hostbinSet, lock, flag, mounts, seq, log, outcome>>

\* complete(&j->done) is the last thing g127_fsx() does to its job.
Complete(j) ==
    /\ pc[j] = "complete"
    /\ done' = done \cup {j}
    /\ Goto(j, "exited")
    /\ UNCHANGED <<main, next, ret, failed, hostbinSet, lock, flag, mounts, seq, log, files, outcome>>

-----------------------------------------------------------------------------
(***************************************************************************)
(* six_concurrent_fsx_runs().                                              *)
(***************************************************************************)

\* kthread_run(); "if (IS_ERR(t))" main completes the job itself.
Spawn ==
    /\ main = "spawn"
    /\ \/ Goto(next, "enter") /\ UNCHANGED <<ret, done>>
       \/ /\ "kthread" \in Failures
          /\ Return(next, ENOMEM) /\ done' = done \cup {next}
          /\ Goto(next, "exited")
    /\ IF next = N THEN main' = "join" /\ next' = 1
                   ELSE next' = next + 1 /\ UNCHANGED main
    /\ UNCHANGED <<failed, hostbinSet, lock, flag, mounts, seq, log, files, outcome>>

\* Defect: only the last job is waited for.
FaultyJoinable(j) == j < N \/ j \in done

\* wait_for_completion()
Joinable(j) == j \in done

Join ==
    /\ main = "join"
    /\ Joinable(next)
    /\ failed' = IF ret[next] # 0 THEN failed \cup {next} ELSE failed
    /\ IF next = N THEN main' = "exit" /\ UNCHANGED next
                   ELSE next' = next + 1 /\ UNCHANGED main
    /\ UNCHANGED <<pc, done, ret, hostbinSet, lock, flag, mounts, seq, log, files, outcome>>

\* The case has returned, KUnit has freed the jobs, and suite_exit's
\* teardown calls xfs_hostbin_umount(): one settled unmount.
Teardown ==
    /\ main = "exit" /\ lock = Nobody
    /\ main' = "torndown"
    /\ mounts' = IF flag THEN mounts - 1 ELSE mounts
    /\ flag' = FALSE
    /\ UNCHANGED <<next, pc, done, ret, failed, hostbinSet, lock, seq, log, files, outcome>>

Over == main = "torndown" /\ UNCHANGED vars

Job(j) == \/ Enter(j) \/ HostbinLock(j) \/ HostbinMount(j) \/ HostbinUnlock(j)
          \/ Prepare(j) \/ Exec(j) \/ ProgEnds(j) \/ DumpLog(j) \/ Unlink(j) \/ Complete(j)

Next == Spawn \/ Join \/ Teardown \/ Over \/ \E j \in Jobs : Job(j)

Spec == Init /\ [][Next]_vars

\* The threads are scheduled and a program ends by itself (fsx does a fixed
\* number of operations).
FairSpec == Spec /\ WF_vars(Spawn \/ Join \/ Teardown) /\ \A j \in Jobs : WF_vars(Job(j))

-----------------------------------------------------------------------------
\* The types of the variables.
TypeOK ==
    /\ main \in {"spawn", "join", "exit", "torndown"} /\ next \in Jobs
    /\ pc \in [Jobs -> {"unborn", "enter", "lock", "mount", "unlock", "log", "exec", "run",
                        "dump", "unlink", "complete", "exited"}]
    /\ done \subseteq Jobs /\ failed \subseteq Jobs
    /\ ret \in [Jobs -> {ENOENT, ENOMEM} \cup 0..255]
    /\ hostbinSet \in BOOLEAN /\ flag \in BOOLEAN
    /\ lock \in Jobs \cup {Nobody} /\ mounts \in Nat
    /\ seq \in 0..N /\ log \in [Jobs -> 0..N] /\ files \subseteq 1..N
    /\ outcome \in [Jobs -> {"none", "ok", "bad"}]

\* Programs that run at the same time write, and are reported from, log
\* files of their own.
LogsPrivate ==
    \A i, j \in Jobs :
      (i # j /\ {pc[i], pc[j]} \subseteq {"exec", "run", "dump", "unlink"}) => log[i] # log[j]

\* Every program finds its binary, on the one hostfs mount that the first
\* caller made, also when an earlier caller's attempt to mount it failed.
BinaryThere == \A j \in Jobs : pc[j] \in {"log", "exec", "run"} => mounts = 1

\* The case fails exactly the jobs whose program did not run or did not end
\* well: no wait status other than 0 reads as success.
VerdictExact ==
    main \in {"exit", "torndown"} => failed = {j \in Jobs : outcome[j] # "ok"}

\* The jobs, freed when the case returns, are out of every kthread's reach
\* by then.
JobsOutliveThreads ==
    main \in {"exit", "torndown"} => \A j \in Jobs : pc[j] = "exited"

\* After teardown no log file and no hostfs mount is left.
NothingLeft == main = "torndown" => files = {} /\ mounts = 0

\* The case ends, also when kthreads fail to start.
CaseEnds == <>(main = "torndown")
=============================================================================
