--------------------------- MODULE RunProgProofs ---------------------------
(***************************************************************************)
(* Proofs about RunProg, for every number of jobs, every set of wait       *)
(* statuses a program can end with and every set of failing steps.         *)
(***************************************************************************)
EXTENDS RunProg, FiniteSetTheorems, TLAPS

\* xfs_hostbin_lock is held by the one job between mutex_lock() and
\* mutex_unlock().
Locked == \A j \in Jobs : lock = j <=> pc[j] \in {"mount", "unlock"}

\* The flag tells whether the one mount is there; a job mounts only without
\* it, and goes on only with it.
Mounted ==
    /\ mounts = IF flag THEN 1 ELSE 0
    /\ \A j \in Jobs :
         /\ pc[j] = "mount" => ~flag
         /\ pc[j] \in {"log", "exec", "run"} => flag
         /\ (pc[j] = "unlock" /\ ret[j] = 0) => flag

\* A result is 0 until something fails; once it is final it is 0 exactly
\* for the programs that ended well.
Results ==
    \A j \in Jobs :
      /\ pc[j] \in {"unborn", "enter", "lock", "mount", "log", "exec", "run"} => ret[j] = 0
      /\ IF pc[j] \in {"dump", "unlink", "complete", "exited"}
           THEN ret[j] = 0 <=> outcome[j] = "ok"
           ELSE outcome[j] = "none"

\* The jobs that have been given a log name.
Named == {j \in Jobs : log[j] # 0}

\* The names given so far are 1..seq, one each, and the counter counts them.
Logs ==
    /\ seq = Cardinality(Named)
    /\ \A j \in Jobs :
         /\ log[j] <= seq
         /\ pc[j] \in {"unborn", "enter", "lock", "mount", "unlock", "log"} => log[j] = 0
         /\ pc[j] \in {"exec", "run", "dump", "unlink"} => log[j] # 0
         /\ \A i \in Jobs : (i # j /\ log[i] # 0) => log[i] # log[j]

\* A log file belongs to a job that is yet to unlink it.
Owned == \A f \in files : \E j \in Jobs : log[j] = f /\ pc[j] \in {"run", "dump", "unlink"}

\* How far main is: it has started the jobs below next, or joined them.
Progress ==
    /\ done = {j \in Jobs : pc[j] = "exited"}
    /\ \A j \in Jobs : pc[j] = "unborn" <=> (main = "spawn" /\ j >= next)
    /\ main = "spawn" => failed = {}
    /\ main = "join" => /\ \A j \in Jobs : j < next => j \in done
                        /\ failed = {j \in Jobs : j < next /\ ret[j] # 0}
    /\ main \in {"exit", "torndown"} => /\ done = Jobs
                                        /\ failed = {j \in Jobs : ret[j] # 0}
    /\ main = "torndown" => ~flag

RInv == TypeOK /\ Locked /\ Mounted /\ Results /\ Logs /\ Owned /\ Progress
-----------------------------------------------------------------------------
\* A result is 0 exactly for the wait status 0, and fits ret's type.
LEMMA DecodeExact ==
    ASSUME NEW st \in WaitStatus
    PROVE  /\ Decode(st) \in 0..255
           /\ Decode(st) = 0 <=> st = 0
<1>1. CASE \E code \in 0..255 : st = 256 * code
  BY <1>1 DEF Decode
<1>2. CASE \E sig \in 1..127, core \in {0, 128} : st = sig + core
  BY <1>2 DEF Decode
<1> QED
  BY <1>1, <1>2 DEF WaitStatus

\* There are at most N jobs of any kind.
LEMMA FewJobs ==
    ASSUME NEW S \in SUBSET Jobs
    PROVE  /\ IsFiniteSet(S)
           /\ Cardinality(S) \in 0..N
<1>1. N \in Nat
  BY RunProgAssumption
<1>2. IsFiniteSet(Jobs) /\ Cardinality(Jobs) = N
  BY <1>1, FS_Interval DEF Jobs
<1>3. IsFiniteSet(S) /\ Cardinality(S) <= N
  BY <1>2, FS_Subset
<1> QED
  BY <1>1, <1>3, FS_CardinalityType

\* The initial states satisfy the invariant.
THEOREM InitRInv == Init => RInv
<1> SUFFICES ASSUME Init PROVE RInv
  OBVIOUS
<1> N \in Nat \ {0}
  BY RunProgAssumption
<1>1. TypeOK
  <2>1. log = [j \in Jobs |-> 0] /\ ret = [j \in Jobs |-> 0] /\ next = 1
    BY DEF Init
  <2>2. next \in Jobs /\ log \in [Jobs -> 0..N] /\ ret \in [Jobs -> {ENOENT, ENOMEM} \cup 0..255]
    BY <2>1 DEF Jobs
  <2> QED
    BY <2>2 DEF Init, TypeOK, Nobody
<1>2. Locked /\ Mounted /\ Results /\ Owned
  BY DEF Init, Locked, Mounted, Results, Owned, Jobs, Nobody
<1>3. Named = {}
  BY DEF Init, Named
<1>4. Logs
  BY <1>3, FS_EmptySet DEF Init, Logs
<1>5. Progress
  BY DEF Init, Progress, Jobs
<1> QED
  BY <1>1, <1>2, <1>4, <1>5 DEF RInv

\* Without the parameter a job ends at once, with an error.
LEMMA EnterStep ==
    ASSUME RInv, NEW j \in Jobs, Enter(j)
    PROVE  RInv'
<1> USE DEF RInv, Enter, Goto, Return
<1> N \in Nat \ {0}
  BY RunProgAssumption
<1>1. TypeOK'
  BY DEF TypeOK, ENOENT, ENOMEM
<1>2. Locked'
  BY DEF TypeOK, Locked, Jobs, Nobody
<1>3. Mounted'
  BY DEF TypeOK, Mounted, Locked, Results, Progress, ENOENT, ENOMEM
<1>4. Results'
  BY DEF TypeOK, Results, ENOENT, ENOMEM
<1>5. Logs'
  BY DEF TypeOK, Logs, Named
<1>6. Owned'
  BY DEF TypeOK, Owned, Logs
<1>7. Progress'
  BY DEF TypeOK, Progress
<1> QED
  BY <1>1, <1>2, <1>3, <1>4, <1>5, <1>6, <1>7

\* The mutex is taken by a job that finds it free.
LEMMA HostbinLockStep ==
    ASSUME RInv, NEW j \in Jobs, HostbinLock(j)
    PROVE  RInv'
<1> USE DEF RInv, HostbinLock, Goto, Return, MayEnter
<1> N \in Nat \ {0}
  BY RunProgAssumption
<1>1. TypeOK'
  BY DEF TypeOK, ENOENT, ENOMEM
<1>2. Locked'
  BY DEF TypeOK, Locked, Jobs, Nobody
<1>3. Mounted'
  BY DEF TypeOK, Mounted, Locked, Results, Progress, ENOENT, ENOMEM
<1>4. Results'
  BY DEF TypeOK, Results, ENOENT, ENOMEM
<1>5. Logs'
  BY DEF TypeOK, Logs, Named
<1>6. Owned'
  BY DEF TypeOK, Owned, Logs
<1>7. Progress'
  BY DEF TypeOK, Progress
<1> QED
  BY <1>1, <1>2, <1>3, <1>4, <1>5, <1>6, <1>7

\* Only one job can be mounting, and it found no mount.
LEMMA HostbinMountStep ==
    ASSUME RInv, NEW j \in Jobs, HostbinMount(j)
    PROVE  RInv'
<1> USE DEF RInv, HostbinMount, Goto, Return
<1> N \in Nat \ {0}
  BY RunProgAssumption
<1>1. TypeOK'
  <2>0. flag' \in BOOLEAN
    BY Zenon
  <2>1. mounts' \in Nat
    BY DEF TypeOK
  <2>2. ret' \in [Jobs -> {ENOENT, ENOMEM} \cup 0..255]
    BY DEF TypeOK, ENOENT, ENOMEM
  <2> QED
    BY <2>0, <2>1, <2>2 DEF TypeOK
<1>2. Locked'
  BY DEF TypeOK, Locked, Jobs, Nobody
<1>3. Mounted'
  BY DEF TypeOK, Mounted, Locked, Results, Progress, ENOENT, ENOMEM
<1>4. Results'
  BY DEF TypeOK, Results, ENOENT, ENOMEM
<1>5. Logs'
  BY DEF TypeOK, Logs, Named
<1>6. Owned'
  BY DEF TypeOK, Owned, Logs
<1>7. Progress'
  BY DEF TypeOK, Progress
<1> QED
  BY <1>1, <1>2, <1>3, <1>4, <1>5, <1>6, <1>7

\* The mutex is released; only a job with a mount goes on.
LEMMA HostbinUnlockStep ==
    ASSUME RInv, NEW j \in Jobs, HostbinUnlock(j)
    PROVE  RInv'
<1> USE DEF RInv, HostbinUnlock, Goto, Return
<1> N \in Nat \ {0}
  BY RunProgAssumption
<1>1. TypeOK'
  BY DEF TypeOK, ENOENT, ENOMEM
<1>2. Locked'
  BY DEF TypeOK, Locked, Jobs, Nobody
<1>3. Mounted'
  BY DEF TypeOK, Mounted, Locked, Results, Progress, ENOENT, ENOMEM
<1>4. Results'
  BY DEF TypeOK, Results, ENOENT, ENOMEM
<1>5. Logs'
  BY DEF TypeOK, Logs, Named
<1>6. Owned'
  BY DEF TypeOK, Owned, Logs
<1>7. Progress'
  BY DEF TypeOK, Progress
<1> QED
  BY <1>1, <1>2, <1>3, <1>4, <1>5, <1>6, <1>7

\* A new log name.
LEMMA PrepareStep ==
    ASSUME RInv, NEW j \in Jobs, Prepare(j)
    PROVE  RInv'
<1> USE DEF RInv, Prepare, Goto, Return, NextSeq
<1> N \in Nat \ {0}
  BY RunProgAssumption
<1>0. Cardinality(Named') = seq + 1 /\ Cardinality(Named') \in 0..N
  <2>1. j \notin Named /\ Named' = Named \cup {j} /\ Named \in SUBSET Jobs
    BY DEF Named, Logs, TypeOK
  <2>2. Cardinality(Named') = Cardinality(Named) + 1
    BY <2>1, FewJobs, FS_AddElement
  <2>3. Cardinality(Named') \in 0..N
    BY <2>1, FewJobs
  <2> QED
    BY <2>2, <2>3 DEF Logs
<1>1. TypeOK'
  <2>1. seq' \in 0..N /\ log' \in [Jobs -> 0..N]
    BY <1>0 DEF TypeOK, Logs
  <2>2. ret' \in [Jobs -> {ENOENT, ENOMEM} \cup 0..255]
    BY DEF TypeOK, ENOENT, ENOMEM
  <2> QED
    BY <2>1, <2>2 DEF TypeOK
<1>2. Locked'
  BY DEF TypeOK, Locked, Jobs, Nobody
<1>3. Mounted'
  BY DEF TypeOK, Mounted, Locked, Results, Progress, ENOENT, ENOMEM
<1>4. Results'
  BY DEF TypeOK, Results, ENOENT, ENOMEM
<1>5. Logs'
  <2>1. seq' = Cardinality(Named')
    BY <1>0
  <2>2. \A i \in Jobs : log'[i] = IF i = j THEN seq + 1 ELSE log[i]
    BY DEF TypeOK
  <2>3. \A i \in Jobs : log[i] \in 0..seq /\ seq \in Nat
    BY DEF TypeOK, Logs
  <2>4. ASSUME NEW i \in Jobs
        PROVE  /\ log'[i] <= seq'
               /\ pc'[i] \in {"unborn", "enter", "lock", "mount", "unlock", "log"} => log'[i] = 0
               /\ pc'[i] \in {"exec", "run", "dump", "unlink"} => log'[i] # 0
    BY <2>2, <2>3 DEF TypeOK, Logs
  <2>5. ASSUME NEW i \in Jobs, NEW k \in Jobs, i # k, log'[k] # 0
        PROVE  log'[k] # log'[i]
    BY <2>2, <2>3, <2>5 DEF Logs
  <2> QED
    BY <2>1, <2>4, <2>5 DEF Logs
<1>6. Owned'
  BY DEF TypeOK, Owned, Logs
<1>7. Progress'
  BY DEF TypeOK, Progress
<1> QED
  BY <1>1, <1>2, <1>3, <1>4, <1>5, <1>6, <1>7

\* The program starts, or fails to.
LEMMA ExecStep ==
    ASSUME RInv, NEW j \in Jobs, Exec(j)
    PROVE  RInv'
<1> USE DEF RInv, Exec, Goto, Return
<1> N \in Nat \ {0}
  BY RunProgAssumption
<1>1. TypeOK'
  <2>1. log[j] \in 1..N
    BY DEF TypeOK, Logs
  <2>2. ret' \in [Jobs -> {ENOENT, ENOMEM} \cup 0..255]
    BY DEF TypeOK, ENOENT, ENOMEM
  <2>3. files' \subseteq 1..N
    BY <2>1 DEF TypeOK
  <2>4. pc' \in [Jobs -> {"unborn", "enter", "lock", "mount", "unlock", "log", "exec", "run",
                         "dump", "unlink", "complete", "exited"}]
    BY DEF TypeOK
  <2> QED
    BY <2>2, <2>3, <2>4 DEF TypeOK
<1>2. Locked'
  BY DEF TypeOK, Locked, Jobs, Nobody
<1>3. Mounted'
  BY DEF TypeOK, Mounted, Locked, Results, Progress, ENOENT, ENOMEM
<1>4. Results'
  BY DEF TypeOK, Results, ENOENT, ENOMEM
<1>5. Logs'
  BY DEF TypeOK, Logs, Named
<1>6. Owned'
  <2>1. \A i \in Jobs : pc'[i] = IF i = j THEN pc'[j] ELSE pc[i]
    BY DEF TypeOK
  <2>2. pc'[j] \in {"run", "dump"} /\ log' = log /\ files' \subseteq files \cup {log[j]}
    BY DEF TypeOK
  <2> QED
    BY <2>1, <2>2 DEF Owned
<1>7. Progress'
  BY DEF TypeOK, Progress
<1> QED
  BY <1>1, <1>2, <1>3, <1>4, <1>5, <1>6, <1>7

\* The program ends.
LEMMA ProgEndsStep ==
    ASSUME RInv, NEW j \in Jobs, ProgEnds(j)
    PROVE  RInv'
<1> USE DEF RInv, ProgEnds, Goto, Return
<1> N \in Nat \ {0}
  BY RunProgAssumption
<1>1. TypeOK'
  <2>1. PICK st \in Statuses : /\ ret' = [ret EXCEPT ![j] = Decode(st)]
                             /\ outcome' = [outcome EXCEPT ![j] = IF st = 0 THEN "ok" ELSE "bad"]
    OBVIOUS
  <2>2. Decode(st) \in 0..255
    BY DecodeExact, RunProgAssumption
  <2>3. ret' \in [Jobs -> {ENOENT, ENOMEM} \cup 0..255]
    BY <2>1, <2>2 DEF TypeOK
  <2> QED
    BY <2>1, <2>3 DEF TypeOK
<1>2. Locked'
  BY DEF TypeOK, Locked, Jobs, Nobody
<1>3. Mounted'
  BY DEF TypeOK, Mounted, Locked, Results, Progress, ENOENT, ENOMEM
<1>4. Results'
  <2>1. PICK st \in Statuses : /\ ret' = [ret EXCEPT ![j] = Decode(st)]
                             /\ outcome' = [outcome EXCEPT ![j] = IF st = 0 THEN "ok" ELSE "bad"]
    OBVIOUS
  <2>2. Decode(st) = 0 <=> st = 0
    BY DecodeExact, RunProgAssumption
  <2>3. pc'[j] \in {"dump", "unlink"}
    BY DEF TypeOK
  <2> QED
    BY <2>1, <2>2, <2>3 DEF TypeOK, Results
<1>5. Logs'
  BY DEF TypeOK, Logs, Named
<1>6. Owned'
  BY DEF TypeOK, Owned, Logs
<1>7. Progress'
  BY DEF TypeOK, Progress
<1> QED
  BY <1>1, <1>2, <1>3, <1>4, <1>5, <1>6, <1>7

\* The log is only read.
LEMMA DumpLogStep ==
    ASSUME RInv, NEW j \in Jobs, DumpLog(j)
    PROVE  RInv'
<1> USE DEF RInv, DumpLog, Goto, Return
<1> N \in Nat \ {0}
  BY RunProgAssumption
<1>1. TypeOK'
  BY DEF TypeOK, ENOENT, ENOMEM
<1>2. Locked'
  BY DEF TypeOK, Locked, Jobs, Nobody
<1>3. Mounted'
  BY DEF TypeOK, Mounted, Locked, Results, Progress, ENOENT, ENOMEM
<1>4. Results'
  BY DEF TypeOK, Results, ENOENT, ENOMEM
<1>5. Logs'
  BY DEF TypeOK, Logs, Named
<1>6. Owned'
  BY DEF TypeOK, Owned, Logs
<1>7. Progress'
  BY DEF TypeOK, Progress
<1> QED
  BY <1>1, <1>2, <1>3, <1>4, <1>5, <1>6, <1>7

\* The log goes with its owner.
LEMMA UnlinkStep ==
    ASSUME RInv, NEW j \in Jobs, Unlink(j)
    PROVE  RInv'
<1> USE DEF RInv, Unlink, Goto, Return, Unlinked
<1> N \in Nat \ {0}
  BY RunProgAssumption
<1>1. TypeOK'
  BY DEF TypeOK, ENOENT, ENOMEM
<1>2. Locked'
  BY DEF TypeOK, Locked, Jobs, Nobody
<1>3. Mounted'
  BY DEF TypeOK, Mounted, Locked, Results, Progress, ENOENT, ENOMEM
<1>4. Results'
  BY DEF TypeOK, Results, ENOENT, ENOMEM
<1>5. Logs'
  BY DEF TypeOK, Logs, Named
<1>6. Owned'
  BY DEF TypeOK, Owned, Logs
<1>7. Progress'
  BY DEF TypeOK, Progress
<1> QED
  BY <1>1, <1>2, <1>3, <1>4, <1>5, <1>6, <1>7

\* The job is signalled.
LEMMA CompleteStep ==
    ASSUME RInv, NEW j \in Jobs, Complete(j)
    PROVE  RInv'
<1> USE DEF RInv, Complete, Goto, Return
<1> N \in Nat \ {0}
  BY RunProgAssumption
<1>1. TypeOK'
  BY DEF TypeOK, ENOENT, ENOMEM
<1>2. Locked'
  BY DEF TypeOK, Locked, Jobs, Nobody
<1>3. Mounted'
  BY DEF TypeOK, Mounted, Locked, Results, Progress, ENOENT, ENOMEM
<1>4. Results'
  BY DEF TypeOK, Results, ENOENT, ENOMEM
<1>5. Logs'
  BY DEF TypeOK, Logs, Named
<1>6. Owned'
  BY DEF TypeOK, Owned, Logs
<1>7. Progress'
  BY DEF TypeOK, Progress
<1> QED
  BY <1>1, <1>2, <1>3, <1>4, <1>5, <1>6, <1>7

\* Main starts the next job, or completes it itself.
LEMMA SpawnStep ==
    ASSUME RInv, Spawn
    PROVE  RInv'
<1> USE DEF RInv, Spawn, Goto, Return, Joinable
<1> N \in Nat \ {0}
  BY RunProgAssumption
<1>1. TypeOK'
  <2>1. main' \in {"spawn", "join"} /\ next' \in Jobs
    BY DEF TypeOK, Jobs
  <2>2. ret' \in [Jobs -> {ENOENT, ENOMEM} \cup 0..255] /\ done' \subseteq Jobs
    BY DEF TypeOK, ENOENT, ENOMEM
  <2> QED
    BY <2>1, <2>2 DEF TypeOK
<1>2. Locked'
  BY DEF TypeOK, Locked, Progress, Jobs
<1>3. Mounted'
  BY DEF TypeOK, Mounted, Progress, ENOENT, ENOMEM, Jobs
<1>4. Results'
  <2>1. next \in Jobs /\ pc[next] = "unborn" /\ UNCHANGED outcome
    BY DEF TypeOK, Progress, Jobs
  <2>2. ret[next] = 0 /\ outcome[next] = "none"
    BY <2>1 DEF Results
  <2>3. \/ pc'[next] = "enter" /\ ret'[next] = 0
        \/ pc'[next] = "exited" /\ ret'[next] = ENOMEM
    BY <2>1, <2>2 DEF TypeOK
  <2>4. \A j \in Jobs \ {next} : pc'[j] = pc[j] /\ ret'[j] = ret[j]
    BY DEF TypeOK
  <2> QED
    BY <2>1, <2>2, <2>3, <2>4 DEF Results, ENOMEM
<1>5. Logs'
  BY DEF TypeOK, Logs, Named, Progress, Jobs
<1>6. Owned'
  <2>1. pc[next] = "unborn" /\ UNCHANGED <<files, log>>
    BY DEF TypeOK, Progress, Jobs
  <2>2. \A j \in Jobs : j # next => pc'[j] = pc[j]
    BY DEF TypeOK
  <2>3. \A f \in files : \E j \in Jobs : j # next /\ log[j] = f /\ pc[j] \in {"run", "dump", "unlink"}
    BY <2>1 DEF Owned
  <2> QED
    BY <2>1, <2>2, <2>3 DEF Owned
<1>7. Progress'
  <2>0. pc[next] = "unborn"
    BY DEF TypeOK, Progress, Jobs
  <2>1. done' = {j \in Jobs : pc'[j] = "exited"}
    BY <2>0 DEF TypeOK, Progress
  <2>2. \A j \in Jobs : pc'[j] = "unborn" <=> (main' = "spawn" /\ j >= next')
    BY DEF TypeOK, Progress, Jobs
  <2>3. CASE next = N
    <3>1. main' = "join" /\ next' = 1 /\ failed' = {}
      BY <2>3 DEF Progress
    <3>2. \A j \in Jobs : ~(j < 1)
      BY DEF Jobs
    <3> QED
      BY <2>1, <2>2, <3>1, <3>2 DEF Progress
  <2>4. CASE next # N
    BY <2>1, <2>2, <2>4 DEF TypeOK, Progress, Jobs
  <2> QED
    BY <2>3, <2>4
<1> QED
  BY <1>1, <1>2, <1>3, <1>4, <1>5, <1>6, <1>7

\* Main judges the next job, which has exited.
LEMMA JoinStep ==
    ASSUME RInv, Join
    PROVE  RInv'
<1> USE DEF RInv, Join, Goto, Return, Joinable
<1> N \in Nat \ {0}
  BY RunProgAssumption
<1>1. TypeOK'
  <2>1. main' \in {"spawn", "join", "exit", "torndown"} /\ next' \in Jobs /\ failed' \subseteq Jobs
    BY DEF TypeOK, Jobs
  <2> QED
    BY <2>1 DEF TypeOK
<1>2. Locked'
  BY DEF TypeOK, Locked, Progress, Jobs
<1>3. Mounted'
  BY DEF TypeOK, Mounted, Progress, ENOENT, ENOMEM, Jobs
<1>4. Results'
  BY DEF TypeOK, Results, Progress, ENOENT, ENOMEM, Jobs
<1>5. Logs'
  BY DEF TypeOK, Logs, Named, Progress, Jobs
<1>6. Owned'
  BY DEF TypeOK, Owned, Progress, Jobs
<1>7. Progress'
  BY DEF TypeOK, Progress, Jobs
<1> QED
  BY <1>1, <1>2, <1>3, <1>4, <1>5, <1>6, <1>7

\* Everyone has exited when the mount goes.
LEMMA TeardownStep ==
    ASSUME RInv, Teardown
    PROVE  RInv'
<1> USE DEF RInv, Teardown, Goto, Return, Joinable
<1> N \in Nat \ {0}
  BY RunProgAssumption
<1>1. TypeOK'
  <2>1. mounts' \in Nat
    BY DEF TypeOK, Mounted
  <2> QED
    BY <2>1 DEF TypeOK
<1>2. Locked'
  BY DEF TypeOK, Locked, Progress, Jobs
<1>3. Mounted'
  <2>1. \A j \in Jobs : pc[j] = "exited"
    BY DEF Progress
  <2>2. mounts' = 0
    BY DEF Mounted
  <2> QED
    BY <2>1, <2>2 DEF Mounted
<1>4. Results'
  BY DEF TypeOK, Results, Progress, ENOENT, ENOMEM, Jobs
<1>5. Logs'
  BY DEF TypeOK, Logs, Named, Progress, Jobs
<1>6. Owned'
  BY DEF TypeOK, Owned, Progress, Jobs
<1>7. Progress'
  BY DEF TypeOK, Progress, Jobs
<1> QED
  BY <1>1, <1>2, <1>3, <1>4, <1>5, <1>6, <1>7

\* Every step preserves the invariant.
THEOREM NextRInv == RInv /\ [Next]_vars => RInv'
<1> SUFFICES ASSUME RInv, [Next]_vars PROVE RInv'
  OBVIOUS
<1>1. CASE Spawn
  BY <1>1, SpawnStep
<1>2. CASE Join
  BY <1>2, JoinStep
<1>3. CASE Teardown
  BY <1>3, TeardownStep
<1>4. CASE Over \/ UNCHANGED vars
  <2>1. UNCHANGED vars
    BY <1>4 DEF Over
  <2>2. Named' = Named
    BY <2>1 DEF vars, Named
  <2>3. TypeOK' /\ Locked' /\ Mounted' /\ Results' /\ Owned' /\ Progress'
    BY <2>1 DEF vars, RInv, TypeOK, Locked, Mounted, Results, Owned, Progress
  <2>4. Logs'
    BY <2>1, <2>2 DEF vars, RInv, Logs
  <2> QED
    BY <2>3, <2>4 DEF RInv
<1>5. ASSUME NEW j \in Jobs, Job(j) PROVE RInv'
  BY <1>5, EnterStep, HostbinLockStep, HostbinMountStep, HostbinUnlockStep, PrepareStep,
     ExecStep, ProgEndsStep, DumpLogStep, UnlinkStep, CompleteStep DEF Job
<1> QED
  BY <1>1, <1>2, <1>3, <1>4, <1>5 DEF Next

\* The inductive invariant holds in every behaviour.
THEOREM RInvAlways == Spec => []RInv
<1> QED
  BY InitRInv, NextRInv, PTL DEF Spec

\* Every job's result, log name and file and the mount counter keep their
\* types; in particular xfs_prog_seq never passes the number of jobs.
THEOREM RunProgTypes == Spec => []TypeOK
<1> QED
  BY RInvAlways, PTL DEF RInv

\* xfs_prog_seq gives programs that run at the same time logs of their own.
THEOREM RunProgLogs == Spec => []LogsPrivate
<1>1. RInv => LogsPrivate
  <2> SUFFICES ASSUME RInv, NEW i \in Jobs, NEW j \in Jobs, i # j,
                      pc[i] \in {"exec", "run", "dump", "unlink"},
                      pc[j] \in {"exec", "run", "dump", "unlink"}
               PROVE  log[i] # log[j]
    BY DEF LogsPrivate
  <2> QED
    BY DEF RInv, Logs
<1> QED
  BY <1>1, RInvAlways, PTL

\* The mutex and the flag of xfs_hostbin_mount() leave exactly one hostfs
\* mount under every program that runs.
THEOREM RunProgBinary == Spec => []BinaryThere
<1>1. RInv => BinaryThere
  BY DEF RInv, Mounted, BinaryThere
<1> QED
  BY <1>1, RInvAlways, PTL

\* wait_for_completion() on every job keeps the jobs until all kthreads are
\* past them.
THEOREM RunProgJobs == Spec => []JobsOutliveThreads
<1>1. RInv => JobsOutliveThreads
  BY DEF RInv, Progress, JobsOutliveThreads
<1> QED
  BY <1>1, RInvAlways, PTL

\* Teardown leaves no log file and no hostfs mount.
THEOREM RunProgNothingLeft == Spec => []NothingLeft
<1>1. RInv => NothingLeft
  <2> SUFFICES ASSUME RInv, main = "torndown" PROVE files = {} /\ mounts = 0
    BY DEF NothingLeft
  <2>1. \A j \in Jobs : pc[j] = "exited"
    BY DEF RInv, Progress
  <2>2. files = {}
    BY <2>1 DEF RInv, Owned
  <2>3. mounts = 0
    BY DEF RInv, Progress, Mounted
  <2> QED
    BY <2>2, <2>3
<1> QED
  BY <1>1, RInvAlways, PTL

\* The case fails exactly the jobs whose program did not end with wait
\* status 0.
THEOREM RunProgVerdict == Spec => []VerdictExact
<1>1. RInv => VerdictExact
  <2> SUFFICES ASSUME RInv, main \in {"exit", "torndown"}
               PROVE  failed = {j \in Jobs : outcome[j] # "ok"}
    BY DEF VerdictExact
  <2>1. \A j \in Jobs : pc[j] = "exited"
    BY DEF RInv, Progress
  <2>2. \A j \in Jobs : ret[j] = 0 <=> outcome[j] = "ok"
    BY <2>1 DEF RInv, Results
  <2> QED
    BY <2>2 DEF RInv, Progress
<1> QED
  BY <1>1, RInvAlways, PTL
=============================================================================
