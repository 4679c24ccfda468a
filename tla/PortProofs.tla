------------------------------ MODULE PortProofs ------------------------------
(***************************************************************************)
(* Proofs about the control flow of the ports and the directory they work  *)
(* in, for every set of programs of the shape the assumptions of Calls     *)
(* state: a case ends with its kthreads joined and its directory removed   *)
(* unless an assertion leaves it first, only a kthread that such an        *)
(* assertion keeps it from waiting for outlives it, and no struct file is  *)
(* closed that was not opened.                                             *)
(***************************************************************************)
EXTENDS FileClientProofs, FiniteSetTheorems

(* The inductive invariant. *)
FlagTypes ==
    /\ stop \in BOOLEAN /\ starved \in BOOLEAN /\ dir \in BOOLEAN /\ silly \in BOOLEAN
    /\ entered \subseteq Threads
    /\ names \subseteq Files /\ fputs \subseteq Files
    /\ open \in [Files -> Int]
PortTypes == FlagTypes /\ pc \in [Threads -> Nat] /\ left \in Nat

\* A thread is at a step of its code, or right behind it; the case has begun.
InCode == pc[1] >= 1 /\ \A t \in Threads : pc[t] <= Len(Code(t)) + 1

\* A case that has been left was left by an assertion, and is in its deferred
\* actions.
LeftSound == left # 0 =>
    /\ left \in 1 .. Len(Code(1)) /\ Code(1)[left].fatal
    /\ pc[1] >= Deferred(Code(1))

\* An open file has its name as long as the case is not left.
Named == left = 0 => \A f \in Files : open[f] > 0 => f \in names

\* A kthread that runs is one the case has still to wait for, or has been kept
\* from waiting for.
Awaited == \A t \in Threads \ {1} :
    \/ pc[t] = 0 \/ Ended(t) \/ Unjoined(t)
    \/ left = 0 /\ \E j \in Waits(Code(1), t) : pc[1] <= j

\* The case has left the kthread_run() of a thread behind that has run.
Reached == IF left = 0 THEN pc[1] ELSE left
StartedOnce == \A t \in Threads \ {1} : pc[t] # 0 =>
    \E k \in 1 .. Len(Code(1)) : Code(1)[k].op = "start" /\ Code(1)[k].n = t /\ k < Reached

\* The unlink of every name there is lies ahead of the case, and among the
\* deferred actions of one that asserts.
NoStray == \A t \in Threads : ~Unjoined(t)
Ahead(j) == pc[1] <= j /\ (Asserts(Code(1)) => Deferred(Code(1)) <= j)
Removable == Settles(Code(1)) /\ NoStray => \A f \in names : \E j \in Removals(Code(1), f) : Ahead(j)

\* A case at its end has flushed the fputs, and removed the directory unless
\* it was left with files open.
Settled == Settles(Code(1)) /\ Done /\ NoStray =>
    fputs = {} /\ ~silly /\ (dir => left # 0 /\ \E f \in Files : open[f] > 0)

\* While every expectation holds, the open struct files of f are those the
\* threads have opened and not closed, and those an abort has kept open.
Mine(t, f) == Held(Code(t), f, pc[t])
AllMine(f) == Mine(1, f) + Mine(2, f) + Mine(3, f) + Mine(4, f) + Mine(5, f)
Counted == ~failed =>
    \A f \in Files : open[f] >= AllMine(f) /\ (left = 0 => open[f] = AllMine(f))

PInv == /\ PortTypes /\ InCode /\ LeftSound /\ Named /\ Awaited /\ StartedOnce
        /\ Removable /\ Settled /\ Counted

-------------------------------------------------------------------------------
(* The programs. *)

\* Every thread's code has the shape its port has; a thread without code has
\* no step.
LEMMA CodeShape ==
    ASSUME ControlTypes, NEW t
    PROVE  Structured(Code(t)) /\ Closing(Code(t))
<1>1. CASE t \in DOMAIN suite.code
  BY <1>1, StructureAssumption, CloseAssumption DEF ControlTypes, Code
<1>2. CASE t \notin DOMAIN suite.code
  <2>1. Code(t) = <<>>
    BY <1>2 DEF Code
  <2>2. Len(<<>>) = 0 /\ 1 .. 0 = {}
    OBVIOUS
  <2>3. Structured(<<>>)
    BY <2>2 DEF Structured
  <2>4. ASSUME NEW f \in Files PROVE Held(<<>>, f, Len(<<>>) + 1) = 0
    <3>1. /\ {i \in 1 .. (Len(<<>>) + 1) - 1 : IsOpen(<<>>[i], f)} = {}
          /\ {i \in 1 .. (Len(<<>>) + 1) - 1 : IsClose(<<>>[i], f)} = {}
      BY <2>2
    <3> QED
      BY <3>1, FS_EmptySet DEF Held
  <2>5. Closing(<<>>)
    BY <2>2, <2>4 DEF Closing
  <2> QED
    BY <2>1, <2>3, <2>5
<1> QED
  BY <1>1, <1>2

\* The case's code is that of thread 1, and what it says of starts, waits and
\* removals.
LEMMA MainShape ==
    ASSUME ControlTypes
    PROVE  /\ Code(1) = suite.code[1] /\ Joining(suite.code) /\ Cleaning(suite.code)
           /\ Deferring(suite.code)
           /\ \A t : \A k \in 1 .. Len(Code(t)) : t \in DOMAIN suite.code /\ Code(t) = suite.code[t]
<1>1. Code(1) = suite.code[1]
  BY StructureAssumption DEF ControlTypes, Code
<1>2. Joining(suite.code) /\ Cleaning(suite.code) /\ Deferring(suite.code)
  BY JoinAssumption, CleanupAssumption, DeferredAssumption DEF ControlTypes
<1>3. ASSUME NEW t, NEW k \in 1 .. Len(Code(t))
      PROVE  t \in DOMAIN suite.code /\ Code(t) = suite.code[t]
  <2>1. 1 .. Len(<<>>) = {}
    OBVIOUS
  <2> QED
    BY <1>3, <2>1 DEF Code
<1> QED
  BY <1>1, <1>2, <1>3

\* Only the case starts threads, others than itself, once, and waits for them
\* later.
LEMMA StartShape ==
    ASSUME ControlTypes, NEW t, NEW k \in 1 .. Len(Code(t)), Code(t)[k].op = "start"
    PROVE  /\ t = 1 /\ Code(t)[k].n \in Threads \ {1}
           /\ \E j \in Waits(Code(1), Code(t)[k].n) : k < j /\ Waits(Code(1), Code(t)[k].n) = {j}
           /\ \A i \in 1 .. Len(Code(1)) :
                Code(1)[i].op = "start" /\ Code(1)[i].n = Code(t)[k].n => i = k
<1>0. PICK n, code : n = Code(t)[k].n /\ code = suite.code
  OBVIOUS
<1>1. /\ t \in DOMAIN code /\ Code(t) = code[t] /\ Code(1) = code[1]
      /\ k \in 1 .. Len(code[t]) /\ code[t][k].op = "start" /\ code[t][k].n = n /\ Joining(code)
  BY <1>0, MainShape
<1>2. /\ t = 1 /\ n \in 2 .. 5
      /\ \E j \in Waits(Code(1), n) : k < j /\ Waits(Code(1), n) = {j}
      /\ \A i \in 1 .. Len(Code(1)) : Code(1)[i].op = "start" /\ Code(1)[i].n = n => i = k
  <2>1. LET m == code[t][k].n
        IN  /\ t = 1 /\ m \in 2 .. 5
            /\ \E j \in Waits(code[1], m) : k < j /\ Waits(code[1], m) = {j}
            /\ \A i \in 1 .. Len(code[1]) : code[1][i].op = "start" /\ code[1][i].n = m => i = k
    BY <1>1, Zenon DEF Joining
  <2> QED
    BY <1>1, <2>1, Zenon
<1>3. n \in Threads \ {1}
  BY <1>2 DEF Threads
<1> QED
  BY <1>0, <1>2, <1>3

\* What a step has created is removed later, by the case.
LEMMA RemovalShape ==
    ASSUME ControlTypes, Settles(Code(1)),
           NEW t, NEW k \in 1 .. Len(Code(t)), NEW f \in Created(Code(t)[k])
    PROVE  /\ t = 1 => \E j \in Removals(Code(1), f) :
                           k < j /\ (Asserts(Code(1)) => Deferred(Code(1)) <= j)
           /\ t # 1 => \A i \in Waits(Code(1), t) : \E j \in Removals(Code(1), f) :
                           i < j /\ (Asserts(Code(1)) => Deferred(Code(1)) <= j)
<1>1. Code(t) = suite.code[t] /\ t \in DOMAIN suite.code /\ Code(1) = suite.code[1]
  BY MainShape
<1>2. Settles(suite.code[1]) /\ Cleaning(suite.code)
  BY <1>1, MainShape
<1>3. \A i \in (IF t = 1 THEN {k} ELSE Waits(suite.code[1], t)) :
        \E j \in Removals(suite.code[1], f) :
          i < j /\ (Asserts(suite.code[1]) => Deferred(suite.code[1]) <= j)
  BY <1>1, <1>2 DEF Cleaning
<1> QED
  BY <1>1, <1>3

\* The deferred actions of the case only remove and are not asserted.
LEMMA DeferredShape ==
    ASSUME ControlTypes
    PROVE  /\ Deferred(Code(1)) \in 1 .. Len(Code(1)) + 1
           /\ \A i \in Deferred(Code(1)) .. Len(Code(1)) :
                Code(1)[i].op \in DeferredOps /\ ~Code(1)[i].fatal
BY MainShape DEF Deferring

\* When they begin the case has closed what it had opened.
LEMMA DeferredHeld ==
    ASSUME ControlTypes, NEW f \in Files
    PROVE  Held(Code(1), f, Deferred(Code(1))) = 0
<1>0. PICK c, d : c = Code(1) /\ d = Deferred(Code(1))
  OBVIOUS
<1>1. d \in 1 .. Len(c) + 1 /\ \A i \in d .. Len(c) : c[i].op \in DeferredOps
  BY <1>0, DeferredShape
<1>2. Len(c) \in Nat /\ Held(c, f, Len(c) + 1) = 0
  BY <1>0, CodeShape DEF Structured, Closing
<1>3. \A i \in d .. Len(c) : ~IsOpen(c[i], f) /\ ~IsClose(c[i], f)
  BY <1>1 DEF IsOpen, IsClose, DeferredOps
<1>4. \A i : i \in 1 .. Len(c) + 1 - 1 <=> i \in 1 .. d - 1 \/ i \in d .. Len(c)
  BY <1>1, <1>2
<1>5. PICK n : n = Len(c) + 1
  OBVIOUS
<1>6. /\ {i \in 1 .. n - 1 : IsOpen(c[i], f)} = {i \in 1 .. d - 1 : IsOpen(c[i], f)}
      /\ {i \in 1 .. n - 1 : IsClose(c[i], f)} = {i \in 1 .. d - 1 : IsClose(c[i], f)}
  BY <1>3, <1>4, <1>5
<1>7. Held(c, f, n) = Held(c, f, d)
  BY <1>6, Zenon DEF Held
<1> QED
  BY <1>0, <1>2, <1>5, <1>7

\* One more element of 1 .. k is counted.
LEMMA CountNext ==
    ASSUME NEW S, NEW k \in Nat \ {0}
    PROVE  /\ Cardinality(S \cap (1 .. k - 1)) \in Nat
           /\ Cardinality(S \cap (1 .. (k + 1) - 1)) =
                Cardinality(S \cap (1 .. k - 1)) + (IF k \in S THEN 1 ELSE 0)
<1> DEFINE A == S \cap (1 .. k - 1)
           B == S \cap (1 .. (k + 1) - 1)
<1>1. IsFiniteSet(A)
  <2>1. IsFiniteSet(1 .. k - 1)
    BY FS_Interval
  <2>2. A \subseteq 1 .. k - 1
    OBVIOUS
  <2> QED
    BY <2>1, <2>2, FS_Subset
<1>2. Cardinality(A) \in Nat
  BY <1>1, FS_CardinalityType
<1>3. CASE k \in S
  <2>1. B = A \cup {k} /\ k \notin A
    BY <1>3
  <2> QED
    BY <1>1, <1>2, <1>3, <2>1, FS_AddElement
<1>4. CASE k \notin S
  <2>1. B = A
    BY <1>4
  <2>2. Cardinality(B) = Cardinality(A)
    BY <2>1
  <2> HIDE DEF A, B
  <2>3. Cardinality(B) = Cardinality(A) + 0
    BY <1>2, <2>2
  <2> QED
    BY <1>2, <1>4, <2>3 DEF A, B
<1> QED
  BY <1>2, <1>3, <1>4

\* What a step does to the struct files its thread has open.
Change(s, f) == (IF IsOpen(s, f) THEN 1 ELSE 0) - (IF IsClose(s, f) THEN 1 ELSE 0)

\* The struct files a thread has open at a step, from those at the step before.
LEMMA HeldNext ==
    ASSUME NEW c, NEW f, NEW k \in Nat \ {0}
    PROVE  Held(c, f, k) \in Int /\ Held(c, f, k + 1) = Held(c, f, k) + Change(c[k], f)
<1> DEFINE O == {i \in Nat : IsOpen(c[i], f)}
           X == {i \in Nat : IsClose(c[i], f)}
<1>1. \A n \in Nat : /\ {i \in 1 .. n - 1 : IsOpen(c[i], f)} = O \cap (1 .. n - 1)
                     /\ {i \in 1 .. n - 1 : IsClose(c[i], f)} = X \cap (1 .. n - 1)
  OBVIOUS
<1>2. \A n \in Nat : Held(c, f, n) = Cardinality(O \cap (1 .. n - 1)) - Cardinality(X \cap (1 .. n - 1))
  BY <1>1 DEF Held
<1>3. k \in Nat /\ k + 1 \in Nat /\ (k \in O <=> IsOpen(c[k], f)) /\ (k \in X <=> IsClose(c[k], f))
  OBVIOUS
<1> HIDE DEF O, X
<1>4. /\ Cardinality(O \cap (1 .. k - 1)) \in Nat
      /\ Cardinality(O \cap (1 .. (k + 1) - 1)) =
           Cardinality(O \cap (1 .. k - 1)) + (IF k \in O THEN 1 ELSE 0)
  BY CountNext
<1>5. /\ Cardinality(X \cap (1 .. k - 1)) \in Nat
      /\ Cardinality(X \cap (1 .. (k + 1) - 1)) =
           Cardinality(X \cap (1 .. k - 1)) + (IF k \in X THEN 1 ELSE 0)
  BY CountNext
<1>6. /\ Held(c, f, k) = Cardinality(O \cap (1 .. k - 1)) - Cardinality(X \cap (1 .. k - 1))
      /\ Held(c, f, k + 1) = Cardinality(O \cap (1 .. (k + 1) - 1))
                             - Cardinality(X \cap (1 .. (k + 1) - 1))
  BY <1>2, <1>3, Zenon
<1>7. PICK a, b, d, e, x, y :
        /\ a = Cardinality(O \cap (1 .. k - 1)) /\ b = Cardinality(X \cap (1 .. k - 1))
        /\ d = Cardinality(O \cap (1 .. (k + 1) - 1)) /\ e = Cardinality(X \cap (1 .. (k + 1) - 1))
        /\ x = (IF k \in O THEN 1 ELSE 0) /\ y = (IF k \in X THEN 1 ELSE 0)
  OBVIOUS
<1>8. /\ Held(c, f, k) = a - b /\ Held(c, f, k + 1) = d - e
      /\ a \in Nat /\ b \in Nat /\ d = a + x /\ e = b + y
  BY <1>4, <1>5, <1>6, <1>7, Zenon
<1>9. x \in Int /\ y \in Int /\ Change(c[k], f) = x - y
  BY <1>3, <1>7 DEF Change
<1> QED
  BY <1>8, <1>9

\* A thread that has not begun has nothing open.
LEMMA HeldNone ==
    ASSUME NEW c, NEW f
    PROVE  Held(c, f, 0) = 0 /\ Held(c, f, 1) = 0
<1>1. 1 .. 0 - 1 = {} /\ 1 .. 1 - 1 = {}
  OBVIOUS
<1>2. /\ {i \in 1 .. 0 - 1 : IsOpen(c[i], f)} = {} /\ {i \in 1 .. 0 - 1 : IsClose(c[i], f)} = {}
      /\ {i \in 1 .. 1 - 1 : IsOpen(c[i], f)} = {} /\ {i \in 1 .. 1 - 1 : IsClose(c[i], f)} = {}
  BY <1>1
<1> QED
  BY <1>2, FS_EmptySet DEF Held

-------------------------------------------------------------------------------
(* What the steps of a thread do to the control flow and to the directory. *)

\* The thread goes on in its code.
GoesOn(t) ==
    /\ suite' = suite /\ left' = left
    /\ pc[t] \in 1 .. Len(Code(t))
    /\ \/ /\ Step(t).op \notin Heads \cup {"back", "start"}
          /\ pc' = [pc EXCEPT ![t] = pc[t] + 1]
          /\ Step(t).op = "join" => Ended(Step(t).n)
       \/ /\ Step(t).op = "start"
          /\ pc' = [pc EXCEPT ![t] = pc[t] + 1, ![Step(t).n] = 1]
       \/ /\ Step(t).op \in Heads
          /\ \/ pc' = [pc EXCEPT ![t] = pc[t] + 1]
             \/ pc' = [pc EXCEPT ![t] = pc[t] + Step(t).at]
       \/ /\ Step(t).op = "back"
          /\ pc' = [pc EXCEPT ![t] = pc[t] - Step(t).at]
\* A kthread breaks off.
Breaks(t) ==
    /\ t # 1 /\ suite' = suite /\ left' = left
    /\ pc[t] \in 1 .. Len(Code(t))
    /\ pc' = [pc EXCEPT ![t] = Len(Code(t)) + 1]
\* An assertion leaves the case.
Aborts(t) ==
    /\ t = 1 /\ suite' = suite /\ left' = pc[1]
    /\ pc[1] \in 1 .. Len(Code(1)) /\ Step(1).fatal
    /\ pc' = [pc EXCEPT ![1] = Deferred(Code(1))]
Goes(t) == GoesOn(t) \/ Breaks(t) \/ Aborts(t)

\* What the step does to the struct files of f while the expectations hold.
Opens(t, f) ==
    \/ GoesOn(t) /\ open'[f] = open[f] + Change(Step(t), f)
    \/ Breaks(t) /\ left # 0
       /\ open'[f] >= open[f] - (IF IsClose(Step(t), f) THEN 1 ELSE 0)
    \/ Aborts(t) /\ left = 0 /\ open'[f] = open[f]

Leaves(t) ==
    /\ FlagTypes'
    /\ Named => Named'
    /\ names' \subseteq names \cup Created(Step(t))
    /\ Step(t).op = "unlink" /\ left' = left => Step(t).f \notin names'
    /\ Step(t).op = "rmdir_settled" /\ left' = left =>
         /\ dir' = (dir /\ names \cup Pinned # {})
         /\ fputs' = {} /\ silly' = FALSE /\ open' = open
    /\ ~failed' => ~failed /\ \A f \in Files : Opens(t, f)

\* Calls that the directory does not notice.
Quiet == {"write", "append", "write_taken", "trunc", "refused", "take_size", "mwrite", "dwrite",
          "alloc", "punch", "fsync", "drop", "kick", "read", "read_range", "mread", "dread", "size",
          "blocks", "seek_data", "seek_hole", "sread", "ssize", "copy", "mkdir", "rmdir",
          "rmdir_settled", "settle", "mknod", "rename", "unlink"}

\* A call that returns what the thread accepts goes on to the next step.
LEMMA ReturnGoes ==
    ASSUME NEW t, NEW op, At(t, op), op \notin Heads \cup {"back", "start", "join"},
           NEW got, Return(t, got)
    PROVE  /\ Goes(t) /\ Step(t).op = op
           /\ UNCHANGED <<stop, entered, starved>>
           /\ got \in Step(t).want => GoesOn(t)
           /\ left' = 0 => left = 0
           /\ ~failed' => ~failed /\ (got \in Step(t).want \/ (Breaks(t) /\ left # 0))
<1>1. /\ pc[t] \in 1 .. Len(Code(t)) /\ Step(t).op = op /\ suite' = suite
      /\ UNCHANGED <<stop, entered, starved>>
  BY DEF At, Return, Follow
<1>2. CASE got \in Step(t).want
  <2>1. pc' = [pc EXCEPT ![t] = pc[t] + 1] /\ left' = left /\ (~failed' => ~failed)
    BY <1>2 DEF Return, Follow
  <2> QED
    BY <1>1, <1>2, <2>1 DEF Goes, GoesOn
<1>3. CASE got \notin Step(t).want /\ t # 1
  <2>1. /\ pc' = [pc EXCEPT ![t] = Len(Code(t)) + 1] /\ left' = left
        /\ ~failed' => ~failed /\ left # 0
    BY <1>3 DEF Return, Follow
  <2>2. Breaks(t)
    BY <1>1, <1>3, <2>1 DEF Breaks
  <2> QED
    BY <1>1, <1>3, <2>1, <2>2 DEF Goes
<1>4. CASE got \notin Step(t).want /\ t = 1 /\ Step(t).fatal
  <2>1. pc' = [pc EXCEPT ![1] = Deferred(Code(1))] /\ left' = pc[1] /\ failed' = TRUE
    BY <1>4 DEF Return, Follow
  <2>2. Aborts(t) /\ left' # 0
    BY <1>1, <1>4, <2>1 DEF Aborts
  <2> QED
    BY <1>1, <1>4, <2>1, <2>2 DEF Goes
<1>5. CASE got \notin Step(t).want /\ t = 1 /\ ~Step(t).fatal
  <2>1. pc' = [pc EXCEPT ![t] = pc[t] + 1] /\ left' = left /\ failed' = TRUE
    BY <1>5 DEF Return, Follow
  <2> QED
    BY <1>1, <1>5, <2>1 DEF Goes, GoesOn
<1> QED
  BY <1>2, <1>3, <1>4, <1>5

\* What a call that returns got does to the directory.
Does(t, got) ==
    /\ dir' \in BOOLEAN /\ silly' \in BOOLEAN
    /\ names' \subseteq Files /\ fputs' \subseteq Files /\ open' \in [Files -> Int]
    /\ left = 0 /\ (\A f \in Files : open[f] > 0 => f \in names) =>
         \A f \in Files : open'[f] > 0 => f \in names'
    /\ names' \subseteq names \cup Created(Step(t))
    /\ Step(t).op = "unlink" => Step(t).f \notin names'
    /\ Step(t).op = "rmdir_settled" =>
         /\ dir' = (dir /\ names \cup Pinned # {})
         /\ fputs' = {} /\ silly' = FALSE /\ open' = open
    /\ \A f \in Files :
         /\ got \in Step(t).want => open'[f] = open[f] + Change(Step(t), f)
         /\ open'[f] >= open[f] - (IF IsClose(Step(t), f) THEN 1 ELSE 0)

LEMMA CallLeaves ==
    ASSUME FlagTypes, NEW t, NEW op, At(t, op), op \notin Heads \cup {"back", "start", "join"},
           NEW got, Return(t, got), Does(t, got)
    PROVE  Goes(t) /\ Leaves(t)
<1>1. /\ Goes(t) /\ UNCHANGED <<stop, entered, starved>>
      /\ got \in Step(t).want => GoesOn(t)
      /\ left' = 0 => left = 0
      /\ ~failed' => ~failed /\ (got \in Step(t).want \/ (Breaks(t) /\ left # 0))
  BY ReturnGoes
<1>2. FlagTypes'
  BY <1>1 DEF FlagTypes, Does
<1>3. Named => Named'
  BY <1>1 DEF Named, Does
<1>4. ~failed' => ~failed /\ \A f \in Files : Opens(t, f)
  BY <1>1 DEF Opens, Does
<1> QED
  BY <1>1, <1>2, <1>3, <1>4 DEF Leaves, Does

\* A quiet call does not open or close anything.
LEMMA QuietChange ==
    ASSUME NEW s, s.op \in Quiet \cup ControlOps
    PROVE  /\ \A f : Change(s, f) = 0 /\ ~IsClose(s, f)
           /\ s.op \in Heads \cup {"back", "start", "join", "stop", "entered"} => Created(s) = {}
BY DEF Quiet, ControlOps, Change, IsOpen, IsClose, Created, Heads

\* A call that does not touch the directory.
LEMMA QuietStep ==
    ASSUME FlagTypes, NEW t, NEW op \in Quiet \ {"mkdir", "rmdir", "rmdir_settled", "settle", "mknod", "unlink"},
           At(t, op), NEW got, Return(t, got), UNCHANGED directory
    PROVE  Goes(t) /\ Leaves(t)
<1>1. Step(t).op = op /\ op \notin Heads \cup {"back", "start", "join"}
  BY DEF At, Quiet, Heads
<1>2. \A f \in Files : Change(Step(t), f) = 0 /\ ~IsClose(Step(t), f) /\ open[f] \in Int
  BY <1>1, QuietChange DEF FlagTypes
<1>3. Does(t, got)
  BY <1>1, <1>2 DEF Does, FlagTypes, directory
<1> QED
  BY <1>1, <1>3, CallLeaves

\* Opening: a file that is opened is counted, an open that fails has to.
LEMMA OpenLeaves ==
    ASSUME ControlTypes, FlagTypes, NEW t, OpenFile(t)
    PROVE  Goes(t) /\ Leaves(t)
<1>0. PICK f : f = Step(t).f
  OBVIOUS
<1> DEFINE Ops == {"creat", "open_creat", "excl", "open"}
<1>1. PICK op \in Ops : At(t, op)
  BY DEF OpenFile
<1>2. Step(t).op = op /\ f \in Files
  BY <1>0, <1>1, StepFormed DEF WellFormed, ControlOps
<1>3. \A g : IsClose(Step(t), g) = FALSE
  BY <1>2 DEF IsClose
<1>4. CASE /\ Return(t, OK) /\ OpenOne(f)
           /\ op \in {"creat", "open_creat", "excl"} \/ f \in names
  <2>1. /\ names' = names \cup {f} /\ UNCHANGED <<dir, fputs, silly>>
        /\ open' = [open EXCEPT ![f] = open[f] + 1]
    BY <1>4 DEF OpenOne
  <2>2. names' \subseteq names \cup Created(Step(t))
    BY <1>0, <1>2, <1>4, <2>1 DEF Created
  <2>3. ASSUME NEW g \in Files
        PROVE  /\ OK \in Step(t).want => open'[g] = open[g] + Change(Step(t), g)
               /\ open'[g] = (IF g = f THEN open[g] + 1 ELSE open[g]) /\ open[g] \in Int
    <3>1. OK \in Step(t).want => (IsOpen(Step(t), g) <=> g = f)
      BY <1>0, <1>2 DEF IsOpen
    <3>2. OK \in Step(t).want => Change(Step(t), g) = IF g = f THEN 1 ELSE 0
      BY <1>3, <3>1 DEF Change
    <3>3. open'[g] = IF g = f THEN open[g] + 1 ELSE open[g]
      BY <2>1 DEF FlagTypes
    <3>4. open[g] \in Int
      BY DEF FlagTypes
    <3> QED
      BY <3>2, <3>3, <3>4
  <2>4. Does(t, OK)
    BY <1>2, <1>3, <2>1, <2>2, <2>3 DEF Does, FlagTypes
  <2> QED
    BY <1>1, <1>4, <2>4, CallLeaves DEF Heads
<1>5. CASE At(t, "excl") /\ Return(t, EEXIST) /\ UNCHANGED directory
  <2>1. ASSUME NEW g \in Files
        PROVE  /\ EEXIST \in Step(t).want => open'[g] = open[g] + Change(Step(t), g)
               /\ open'[g] = open[g] /\ open[g] \in Int
    <3>1. EEXIST \in Step(t).want => ~IsOpen(Step(t), g)
      <4>1. EEXIST # OK
        BY DEF EEXIST, OK
      <4>2. IsOpen(Step(t), g) => Step(t).want = {OK}
        BY <1>1, CodeShape DEF Closing, At, Step
      <4> QED
        BY <4>1, <4>2
    <3>2. EEXIST \in Step(t).want => Change(Step(t), g) = 0
      BY <1>3, <3>1 DEF Change
    <3> QED
      BY <1>5, <3>2 DEF FlagTypes, directory
  <2>2. Does(t, EEXIST)
    BY <1>2, <1>3, <1>5, <2>1 DEF Does, FlagTypes, directory
  <2> QED
    BY <1>5, <2>2, CallLeaves DEF Heads
<1> QED
  BY <1>0, <1>1, <1>2, <1>4, <1>5 DEF OpenFile, At

\* A call on a file that is missing: an open of it has to be expected to fail.
LEMMA MissingLeaves ==
    ASSUME ControlTypes, FlagTypes, NEW t, MissingFile(t)
    PROVE  Goes(t) /\ Leaves(t)
<1>1. PICK op \in {"open", "trunc", "size", "ssize", "read_range", "blocks", "rename",
                   "creat", "open_creat", "excl"} : At(t, op)
  BY DEF MissingFile
<1>2. Return(t, ENOENT) /\ UNCHANGED directory /\ Step(t).op = op
  BY <1>1 DEF MissingFile, At
<1>3. \A g : ~IsClose(Step(t), g)
  BY <1>2 DEF IsClose
<1>4. ASSUME NEW g \in Files
      PROVE  /\ ENOENT \in Step(t).want => open'[g] = open[g] + Change(Step(t), g)
             /\ open'[g] = open[g] /\ open[g] \in Int
  <2>1. ENOENT \in Step(t).want => ~IsOpen(Step(t), g)
    <3>1. ENOENT # OK
      BY DEF ENOENT, OK
    <3>2. IsOpen(Step(t), g) => Step(t).want = {OK}
      BY <1>1, CodeShape DEF Closing, At, Step
    <3> QED
      BY <3>1, <3>2
  <2>2. ENOENT \in Step(t).want => Change(Step(t), g) = 0
    BY <1>3, <2>1 DEF Change
  <2> QED
    BY <1>2, <2>2 DEF FlagTypes, directory
<1>5. Does(t, ENOENT)
  BY <1>2, <1>3, <1>4 DEF Does, FlagTypes, directory
<1> QED
  BY <1>1, <1>2, <1>5, CallLeaves DEF Heads

\* Closing gives back one struct file.
LEMMA CloseLeaves ==
    ASSUME ControlTypes, FlagTypes, NEW t, CloseFile(t)
    PROVE  Goes(t) /\ Leaves(t)
<1>0. PICK f : f = Step(t).f
  OBVIOUS
<1>1. PICK op \in {"close", "close_ro"} : At(t, op)
  BY DEF CloseFile
<1>2. Step(t).op = op /\ f \in Files
  BY <1>0, <1>1, StepFormed DEF WellFormed, ControlOps
<1>3. Return(t, OK) /\ CloseOne(f)
  BY <1>0 DEF CloseFile
<1>4. /\ open' = [open EXCEPT ![f] = open[f] - 1] /\ fputs' = fputs \cup {f}
      /\ silly' \in BOOLEAN /\ UNCHANGED <<dir, names>>
  BY <1>3 DEF CloseOne, FlagTypes
<1>5. ASSUME NEW g \in Files
      PROVE  /\ open'[g] = open[g] + Change(Step(t), g) /\ open[g] \in Int
             /\ open'[g] = IF IsClose(Step(t), g) THEN open[g] - 1 ELSE open[g]
  <2>1. ~IsOpen(Step(t), g) /\ (IsClose(Step(t), g) <=> g = f)
    BY <1>0, <1>2 DEF IsOpen, IsClose
  <2>2. Change(Step(t), g) = IF g = f THEN -1 ELSE 0
    BY <2>1 DEF Change
  <2>3. open[g] \in Int /\ (open'[g] = IF g = f THEN open[g] - 1 ELSE open[g])
    BY <1>4 DEF FlagTypes
  <2> QED
    BY <2>1, <2>2, <2>3
<1>6. open' \in [Files -> Int]
  BY <1>2, <1>4 DEF FlagTypes
<1>7. Does(t, OK)
  BY <1>2, <1>4, <1>5, <1>6 DEF Does, FlagTypes
<1> QED
  BY <1>1, <1>3, <1>7, CallLeaves DEF Heads

\* Unlinking and renaming move names and open nothing.
LEMMA NameLeaves ==
    ASSUME ControlTypes, FlagTypes, NEW t, UnlinkFile(t) \/ RenameFile(t)
    PROVE  Goes(t) /\ Leaves(t)
<1>1. CASE UnlinkFile(t)
  <2>0. PICK f, got : f = Step(t).f /\ Return(t, got)
    BY <1>1 DEF UnlinkFile
  <2>1. At(t, "unlink") /\ Step(t).op = "unlink" /\ f \in Files /\ (open[f] = 0 \/ left # 0)
    BY <1>1, <2>0, StepFormed DEF UnlinkFile, WellFormed, ControlOps
  <2>2. IF f \in names THEN DropName(f) ELSE UNCHANGED directory
    BY <1>1, <2>0 DEF UnlinkFile
  <2>3. /\ names' = names \ {f} /\ open' = open /\ dir' = dir
        /\ fputs' \subseteq fputs /\ silly' \in BOOLEAN
    BY <2>2 DEF DropName, directory, FlagTypes
  <2>4. \A g \in Files : Change(Step(t), g) = 0 /\ ~IsClose(Step(t), g) /\ open[g] \in Int
    BY <2>1, QuietChange DEF Quiet, FlagTypes
  <2>5. Does(t, got)
    BY <2>0, <2>1, <2>3, <2>4 DEF Does, FlagTypes
  <2> QED
    BY <2>0, <2>1, <2>5, CallLeaves DEF Heads
<1>2. CASE RenameFile(t)
  <2>0. PICK f, g : f = Step(t).f /\ g = Step(t).g
    OBVIOUS
  <2>1. /\ At(t, "rename") /\ Step(t).op = "rename" /\ Return(t, OK) /\ MoveName(f, g)
        /\ open[f] = 0
    BY <1>2, <2>0 DEF RenameFile, At
  <2>2. f \in Files /\ g \in Files
    BY <2>0, <2>1, StepFormed DEF WellFormed, ControlOps
  <2>3. /\ names' = (names \ {f}) \cup {g} /\ open' = open /\ dir' = dir /\ silly' \in BOOLEAN
        /\ fputs' \subseteq fputs \cup {g}
    BY <2>1 DEF MoveName, FlagTypes
  <2>4. Created(Step(t)) = {g}
    BY <2>0, <2>1 DEF Created
  <2>5. \A h \in Files : Change(Step(t), h) = 0 /\ ~IsClose(Step(t), h) /\ open[h] \in Int
    BY <2>1, QuietChange DEF Quiet, FlagTypes
  <2>6. Does(t, OK)
    BY <2>1, <2>2, <2>3, <2>4, <2>5 DEF Does, FlagTypes
  <2> QED
    BY <2>1, <2>6, CallLeaves DEF Heads
<1> QED
  BY <1>1, <1>2

\* The calls on the contents of files leave the directory alone, but for the
\* delayed fput of xfs_read_range().
LEMMA DataLeaves ==
    ASSUME ControlTypes, FlagTypes, NEW t,
           \/ WriteFile(t) \/ RefuseFile(t) \/ TakeFile(t) \/ StoreFile(t) \/ DirectWrite(t)
           \/ TruncFile(t) \/ AllocFile(t) \/ PunchFile(t) \/ SyncFile(t)
           \/ ReadFile(t) \/ DirectRead(t) \/ AskFile(t) \/ ServerFile(t) \/ CopyFile(t)
    PROVE  Goes(t) /\ Leaves(t)
<1> DEFINE Calm == Quiet \ {"mkdir", "rmdir", "rmdir_settled", "settle", "mknod", "unlink"}
           Silent == \E op \in Calm : \E got : At(t, op) /\ Return(t, got) /\ UNCHANGED directory
<1>1. ASSUME Silent PROVE Goes(t) /\ Leaves(t)
  BY <1>1, QuietStep
<1>2. CASE WriteFile(t)
  <2>1. Silent
    BY <1>2 DEF WriteFile, Quiet
  <2> QED
    BY <1>1, <2>1
<1>3. CASE RefuseFile(t)
  <2>1. Silent
    BY <1>3 DEF RefuseFile, Quiet
  <2> QED
    BY <1>1, <2>1
<1>4. CASE TakeFile(t)
  <2>1. /\ At(t, "take_size") /\ pc' = [pc EXCEPT ![t] = pc[t] + 1]
        /\ UNCHANGED <<suite, stop, failed, left, entered, starved>> /\ UNCHANGED directory
    BY <1>4 DEF TakeFile, Take
  <2>2. GoesOn(t) /\ Step(t).op = "take_size"
    BY <2>1 DEF GoesOn, At, Heads
  <2>3. \A f \in Files : Change(Step(t), f) = 0 /\ open[f] \in Int
    BY <2>2, QuietChange DEF Quiet, FlagTypes
  <2>4. FlagTypes' /\ (Named => Named')
    BY <2>1 DEF FlagTypes, Named, directory
  <2>5. \A f \in Files : Opens(t, f)
    BY <2>1, <2>2, <2>3 DEF Opens, directory
  <2> QED
    BY <2>1, <2>2, <2>4, <2>5 DEF Leaves, Goes, directory
<1>5. CASE StoreFile(t)
  <2>1. Silent
    BY <1>5 DEF StoreFile, Quiet
  <2> QED
    BY <1>1, <2>1
<1>6. CASE DirectWrite(t)
  <2>1. Silent
    BY <1>6 DEF DirectWrite, Quiet
  <2> QED
    BY <1>1, <2>1
<1>7. CASE TruncFile(t)
  <2>1. Silent
    BY <1>7 DEF TruncFile, Quiet
  <2> QED
    BY <1>1, <2>1
<1>8. CASE AllocFile(t)
  <2>1. Silent
    BY <1>8 DEF AllocFile, Quiet
  <2> QED
    BY <1>1, <2>1
<1>9. CASE PunchFile(t)
  <2>1. Silent
    BY <1>9 DEF PunchFile, Quiet
  <2> QED
    BY <1>1, <2>1
<1>10. CASE SyncFile(t)
  <2>1. Silent
    BY <1>10 DEF SyncFile, Quiet
  <2> QED
    BY <1>1, <2>1
<1>11. CASE ReadFile(t)
  <2>0. PICK op \in {"read", "read_range", "mread"} : At(t, op)
    BY <1>11 DEF ReadFile
  <2>1. PICK f, got : f = Step(t).f /\ Return(t, got)
    BY <1>11 DEF ReadFile
  <2>2. Step(t).op = op
    BY <2>0 DEF At
  <2>3. f \in Files
    BY <2>0, <2>1, StepFormed DEF WellFormed, ControlOps
  <2>4. UNCHANGED <<dir, names, open, silly>> /\ fputs' \subseteq fputs \cup {f}
    BY <1>11, <2>1 DEF ReadFile, directory
  <2>5. \A g \in Files : Change(Step(t), g) = 0 /\ ~IsClose(Step(t), g) /\ open[g] \in Int
    BY <2>2, QuietChange DEF Quiet, FlagTypes
  <2>6. Does(t, got)
    BY <2>2, <2>3, <2>4, <2>5 DEF Does, FlagTypes
  <2> QED
    BY <2>0, <2>1, <2>6, CallLeaves DEF Heads
<1>12. CASE DirectRead(t)
  <2>1. Silent
    BY <1>12 DEF DirectRead, Quiet
  <2> QED
    BY <1>1, <2>1
<1>13. CASE AskFile(t)
  <2>1. Silent
    BY <1>13 DEF AskFile, Quiet
  <2> QED
    BY <1>1, <2>1
<1>14. CASE ServerFile(t)
  <2>1. Silent
    BY <1>14 DEF ServerFile, Quiet
  <2> QED
    BY <1>1, <2>1
<1>15. CASE CopyFile(t)
  <2>1. Silent
    BY <1>15 DEF CopyFile, Quiet
  <2> QED
    BY <1>1, <2>1
<1> QED
  BY <1>2, <1>3, <1>4, <1>5, <1>6, <1>7, <1>8, <1>9, <1>10, <1>11, <1>12, <1>13, <1>14, <1>15

\* The calls on the directory.
LEMMA DirLeaves ==
    ASSUME ControlTypes, FlagTypes, NEW t, DirStep(t)
    PROVE  Goes(t) /\ Leaves(t)
<1>1. PICK op \in {"mkdir", "mknod", "rmdir", "rmdir_settled", "settle"} : At(t, op)
  BY DEF DirStep, MakeDir, MakeNode, RemoveDir, RemoveDirSettled, SettleFput
<1>2. PICK got : Return(t, got)
  BY DEF DirStep, MakeDir, MakeNode, RemoveDir, RemoveDirSettled, SettleFput
<1>3. Step(t).op = op
  BY <1>1 DEF At
<1>4. \A f \in Files : Change(Step(t), f) = 0 /\ ~IsClose(Step(t), f) /\ open[f] \in Int
  BY <1>3, QuietChange DEF Quiet, FlagTypes
<1>5. Does(t, got)
  <2>1. CASE MakeDir(t) \/ RemoveDir(t)
    <3>1. dir' \in BOOLEAN /\ UNCHANGED <<names, open, fputs, silly>> /\ op # "rmdir_settled"
      BY <1>3, <2>1 DEF MakeDir, RemoveDir, At, FlagTypes
    <3> QED
      BY <1>1, <1>3, <1>4, <3>1 DEF Does, FlagTypes
  <2>2. CASE MakeNode(t)
    <3>0. PICK f : f = Step(t).f
      OBVIOUS
    <3>1. names' = names \cup {f} /\ UNCHANGED <<dir, open, fputs, silly>> /\ op = "mknod"
      BY <1>3, <2>2, <3>0 DEF MakeNode, At
    <3>2. f \in Files
      BY <1>1, <3>0, <3>1, StepFormed DEF WellFormed, ControlOps
    <3>3. Created(Step(t)) = {f}
      BY <1>3, <3>0, <3>1 DEF Created
    <3> QED
      BY <1>3, <1>4, <3>1, <3>2, <3>3 DEF Does, FlagTypes
  <2>3. CASE RemoveDirSettled(t)
    <3>1. /\ dir' = (dir /\ names \cup Pinned # {}) /\ fputs' = {} /\ silly' = FALSE
          /\ UNCHANGED <<names, open>> /\ op = "rmdir_settled"
      BY <1>3, <2>3 DEF RemoveDirSettled, At
    <3>2. dir' \in BOOLEAN /\ silly' \in BOOLEAN /\ fputs' \subseteq Files
      BY <3>1
    <3> QED
      BY <1>3, <1>4, <3>1, <3>2 DEF Does, FlagTypes
  <2>4. CASE SettleFput(t)
    <3>1. fputs' = {} /\ silly' = FALSE /\ UNCHANGED <<dir, names, open>> /\ op = "settle"
      BY <1>3, <2>4 DEF SettleFput, At
    <3>2. dir' \in BOOLEAN /\ silly' \in BOOLEAN /\ fputs' \subseteq Files
      BY <3>1 DEF FlagTypes
    <3> QED
      BY <1>3, <1>4, <3>1, <3>2 DEF Does, FlagTypes
  <2> QED
    BY <2>1, <2>2, <2>3, <2>4 DEF DirStep
<1> QED
  BY <1>1, <1>2, <1>5, CallLeaves DEF Heads

\* Starting, joining, looping, stopping and leaving the case leave the
\* directory alone.
LEMMA ControlLeaves ==
    ASSUME ControlTypes, FlagTypes, NEW t \in Threads, ControlStep(t)
    PROVE  Goes(t) /\ Leaves(t)
<1> USE DEF Heads
<1>1. /\ UNCHANGED <<failed, directory>>
      /\ stop' \in BOOLEAN /\ starved' \in BOOLEAN /\ entered' \subseteq Threads
  BY DEF ControlStep, Abort, StartThread, JoinThread, RaiseStop, LoopHead, LoopBack,
         CheckEntered, Jump, FlagTypes
<1>2. FlagTypes'
  BY <1>1 DEF FlagTypes, directory
<1>3. CASE Abort(t)
  <2>1. Aborts(t) /\ left = 0 /\ left' # left
    BY <1>3 DEF Abort, Aborts
  <2>2. Named' /\ \A f \in Files : Opens(t, f)
    BY <1>1, <2>1 DEF Named, Opens, directory
  <2> QED
    BY <1>1, <1>2, <2>1, <2>2 DEF Leaves, Goes, directory
<1>4. CASE ~Abort(t)
  <2> USE DEF At, GoesOn
  <2>1. GoesOn(t) /\ Step(t).op \in Heads \cup {"back", "start", "join", "stop", "entered"}
    <3>1. CASE StartThread(t)
      BY <3>1 DEF StartThread
    <3>2. CASE JoinThread(t)
      BY <3>2 DEF JoinThread, Jump
    <3>3. CASE RaiseStop(t)
      BY <3>3 DEF RaiseStop
    <3>4. CASE LoopHead(t)
      BY <3>4 DEF LoopHead, Jump
    <3>5. CASE LoopBack(t)
      BY <3>5 DEF LoopBack, Jump
    <3>6. CASE CheckEntered(t)
      BY <3>6 DEF CheckEntered, Jump
    <3> QED
      BY <1>4, <3>1, <3>2, <3>3, <3>4, <3>5, <3>6 DEF ControlStep
  <2>2. \A f \in Files : Change(Step(t), f) = 0 /\ open[f] \in Int
    BY <2>1, QuietChange DEF ControlOps, FlagTypes
  <2>3. (Named => Named') /\ \A f \in Files : Opens(t, f)
    BY <1>1, <2>1, <2>2 DEF Named, Opens, directory
  <2> QED
    BY <1>1, <1>2, <2>1, <2>3 DEF Leaves, Goes, directory
<1> QED
  BY <1>3, <1>4

\* A step of a thread goes on in its code, or leaves it, and does to the
\* directory what its call does.
LEMMA ThreadLeaves ==
    ASSUME ControlTypes, FlagTypes, NEW t \in Threads, ThreadStep(t)
    PROVE  Goes(t) /\ Leaves(t)
BY OpenLeaves, MissingLeaves, CloseLeaves, NameLeaves, DataLeaves, DirLeaves, ControlLeaves
DEF ThreadStep, FileStep

-------------------------------------------------------------------------------
(* Where a step of the code c can go from k. *)
Leads(c, k, to) ==
    \/ c[k].op \notin Heads \cup {"back"} /\ to = k + 1
    \/ c[k].op \in Heads /\ (to = k + 1 \/ to = k + c[k].at)
    \/ c[k].op = "back" /\ to = k - c[k].at
Landmarks == {"start", "join", "unlink"}

\* Structured code stays inside, goes past no start, join or unlink and not
\* back behind one, and gets to its end through its last step unless that
\* closes a loop.
LEMMA Landmark ==
    ASSUME NEW c, Structured(c), NEW k \in 1 .. Len(c), NEW to, Leads(c, k, to),
           c[k].op \in Heads \cup {"back"} => c[k].at \in Nat
    PROVE  /\ to \in 1 .. Len(c) + 1
           /\ \A j \in 1 .. Len(c) : c[j].op \in Landmarks /\ k < j => to <= j
           /\ \A j \in 1 .. Len(c) : c[j].op \in Landmarks /\ j < k => j < to
           /\ c[Len(c)].op = "rmdir_settled" /\ to = Len(c) + 1 => k = Len(c)
<1>0. Len(c) \in Nat /\ k \in Nat
  BY DEF Structured
<1>1. CASE to = k + 1
  BY <1>0, <1>1
<1>2. CASE c[k].op \in Heads /\ to = k + c[k].at
  <2>1. /\ c[k].at > 1 /\ LastOf(c, k) <= Len(c) /\ c[LastOf(c, k)].op = "back"
        /\ \A i \in k .. LastOf(c, k) : c[i].op \notin Landmarks
    BY <1>2 DEF Structured, Landmarks
  <2>2. LastOf(c, k) = to - 1 /\ to \in Nat
    BY <1>0, <1>2 DEF LastOf
  <2>3. to \in 1 .. Len(c) + 1 /\ k < to
    BY <1>0, <1>2, <2>1, <2>2
  <2>4. ASSUME NEW j \in 1 .. Len(c), c[j].op \in Landmarks, k < j PROVE to <= j
    <3>1. j \notin k .. to - 1
      BY <2>1, <2>2, <2>4
    <3> QED
      BY <1>0, <2>2, <2>4, <3>1
  <2>5. c[Len(c)].op = "rmdir_settled" => to # Len(c) + 1
    <3>1. to = Len(c) + 1 => LastOf(c, k) = Len(c)
      BY <1>0, <2>2
    <3> QED
      BY <2>1, <3>1
  <2>6. \A j \in 1 .. Len(c) : j < k => j < to
    BY <1>0, <2>3
  <2> QED
    BY <2>3, <2>4, <2>5, <2>6
<1>3. CASE c[k].op = "back" /\ to = k - c[k].at
  <2>1. c[k].at < k /\ c[to].op \in Heads /\ LastOf(c, to) = k
    BY <1>3 DEF Structured
  <2>2. to \in 1 .. k
    BY <1>0, <1>3, <2>1
  <2>3. \A i \in to .. k : c[i].op \notin Landmarks
    BY <1>0, <2>1, <2>2 DEF Structured, Landmarks
  <2>4. ASSUME NEW j \in 1 .. Len(c), c[j].op \in Landmarks, j < k PROVE j < to
    <3>1. j \notin to .. k
      BY <2>3, <2>4
    <3> QED
      BY <1>0, <2>2, <2>4, <3>1
  <2>5. to # Len(c) + 1 /\ to \in 1 .. Len(c) + 1 /\ \A j \in 1 .. Len(c) : k < j => to <= j
    BY <1>0, <2>2
  <2> QED
    BY <2>4, <2>5
<1> QED
  BY <1>1, <1>2, <1>3 DEF Leads

\* Where it goes, the thread has open what the step says.
LEMMA HeldLeads ==
    ASSUME NEW c, Structured(c), Closing(c), NEW f \in Files,
           NEW k \in 1 .. Len(c), NEW to, Leads(c, k, to),
           c[k].op \in Heads \cup {"back"} => c[k].at \in Nat
    PROVE  Held(c, f, k) \in Int /\ Held(c, f, to) = Held(c, f, k) + Change(c[k], f)
<1>0. Len(c) \in Nat /\ k \in Nat \ {0}
  BY DEF Structured
<1>1. CASE to = k + 1
  BY <1>0, <1>1, HeldNext
<1>2. CASE c[k].op \in Heads /\ to = k + c[k].at
  <2>0. PICK l : l = LastOf(c, k)
    OBVIOUS
  <2>1. c[k].at > 1 /\ l <= Len(c) /\ c[l].op = "back" /\ Held(c, f, l) = Held(c, f, k)
    BY <1>2, <2>0 DEF Structured, Closing
  <2>2. l \in Nat \ {0} /\ to = l + 1
    BY <1>0, <1>2, <2>0, <2>1 DEF LastOf
  <2>3. Held(c, f, l) \in Int /\ Held(c, f, to) = Held(c, f, l) + Change(c[l], f)
    BY <2>2, HeldNext
  <2>4. Change(c[l], f) = 0 /\ Change(c[k], f) = 0
    BY <1>2, <2>1, QuietChange DEF ControlOps, Heads
  <2> QED
    BY <2>1, <2>3, <2>4
<1>3. CASE c[k].op = "back" /\ to = k - c[k].at
  <2>1. c[k].at < k /\ c[to].op \in Heads /\ LastOf(c, to) = k
    BY <1>3 DEF Structured
  <2>2. to \in 1 .. Len(c)
    BY <1>0, <1>3, <2>1
  <2>3. Held(c, f, k) = Held(c, f, to)
    BY <2>1, <2>2 DEF Closing
  <2>4. Change(c[k], f) = 0 /\ Held(c, f, k) \in Int
    BY <1>0, <1>3, QuietChange, HeldNext DEF ControlOps
  <2> QED
    BY <2>3, <2>4
<1> QED
  BY <1>1, <1>2, <1>3 DEF Leads

\* Going on leads a thread along its code and starts at most one thread, if the
\* case makes the step.
LEMMA GoesLeads ==
    ASSUME ControlTypes, pc \in [Threads -> Nat], NEW t \in Threads, GoesOn(t)
    PROVE  /\ \A s : Code(s)' = Code(s) /\ left' = left
           /\ pc[t] \in 1 .. Len(Code(t)) /\ Step(t) = Code(t)[pc[t]]
           /\ Step(t).op \in Heads \cup {"back"} => Step(t).at \in Nat
           /\ Leads(Code(t), pc[t], pc'[t])
           /\ Step(t).op # "start" => \A s \in Threads \ {t} : pc'[s] = pc[s]
           /\ Step(t).op = "start" =>
                /\ t = 1 /\ Step(t).n \in Threads \ {1} /\ pc'[1] = pc[1] + 1 /\ pc'[Step(t).n] = 1
                /\ \A s \in Threads \ {1, Step(t).n} : pc'[s] = pc[s]
           /\ pc' \in [Threads -> Nat]
<1>1. \A s : Code(s)' = Code(s) /\ left' = left
  BY DEF GoesOn, Code
<1>2. pc[t] \in 1 .. Len(Code(t)) /\ Step(t) = Code(t)[pc[t]]
  BY DEF GoesOn, Step
<1>3. At(t, Step(t).op)
  BY <1>2 DEF At
<1>4. CASE Step(t).op = "start"
  <2>0. PICK n : n = Step(t).n
    OBVIOUS
  <2>1. t = 1 /\ n \in Threads \ {1}
    BY <1>2, <1>4, <2>0, StartShape
  <2>2. pc' = [pc EXCEPT ![1] = pc[1] + 1, ![n] = 1]
    BY <1>4, <2>0, <2>1 DEF GoesOn, Heads
  <2>3. /\ pc'[1] = pc[1] + 1 /\ pc'[n] = 1 /\ pc' \in [Threads -> Nat]
        /\ \A s \in Threads \ {1, n} : pc'[s] = pc[s]
    BY <2>1, <2>2
  <2>4. Leads(Code(t), pc[t], pc'[t])
    BY <1>2, <1>4, <2>1, <2>3 DEF Leads, Heads
  <2> QED
    BY <1>1, <1>2, <1>4, <2>0, <2>1, <2>3, <2>4 DEF Heads
<1>5. CASE Step(t).op # "start"
  <2>1. Step(t).op \in Heads \cup {"back"} => Step(t).at \in Nat
    BY <1>3, StepFormed DEF WellFormed, Heads
  <2>2. \E to : pc' = [pc EXCEPT ![t] = to] /\ Leads(Code(t), pc[t], to)
    BY <1>2, <1>5 DEF GoesOn, Leads
  <2>3. PICK to : pc' = [pc EXCEPT ![t] = to] /\ Leads(Code(t), pc[t], to)
    BY <2>2
  <2>4. Structured(Code(t))
    BY CodeShape
  <2>5. to \in 1 .. Len(Code(t)) + 1
    BY <1>2, <2>1, <2>3, <2>4, Landmark
  <2>6. to \in Nat
    BY <2>4, <2>5 DEF Structured
  <2>7. pc'[t] = to /\ pc' \in [Threads -> Nat] /\ \A s \in Threads \ {t} : pc'[s] = pc[s]
    BY <2>3, <2>6
  <2> QED
    BY <1>1, <1>2, <1>5, <2>1, <2>3, <2>7
<1> QED
  BY <1>4, <1>5


\* Breaking off and leaving the case move one thread to its end, or to its
\* deferred actions.
LEMMA LeavesCode ==
    ASSUME ControlTypes, pc \in [Threads -> Nat], NEW t \in Threads, Breaks(t) \/ Aborts(t)
    PROVE  /\ \A s : Code(s)' = Code(s)
           /\ pc[t] \in 1 .. Len(Code(t)) /\ Step(t) = Code(t)[pc[t]]
           /\ \A s \in Threads \ {t} : pc'[s] = pc[s]
           /\ pc'[t] \in 1 .. Len(Code(t)) + 1 /\ pc' \in [Threads -> Nat]
           /\ Breaks(t) => t # 1 /\ pc'[t] = Len(Code(t)) + 1 /\ left' = left
           /\ Aborts(t) => t = 1 /\ pc'[1] = Deferred(Code(1)) /\ left' = pc[1]
                           /\ Code(1)[pc[1]].fatal
<1>1. \A s : Code(s)' = Code(s)
  BY DEF Breaks, Aborts, Code
<1>2. pc[t] \in 1 .. Len(Code(t)) /\ Step(t) = Code(t)[pc[t]]
  BY DEF Breaks, Aborts, Step
<1>3. Len(Code(t)) \in Nat
  BY CodeShape DEF Structured
<1>4. CASE Breaks(t)
  <2>1. /\ pc'[t] = Len(Code(t)) + 1 /\ pc' \in [Threads -> Nat] /\ t # 1 /\ left' = left
        /\ \A s \in Threads \ {t} : pc'[s] = pc[s]
    BY <1>3, <1>4 DEF Breaks
  <2>2. pc'[t] \in 1 .. Len(Code(t)) + 1
    BY <1>3, <2>1
  <2> QED
    BY <1>1, <1>2, <2>1, <2>2 DEF Aborts
<1>5. CASE Aborts(t)
  <2>1. Deferred(Code(1)) \in 1 .. Len(Code(1)) + 1 /\ t = 1
    BY <1>5, DeferredShape DEF Aborts
  <2>2. Deferred(Code(1)) \in Nat
    BY <1>3, <2>1
  <2>3. /\ pc'[1] = Deferred(Code(1)) /\ pc' \in [Threads -> Nat]
        /\ left' = pc[1] /\ Code(1)[pc[1]].fatal
        /\ \A s \in Threads \ {1} : pc'[s] = pc[s]
    BY <1>2, <1>5, <2>1, <2>2 DEF Aborts
  <2> QED
    BY <1>1, <1>2, <2>1, <2>3 DEF Breaks
<1> QED
  BY <1>4, <1>5

\* A case that has been left is among its deferred actions: it starts no
\* thread, and is not left once more.
LEMMA Aftermath ==
    ASSUME ControlTypes, pc \in [Threads -> Nat], LeftSound, Goes(1), left # 0
    PROVE  ~Aborts(1) /\ Step(1).op \in DeferredOps
<1>0. PICK c, k, d : c = Code(1) /\ k = pc[1] /\ d = Deferred(Code(1))
  OBVIOUS
<1>1. k \in 1 .. Len(c) /\ Step(1) = c[k] /\ k >= d
  BY <1>0 DEF Goes, GoesOn, Breaks, Aborts, Step, LeftSound
<1>2. d \in 1 .. Len(c) + 1 /\ \A i \in d .. Len(c) : c[i].op \in DeferredOps /\ ~c[i].fatal
  BY <1>0, DeferredShape
<1>3. Len(c) \in Nat
  BY <1>0, CodeShape DEF Structured
<1>4. k \in d .. Len(c)
  BY <1>1, <1>2, <1>3
<1> QED
  BY <1>1, <1>2, <1>4 DEF Aborts

\* Of the case: what lies ahead stays ahead until the case gets there, what
\* lies behind stays behind, and the last step is not skipped.
LEMMA CaseGoes ==
    ASSUME ControlTypes, pc \in [Threads -> Nat], GoesOn(1)
    PROVE  /\ pc'[1] \in 1 .. Len(Code(1)) + 1
           /\ \A j \in 1 .. Len(Code(1)) : Code(1)[j].op \in Landmarks /\ pc[1] < j => pc'[1] <= j
           /\ \A j \in 1 .. Len(Code(1)) : Code(1)[j].op \in Landmarks /\ j < pc[1] => j < pc'[1]
           /\ Code(1)[Len(Code(1))].op = "rmdir_settled" /\ pc'[1] = Len(Code(1)) + 1
                => pc[1] = Len(Code(1))
<1>0. PICK c, k, to : c = Code(1) /\ k = pc[1] /\ to = pc'[1]
  OBVIOUS
<1>1. 1 \in Threads
  BY DEF Threads
<1>2. /\ k \in 1 .. Len(c) /\ Leads(c, k, to) /\ Structured(c)
      /\ c[k].op \in Heads \cup {"back"} => c[k].at \in Nat
  BY <1>0, <1>1, GoesLeads, CodeShape
<1>3. /\ to \in 1 .. Len(c) + 1
      /\ \A j \in 1 .. Len(c) : c[j].op \in Landmarks /\ k < j => to <= j
      /\ \A j \in 1 .. Len(c) : c[j].op \in Landmarks /\ j < k => j < to
      /\ c[Len(c)].op = "rmdir_settled" /\ to = Len(c) + 1 => k = Len(c)
  BY <1>2, Landmark
<1> QED
  BY <1>0, <1>3

\* Every step keeps the programs, moves a thread that is in its code, and no
\* other unless it starts it.
LEMMA GoesAny ==
    ASSUME ControlTypes, pc \in [Threads -> Nat], NEW t \in Threads, Goes(t)
    PROVE  /\ \A s : Code(s)' = Code(s)
           /\ pc[t] \in 1 .. Len(Code(t)) /\ Step(t) = Code(t)[pc[t]] /\ Len(Code(t)) \in Nat
           /\ pc[t] # 0 /\ ~Ended(t)
           /\ t # 1 => pc'[1] = pc[1]
           /\ t # 1 => left' = left /\ ~Aborts(t)
           /\ \A s \in Threads \ {t} : pc'[s] = pc[s]
                \/ (t = 1 /\ GoesOn(1) /\ Step(1).op = "start" /\ Step(1).n = s /\ s # 1 /\ pc'[s] = 1)
           /\ pc' \in [Threads -> Nat]
<1>1. \A s : Code(s)' = Code(s)
  BY GoesLeads, LeavesCode DEF Goes
<1>2. pc[t] \in 1 .. Len(Code(t)) /\ Step(t) = Code(t)[pc[t]] /\ pc' \in [Threads -> Nat]
  BY GoesLeads, LeavesCode DEF Goes
<1>3. Len(Code(t)) \in Nat
  BY CodeShape DEF Structured
<1>4. pc[t] # 0 /\ ~Ended(t)
  BY <1>2, <1>3 DEF Ended
<1>5. \A s \in Threads \ {t} : pc'[s] = pc[s]
        \/ (t = 1 /\ GoesOn(1) /\ Step(1).op = "start" /\ Step(1).n = s /\ s # 1 /\ pc'[s] = 1)
  BY GoesLeads, LeavesCode DEF Goes
<1>6. t # 1 => left' = left /\ ~Aborts(t)
  BY DEF Goes, GoesOn, Breaks, Aborts
<1>7. 1 \in Threads
  BY DEF Threads
<1> QED
  BY <1>1, <1>2, <1>3, <1>4, <1>5, <1>6, <1>7

\* A thread stays unjoined, and becomes so by an abort alone.
LEMMA SameUnjoined ==
    ASSUME NEW t, left' = left, Code(1)' = Code(1)
    PROVE  Unjoined(t)' <=> Unjoined(t)
BY DEF Unjoined, Waits

\* Threads stay in their code.
LEMMA InCodeStep ==
    ASSUME ControlTypes, pc \in [Threads -> Nat], InCode, NEW t \in Threads, Goes(t)
    PROVE  InCode'
<1>1. \A s : Len(Code(s)) \in Nat
  BY CodeShape DEF Structured
<1>2. pc'[t] \in 1 .. Len(Code(t)) + 1
  <2>0. PICK c, k, to : c = Code(t) /\ k = pc[t] /\ to = pc'[t]
    OBVIOUS
  <2>1. CASE GoesOn(t)
    <3>1. /\ k \in 1 .. Len(c) /\ Leads(c, k, to) /\ Structured(c)
          /\ c[k].op \in Heads \cup {"back"} => c[k].at \in Nat
      BY <2>0, <2>1, GoesLeads, CodeShape
    <3>2. to \in 1 .. Len(c) + 1
      BY <3>1, Landmark
    <3> QED
      BY <2>0, <3>2
  <2>2. CASE Breaks(t) \/ Aborts(t)
    BY <2>2, LeavesCode
  <2> QED
    BY <2>1, <2>2 DEF Goes
<1>3. ASSUME NEW s \in Threads PROVE pc'[s] <= Len(Code(s)) + 1 /\ (s = 1 => pc'[s] >= 1)
  <2>1. CASE s = t
    BY <1>1, <1>2, <2>1
  <2>2. CASE s # t /\ pc'[s] = pc[s]
    BY <2>2 DEF InCode
  <2>3. CASE s # t /\ pc'[s] # pc[s]
    <3>1. s # 1 /\ pc'[s] = 1
      BY <2>3, GoesAny
    <3>2. Len(Code(s)) \in Nat
      BY <1>1
    <3> QED
      BY <3>1, <3>2
  <2> QED
    BY <2>1, <2>2, <2>3
<1>4. \A s : Code(s)' = Code(s)
  BY GoesAny
<1>5. 1 \in Threads
  BY DEF Threads
<1> QED
  BY <1>3, <1>4, <1>5 DEF InCode

\* A case that has been left goes through its deferred actions.
LEMMA LeftStep ==
    ASSUME ControlTypes, pc \in [Threads -> Nat], LeftSound, NEW t \in Threads, Goes(t)
    PROVE  LeftSound'
<1>0. PICK c, d : c = Code(1) /\ d = Deferred(Code(1))
  OBVIOUS
<1>1. Code(1)' = c
  BY <1>0, GoesAny
<1> SUFFICES ASSUME left' # 0
             PROVE  left' \in 1 .. Len(c) /\ c[left'].fatal /\ pc'[1] >= d
  BY <1>0, <1>1 DEF LeftSound
<1>2. d \in Nat
  BY <1>0, DeferredShape, CodeShape DEF Structured
<1>3. CASE Aborts(t)
  BY <1>0, <1>2, <1>3, LeavesCode
<1>4. CASE ~Aborts(t)
  <2>1. left' = left
    BY <1>4 DEF Goes, GoesOn, Breaks
  <2>2. left \in 1 .. Len(c) /\ c[left].fatal /\ pc[1] >= d
    BY <1>0, <2>1 DEF LeftSound
  <2>3. CASE t # 1
    BY <2>1, <2>2, <2>3, GoesAny
  <2>4. CASE t = 1
    <3>1. GoesOn(1) /\ Step(1).op \in DeferredOps
      BY <1>4, <2>1, <2>4, Aftermath DEF Goes, Breaks
    <3>2. pc'[1] = pc[1] + 1
      BY <2>4, <3>1, GoesLeads DEF Leads, DeferredOps, Heads
    <3>3. pc[1] \in Nat
      BY <2>4
    <3> QED
      BY <1>2, <2>1, <2>2, <3>2, <3>3
  <2> QED
    BY <2>3, <2>4
<1> QED
  BY <1>3, <1>4

\* A kthread that runs stays one the case has to wait for, until an assertion
\* leaves the case.
LEMMA AwaitedStep ==
    ASSUME ControlTypes, pc \in [Threads -> Nat], LeftSound, Awaited, StartedOnce,
           NEW t \in Threads, Goes(t)
    PROVE  Awaited'
<1>0. PICK c : c = Code(1)
  OBVIOUS
<1>1. \A s : Code(s)' = Code(s)
  BY GoesAny
<1> SUFFICES ASSUME NEW s \in Threads \ {1}
             PROVE  \/ pc'[s] = 0 \/ pc'[s] > Len(Code(s)) \/ Unjoined(s)'
                    \/ left' = 0 /\ \E j \in Waits(c, s) : pc'[1] <= j
  BY <1>0, <1>1 DEF Awaited, Ended
<1>2. \/ pc[s] = 0 \/ pc[s] > Len(Code(s)) \/ Unjoined(s)
      \/ left = 0 /\ \E j \in Waits(c, s) : pc[1] <= j
  BY <1>0 DEF Awaited, Ended
<1>3. \A j \in Waits(c, s) : j \in 1 .. Len(c) /\ c[j].op = "join" /\ c[j].n = s
  BY DEF Waits
<1>4. s = t => pc[s] # 0 /\ ~(pc[s] > Len(Code(s)))
  BY GoesAny DEF Ended
<1>5. CASE Aborts(t)
  <2>1. /\ t = 1 /\ left' = pc[1] /\ pc'[s] = pc[s] /\ left = 0
        /\ pc[1] \in 1 .. Len(c)
    BY <1>0, <1>5, LeavesCode, Aftermath DEF Goes
  <2>2. CASE left = 0 /\ pc[s] # 0 /\ \E j \in Waits(c, s) : pc[1] <= j
    <3>1. PICK k \in 1 .. Len(c) : c[k].op = "start" /\ c[k].n = s /\ k < pc[1]
      BY <1>0, <2>1, <2>2 DEF StartedOnce, Reached
    <3>2. PICK i : Waits(c, s) = {i}
      BY <1>0, <3>1, StartShape
    <3>3. \A j \in Waits(c, s) : pc[1] <= j
      BY <2>2, <3>2
    <3>4. k \in 1 .. pc[1] - 1 /\ pc[1] # 0
      BY <2>1, <3>1
    <3>5. Unjoined(s)'
      BY <1>0, <1>1, <2>1, <3>1, <3>3, <3>4 DEF Unjoined
    <3> QED
      BY <3>5
  <2> QED
    BY <1>2, <2>1, <2>2 DEF Unjoined
<1>6. CASE Breaks(t)
  <2>1. /\ t # 1 /\ pc'[t] = Len(Code(t)) + 1 /\ left' = left /\ pc'[1] = pc[1]
        /\ Len(Code(t)) \in Nat
        /\ s # t => pc'[s] = pc[s]
    BY <1>6, LeavesCode, GoesAny
  <2>2. Unjoined(s)' <=> Unjoined(s)
    BY <1>1, <2>1, SameUnjoined
  <2>3. s = t => pc'[s] > Len(Code(s))
    BY <2>1
  <2> QED
    BY <1>2, <2>1, <2>2, <2>3
<1>7. CASE GoesOn(t)
  <2>0. left' = left /\ (Unjoined(s)' <=> Unjoined(s))
    BY <1>1, <1>7, GoesLeads, SameUnjoined
  <2>1. CASE left # 0
    <3>1. s # t => pc'[s] = pc[s]
      BY <1>7, <2>1, GoesLeads, Aftermath DEF Goes, DeferredOps
    <3> QED
      BY <1>2, <1>4, <2>0, <2>1, <3>1
  <2>2. CASE left = 0 /\ t = 1 /\ Step(1).op = "start" /\ Step(1).n = s
    <3>1. pc[1] \in 1 .. Len(c) /\ Step(1) = c[pc[1]] /\ pc'[1] = pc[1] + 1
      BY <1>0, <1>7, <2>2, GoesLeads
    <3>2. \E j \in Waits(c, s) : pc[1] < j
      BY <1>0, <2>2, <3>1, StartShape
    <3>3. Len(c) \in Nat
      BY <1>0, CodeShape DEF Structured
    <3>4. \A j \in 1 .. Len(c) : pc[1] < j => pc[1] + 1 <= j
      BY <3>1, <3>3
    <3> QED
      BY <1>3, <2>0, <2>2, <3>1, <3>2, <3>4
  <2>3. CASE left = 0 /\ t = 1 /\ ~(Step(1).op = "start" /\ Step(1).n = s)
    <3>1. pc'[s] = pc[s]
      BY <1>7, <2>3, GoesLeads
    <3>2. ASSUME NEW j \in Waits(c, s), pc[1] <= j, ~(pc'[1] <= j) PROVE pc[s] > Len(Code(s))
      <4>1. j \in 1 .. Len(c) /\ c[j].op \in Landmarks
        BY <1>3 DEF Landmarks
      <4>2. ~(pc[1] < j)
        BY <1>0, <1>7, <2>3, <3>2, <4>1, CaseGoes
      <4>3. pc[1] = j
        <5>1. pc[1] \in Nat /\ j \in Int
          BY <4>1 DEF Threads
        <5> QED
          BY <3>2, <4>2, <5>1
      <4>4. Step(1).op = "join" /\ Step(1).n = s
        BY <1>0, <1>3, <4>3 DEF Step
      <4> QED
        BY <1>7, <2>3, <4>4 DEF GoesOn, Ended, Heads
    <3> QED
      BY <1>2, <2>0, <2>3, <3>1, <3>2 DEF Unjoined
  <2>4. CASE left = 0 /\ t # 1
    <3>1. pc'[1] = pc[1] /\ (s # t => pc'[s] = pc[s])
      BY <2>4, GoesAny
    <3> QED
      BY <1>2, <1>4, <2>0, <2>4, <3>1 DEF Unjoined
  <2> QED
    BY <2>1, <2>2, <2>3, <2>4
<1> QED
  BY <1>5, <1>6, <1>7 DEF Goes

\* The start of a thread that has run stays behind.
LEMMA StartedStep ==
    ASSUME ControlTypes, pc \in [Threads -> Nat], LeftSound, StartedOnce, NEW t \in Threads, Goes(t)
    PROVE  StartedOnce'
<1>0. PICK c : c = Code(1)
  OBVIOUS
<1>1. \A s : Code(s)' = Code(s)
  BY GoesAny
<1> SUFFICES ASSUME NEW s \in Threads \ {1}, pc'[s] # 0
             PROVE  \E k \in 1 .. Len(c) : c[k].op = "start" /\ c[k].n = s /\ k < Reached'
  BY <1>0, <1>1 DEF StartedOnce
<1>2. pc[s] # 0 => \E k \in 1 .. Len(c) : c[k].op = "start" /\ c[k].n = s /\ k < Reached
  BY <1>0 DEF StartedOnce
<1>3. CASE t = 1 /\ GoesOn(1) /\ Step(1).op = "start" /\ Step(1).n = s
  <2>1. pc[1] \in 1 .. Len(c) /\ Step(1) = c[pc[1]] /\ pc'[1] = pc[1] + 1 /\ left' = left
    BY <1>0, <1>3, GoesLeads
  <2>2. left = 0
    BY <1>3, Aftermath DEF Goes, DeferredOps
  <2>3. pc[1] < Reached'
    BY <2>1, <2>2 DEF Reached
  <2> QED
    BY <1>3, <2>1, <2>3
<1>4. CASE ~(t = 1 /\ GoesOn(1) /\ Step(1).op = "start" /\ Step(1).n = s)
  <2>1. pc[s] # 0
    BY <1>4, GoesAny
  <2>2. PICK k \in 1 .. Len(c) : c[k].op = "start" /\ c[k].n = s /\ k < Reached
    BY <1>2, <2>1
  <2>3. k < Reached'
    <3>1. CASE t # 1
      BY <2>2, <3>1, GoesAny DEF Reached
    <3>2. CASE t = 1 /\ left # 0
      <4>1. left' = left
        BY <3>2, Aftermath DEF Goes, GoesOn, Breaks
      <4> QED
        BY <2>2, <3>2, <4>1 DEF Reached
    <3>3. CASE Aborts(t) /\ left = 0
      <4>1. left' = pc[1] /\ pc[1] \in 1 .. Len(c) /\ t = 1
        BY <1>0, <3>3, LeavesCode
      <4>2. left' # 0
        BY <4>1
      <4> QED
        BY <2>2, <3>3, <4>1, <4>2 DEF Reached
    <3>4. CASE t = 1 /\ GoesOn(1) /\ left = 0
      <4>1. left' = left /\ k < pc[1]
        BY <2>2, <3>4, GoesLeads DEF Reached
      <4>2. k < pc'[1]
        BY <1>0, <2>2, <3>4, <4>1, CaseGoes DEF Landmarks
      <4> QED
        BY <3>4, <4>1, <4>2 DEF Reached
    <3> QED
      BY <3>1, <3>2, <3>3, <3>4 DEF Goes, Breaks
  <2> QED
    BY <2>2, <2>3
<1> QED
  BY <1>3, <1>4

\* A kthread that takes a step and is not kept from it is awaited: the case is
\* not at its end.
LEMMA RunsAwaited ==
    ASSUME ControlTypes, pc \in [Threads -> Nat], Awaited, NEW t \in Threads \ {1}, Goes(t)
    PROVE  Unjoined(t) \/ (left = 0 /\ \E j \in Waits(Code(1), t) : pc[1] <= j)
<1>1. pc[t] # 0 /\ ~Ended(t)
  BY GoesAny
<1> QED
  BY <1>1 DEF Awaited

\* The removal of every name stays ahead until it is made.
LEMMA RemovableStep ==
    ASSUME ControlTypes, pc \in [Threads -> Nat], LeftSound, Awaited, Removable, NEW t \in Threads,
           Goes(t), Leaves(t)
    PROVE  Removable'
<1>0. PICK c, d : c = Code(1) /\ d = Deferred(Code(1))
  OBVIOUS
<1>1. \A s : Code(s)' = Code(s)
  BY GoesAny
<1> SUFFICES ASSUME Settles(c), NoStray', NEW f \in names'
             PROVE  \E j \in Removals(c, f) : pc'[1] <= j /\ (Asserts(c) => d <= j)
  BY <1>0, <1>1 DEF Removable, Ahead
<1>2. \A j \in Removals(c, f) : j \in 1 .. Len(c) /\ c[j].op = "unlink" /\ c[j].f = f
  BY DEF Removals
<1>3. f \in names \/ f \in Created(Step(t))
  BY DEF Leaves
<1>4. NoStray
  <2>1. CASE left' = left
    BY <1>1, <2>1, SameUnjoined DEF NoStray
  <2>2. CASE left' # left
    <3>1. Aborts(t)
      BY <2>2 DEF Goes, GoesOn, Breaks
    <3>2. left = 0
      BY <3>1, Aftermath, LeavesCode DEF Goes
    <3> QED
      BY <3>2 DEF NoStray, Unjoined
  <2> QED
    BY <2>1, <2>2
<1>5. f \in names => \E j \in Removals(c, f) : pc[1] <= j /\ (Asserts(c) => d <= j)
  BY <1>0, <1>4 DEF Removable, Ahead
<1>6. /\ pc[t] \in 1 .. Len(Code(t)) /\ Step(t) = Code(t)[pc[t]]
      /\ pc[1] \in Nat /\ 1 \in Threads
  <2>1. 1 \in Threads
    BY DEF Threads
  <2>2. pc[t] \in 1 .. Len(Code(t)) /\ Step(t) = Code(t)[pc[t]]
    BY GoesAny
  <2> QED
    BY <2>1, <2>2
<1>7. CASE Aborts(t)
  <2>1. t = 1 /\ pc'[1] = d /\ c[pc[1]].fatal
    BY <1>0, <1>7, LeavesCode
  <2>2. Asserts(c)
    BY <1>0, <1>6, <2>1 DEF Asserts
  <2>3. f \in Created(Step(t)) => \E j \in Removals(c, f) : d <= j
    BY <1>0, <1>6, <2>1, <2>2, RemovalShape
  <2> QED
    BY <1>3, <1>5, <2>1, <2>2, <2>3
<1>8. CASE t = 1 /\ GoesOn(1)
  <2>0. left' = left
    BY <1>8, GoesLeads
  <2>1. ASSUME NEW j \in Removals(c, f), pc[1] < j PROVE pc'[1] <= j
    BY <1>0, <1>2, <1>8, <2>1, CaseGoes DEF Landmarks
  <2>2. pc[1] \notin Removals(c, f)
    BY <1>0, <1>2, <1>6, <1>8, <2>0 DEF Leaves
  <2>3. CASE f \in names
    <3>1. PICK j \in Removals(c, f) : pc[1] <= j /\ (Asserts(c) => d <= j)
      BY <1>5, <2>3
    <3>2. pc[1] # j /\ j \in Int
      BY <1>2, <2>2, <3>1
    <3>3. pc[1] < j
      BY <1>6, <3>1, <3>2
    <3> QED
      BY <2>1, <3>1, <3>3
  <2>4. CASE f \in Created(Step(t))
    <3>1. \E j \in Removals(c, f) : pc[1] < j /\ (Asserts(c) => d <= j)
      BY <1>0, <1>6, <1>8, <2>4, RemovalShape
    <3> QED
      BY <2>1, <3>1
  <2> QED
    BY <1>3, <2>3, <2>4
<1>9. CASE t # 1
  <2>1. pc'[1] = pc[1]
    BY <1>9, GoesAny
  <2>2. CASE f \in Created(Step(t))
    <3>1. PICK i \in Waits(c, t) : pc[1] <= i
      BY <1>0, <1>4, <1>9, RunsAwaited DEF NoStray
    <3>2. \E j \in Removals(c, f) : i < j /\ (Asserts(c) => d <= j)
      BY <1>0, <1>6, <1>9, <2>2, <3>1, RemovalShape
    <3>3. PICK j \in Removals(c, f) : i < j /\ (Asserts(c) => d <= j)
      BY <3>2
    <3>4. i \in Int /\ j \in Int
      BY <1>2, <3>1, <3>3 DEF Waits
    <3>5. pc[1] <= j
      BY <1>6, <3>1, <3>3, <3>4
    <3> QED
      BY <2>1, <3>3, <3>5
  <2> QED
    BY <1>3, <1>5, <2>1, <2>2
<1> QED
  BY <1>7, <1>8, <1>9 DEF Goes, Breaks

\* With the removal of every name ahead, none is left at the last step.
LEMMA NoNameLast ==
    ASSUME ControlTypes, Removable, NoStray, Settles(Code(1)),
           pc[1] >= Len(Code(1)), pc[1] \in Nat
    PROVE  names = {}
<1>0. PICK c, k : c = Code(1) /\ k = pc[1]
  OBVIOUS
<1>1. Len(c) \in Nat
  BY <1>0, CodeShape DEF Structured
<1>2. c[Len(c)].op = "rmdir_settled"
  BY <1>0, MainShape DEF Cleaning
<1>3. ASSUME NEW f \in names PROVE FALSE
  <2>1. PICK j \in Removals(c, f) : k <= j
    BY <1>0 DEF Removable, Ahead
  <2>2. j \in 1 .. Len(c) /\ c[j].op = "unlink"
    BY DEF Removals
  <2>3. j = Len(c)
    BY <1>0, <1>1, <2>1, <2>2
  <2> QED
    BY <1>2, <2>2, <2>3
<1> QED
  BY <1>3

\* The last step of the case settles.
LEMMA SettledStep ==
    ASSUME ControlTypes, pc \in [Threads -> Nat], FlagTypes, LeftSound, Named, Awaited, Removable,
           NEW t \in Threads, Goes(t), Leaves(t)
    PROVE  Settled'
<1>0. PICK c : c = Code(1)
  OBVIOUS
<1>1. \A s : Code(s)' = Code(s)
  BY GoesAny
<1>2. 1 \in Threads /\ pc[1] \in Nat /\ Len(c) \in Nat
  BY <1>0, CodeShape DEF Threads, Structured
<1> SUFFICES ASSUME Settles(c), pc'[1] > Len(c), NoStray'
             PROVE  /\ fputs' = {} /\ silly' = FALSE
                    /\ dir' => left' # 0 /\ \E f \in Files : open'[f] > 0
  BY <1>0, <1>1 DEF Settled, Done, Ended
<1>3. CASE t # 1
  <2>1. pc'[1] = pc[1] /\ left' = left
    BY <1>3, GoesAny
  <2>2. ~Unjoined(t)
    BY <1>1, <2>1, SameUnjoined DEF NoStray
  <2>3. PICK j \in Waits(c, t) : pc[1] <= j
    BY <1>0, <1>3, <2>2, RunsAwaited
  <2>4. j \in 1 .. Len(c)
    BY DEF Waits
  <2> QED
    BY <1>2, <2>1, <2>3, <2>4
<1>4. CASE Aborts(t)
  <2>1. pc'[1] = Deferred(c)
    BY <1>0, <1>4, LeavesCode
  <2>2. Deferred(c) <= Len(c) /\ Deferred(c) \in 1 .. Len(c) + 1
    BY <1>0, MainShape, DeferredShape DEF Cleaning
  <2> QED
    BY <1>2, <2>1, <2>2
<1>5. CASE t = 1 /\ GoesOn(1)
  <2>0. left' = left /\ NoStray
    BY <1>1, <1>5, GoesLeads, SameUnjoined DEF NoStray
  <2>1. c[Len(c)].op = "rmdir_settled"
    BY <1>0, MainShape DEF Cleaning
  <2>2. pc'[1] \in 1 .. Len(c) + 1
    BY <1>0, <1>5, CaseGoes
  <2>3. pc'[1] = Len(c) + 1
    BY <1>2, <2>2
  <2>4. pc[1] = Len(c)
    BY <1>0, <1>5, <2>1, <2>3, CaseGoes
  <2>5. Step(1).op = "rmdir_settled"
    BY <1>0, <2>1, <2>4 DEF Step
  <2>6. names = {}
    <3>1. pc[1] >= Len(Code(1))
      BY <1>0, <1>2, <2>4
    <3> QED
      BY <1>0, <1>2, <2>0, <3>1, NoNameLast
  <2>7. /\ dir' = (dir /\ names \cup Pinned # {}) /\ fputs' = {} /\ silly' = FALSE
        /\ open' = open
    BY <1>5, <2>0, <2>5 DEF Leaves
  <2>8. ASSUME dir' PROVE left' # 0 /\ \E f \in Files : open'[f] > 0
    <3>1. PICK f : f \in Pinned
      BY <2>6, <2>7, <2>8
    <3>2. f \in Files /\ open[f] > 0 /\ f \notin names
      BY <3>1 DEF Pinned
    <3> QED
      BY <2>0, <2>7, <3>2 DEF Named
  <2> QED
    BY <2>7, <2>8
<1> QED
  BY <1>3, <1>4, <1>5 DEF Goes, Breaks

\* Five counts, one of which changes.
LEMMA OneOfFive ==
    ASSUME NEW t \in Threads, NEW h \in [Threads -> Int], NEW g \in [Threads -> Int], NEW d \in Int,
           g[t] = h[t] + d, \A s \in Threads \ {t} : g[s] = h[s]
    PROVE  g[1] + g[2] + g[3] + g[4] + g[5] = (h[1] + h[2] + h[3] + h[4] + h[5]) + d
<1>0. Threads = {1, 2, 3, 4, 5}
  BY DEF Threads
<1>1. PICK a, b, c, x, y : a = h[1] /\ b = h[2] /\ c = h[3] /\ x = h[4] /\ y = h[5]
  OBVIOUS
<1>2. a \in Int /\ b \in Int /\ c \in Int /\ x \in Int /\ y \in Int
  BY <1>0, <1>1
<1>3. /\ g[1] = IF t = 1 THEN a + d ELSE a
      /\ g[2] = IF t = 2 THEN b + d ELSE b
      /\ g[3] = IF t = 3 THEN c + d ELSE c
      /\ g[4] = IF t = 4 THEN x + d ELSE x
      /\ g[5] = IF t = 5 THEN y + d ELSE y
  BY <1>0, <1>1
<1>4. g[1] + g[2] + g[3] + g[4] + g[5] = (a + b + c + x + y) + d
  <2>1. CASE t = 1
    BY <1>2, <1>3, <2>1
  <2>2. CASE t = 2
    BY <1>2, <1>3, <2>2
  <2>3. CASE t = 3
    BY <1>2, <1>3, <2>3
  <2>4. CASE t = 4
    BY <1>2, <1>3, <2>4
  <2>5. CASE t = 5
    BY <1>2, <1>3, <2>5
  <2> QED
    BY <1>0, <2>1, <2>2, <2>3, <2>4, <2>5
<1> QED
  BY <1>1, <1>4

\* A thread that breaks off or is left drops what it has open, but not what it
\* has closed with the same step.
LEMMA HeldDrop ==
    ASSUME NEW c, Structured(c), Closing(c), NEW f \in Files, NEW k \in 1 .. Len(c)
    PROVE  /\ Held(c, f, k) \in Int
           /\ Held(c, f, k) >= IF IsClose(c[k], f) THEN 1 ELSE 0
<1>1. Len(c) \in Nat /\ k \in Nat \ {0}
  BY DEF Structured
<1>2. Held(c, f, k) \in Int /\ Held(c, f, k + 1) = Held(c, f, k) + Change(c[k], f)
  BY <1>1, HeldNext
<1>3. Held(c, f, k) >= 0
  BY DEF Closing
<1>4. Held(c, f, k + 1) >= 0
  <2>1. CASE k = Len(c)
    <3>1. Held(c, f, k + 1) = 0
      BY <2>1 DEF Closing
    <3> QED
      BY <3>1
  <2>2. CASE k # Len(c)
    <3>1. k + 1 \in 1 .. Len(c)
      BY <1>1, <2>2
    <3> QED
      BY <3>1 DEF Closing
  <2> QED
    BY <2>1, <2>2
<1>5. IsClose(c[k], f) => Change(c[k], f) = -1
  BY DEF IsClose, IsOpen, Change
<1> QED
  BY <1>2, <1>3, <1>4, <1>5

\* The open struct files stay those the threads have open, and those that an
\* abort has kept open.
LEMMA CountedStep ==
    ASSUME ControlTypes, pc \in [Threads -> Nat], FlagTypes, LeftSound, StartedOnce, Counted,
           NEW t \in Threads, Goes(t), Leaves(t)
    PROVE  Counted'
<1>1. \A s : Code(s)' = Code(s)
  BY GoesAny
<1> SUFFICES ASSUME ~failed', NEW f \in Files
             PROVE  open'[f] >= AllMine(f)' /\ (left' = 0 => open'[f] = AllMine(f)')
  BY DEF Counted
<1> DEFINE h == [s \in Threads |-> Held(Code(s), f, pc[s])]
           g == [s \in Threads |-> Held(Code(s), f, pc'[s])]
<1>2. Threads = {1, 2, 3, 4, 5}
  BY DEF Threads
<1>3. /\ open[f] >= h[1] + h[2] + h[3] + h[4] + h[5]
      /\ left = 0 => open[f] = h[1] + h[2] + h[3] + h[4] + h[5]
  BY <1>2 DEF Counted, Leaves, AllMine, Mine
<1>4. ASSUME NEW s \in Threads, NEW k \in Nat PROVE Held(Code(s), f, k) \in Int
  <2>1. CASE k = 0
    BY <2>1, HeldNone
  <2>2. CASE k # 0
    BY <2>2, HeldNext
  <2> QED
    BY <2>1, <2>2
<1>5. h \in [Threads -> Int] /\ g \in [Threads -> Int]
  <2>1. \A s \in Threads : pc[s] \in Nat /\ pc'[s] \in Nat
    BY GoesAny
  <2> QED
    BY <1>4, <2>1
<1>6. ASSUME NEW s \in Threads \ {t} PROVE g[s] = h[s]
  <2>1. CASE pc'[s] = pc[s]
    BY <2>1
  <2>2. CASE pc'[s] # pc[s]
    <3>1. /\ t = 1 /\ GoesOn(1) /\ Step(1).op = "start" /\ Step(1).n = s /\ s \in Threads \ {1}
          /\ pc'[s] = 1 /\ pc[1] \in 1 .. Len(Code(1)) /\ Step(1) = Code(1)[pc[1]]
      BY <2>2, GoesAny
    <3>2. left = 0
      BY <3>1, Aftermath DEF DeferredOps
    <3>3. pc[s] = 0
      <4>1. ASSUME pc[s] # 0 PROVE FALSE
        <5>1. PICK k \in 1 .. Len(Code(1)) :
                Code(1)[k].op = "start" /\ Code(1)[k].n = s /\ k < pc[1]
          BY <3>1, <3>2, <4>1 DEF StartedOnce, Reached
        <5>2. k = pc[1]
          BY <3>1, <5>1, StartShape
        <5>3. pc[1] \in Nat
          BY <3>1
        <5> QED
          BY <5>1, <5>2, <5>3
      <4> QED
        BY <4>1
    <3> QED
      BY <3>1, <3>3, HeldNone
  <2> QED
    BY <2>1, <2>2
<1>7. g[t] - h[t] \in Int
  BY <1>5
<1>8. g[1] + g[2] + g[3] + g[4] + g[5] = (h[1] + h[2] + h[3] + h[4] + h[5]) + (g[t] - h[t])
  <2>1. g[t] = h[t] + (g[t] - h[t])
    BY <1>5
  <2> HIDE DEF g, h
  <2> QED
    BY <1>5, <1>6, <1>7, <2>1, OneOfFive
<1>9. PICK m, n, x : /\ m = h[1] + h[2] + h[3] + h[4] + h[5]
                     /\ n = g[1] + g[2] + g[3] + g[4] + g[5]
                     /\ x = g[t] - h[t]
  OBVIOUS
<1>10. /\ m \in Int /\ n = m + x /\ x \in Int /\ open[f] >= m /\ (left = 0 => open[f] = m)
  <2>1. m \in Int
    <3> HIDE DEF g, h
    <3>1. h[1] \in Int /\ h[2] \in Int /\ h[3] \in Int /\ h[4] \in Int /\ h[5] \in Int
      BY <1>2, <1>5
    <3> QED
      BY <1>9, <3>1
  <2> HIDE DEF g, h
  <2> QED
    BY <1>3, <1>7, <1>8, <1>9, <2>1
<1>11. AllMine(f)' = n
  <2>1. \A s \in Threads : Mine(s, f)' = g[s]
    BY <1>1 DEF Mine
  <2>2. /\ Mine(1, f)' = g[1] /\ Mine(2, f)' = g[2] /\ Mine(3, f)' = g[3]
        /\ Mine(4, f)' = g[4] /\ Mine(5, f)' = g[5]
    BY <1>2, <2>1
  <2> QED
    BY <1>9, <2>2 DEF AllMine
<1>12. open[f] \in Int /\ open'[f] \in Int
  BY DEF Leaves, FlagTypes
<1>13. \/ left' = left /\ open'[f] = open[f] + x
       \/ left' # 0 /\ open'[f] >= open[f] + x
  <2>0. PICK c, k, to : c = Code(t) /\ k = pc[t] /\ to = pc'[t]
    OBVIOUS
  <2>1. /\ k \in 1 .. Len(c) /\ Structured(c) /\ Closing(c) /\ Step(t) = c[k]
        /\ x = Held(c, f, to) - Held(c, f, k)
    BY <1>9, <2>0, GoesAny, CodeShape
  <2>2. Opens(t, f)
    BY DEF Leaves
  <2>3. CASE GoesOn(t) /\ open'[f] = open[f] + Change(Step(t), f)
    <3>1. Leads(c, k, to) /\ left' = left /\ (c[k].op \in Heads \cup {"back"} => c[k].at \in Nat)
      BY <2>0, <2>3, GoesLeads
    <3>2. Held(c, f, k) \in Int /\ Held(c, f, to) = Held(c, f, k) + Change(c[k], f)
      BY <2>1, <3>1, HeldLeads
    <3>3. Change(c[k], f) \in Int
      BY DEF Change
    <3>4. x = Change(c[k], f)
      BY <2>1, <3>2, <3>3
    <3> QED
      BY <2>1, <2>3, <3>1, <3>4
  <2>4. CASE Breaks(t) /\ left # 0
             /\ open'[f] >= open[f] - (IF IsClose(Step(t), f) THEN 1 ELSE 0)
    <3>1. to = Len(c) + 1 /\ left' = left
      BY <2>0, <2>4, LeavesCode
    <3>2. Held(c, f, to) = 0
      BY <2>1, <3>1 DEF Closing
    <3>3. Held(c, f, k) \in Int /\ Held(c, f, k) >= IF IsClose(c[k], f) THEN 1 ELSE 0
      BY <2>1, HeldDrop
    <3> QED
      BY <1>12, <2>1, <2>4, <3>1, <3>2, <3>3
  <2>5. CASE Aborts(t) /\ left = 0 /\ open'[f] = open[f]
    <3>1. t = 1 /\ to = Deferred(c) /\ left' = k
      BY <2>0, <2>5, LeavesCode
    <3>2. Held(c, f, to) = 0
      BY <2>0, <3>1, DeferredHeld
    <3>3. Held(c, f, k) \in Int /\ Held(c, f, k) >= 0
      BY <2>1, HeldDrop
    <3>4. left' # 0
      BY <2>1, <3>1
    <3> QED
      BY <1>12, <2>1, <2>5, <3>2, <3>3, <3>4
  <2> QED
    BY <2>2, <2>3, <2>4, <2>5 DEF Opens
<1> QED
  BY <1>10, <1>11, <1>12, <1>13

-------------------------------------------------------------------------------
(* The invariant holds. *)

\* A port begins in it.
LEMMA InitPort ==
    ASSUME Init
    PROVE  PInv
<1>1. ControlTypes
  BY InitFiles DEF FInv
<1>2. /\ pc = [s \in Threads |-> IF s = 1 THEN 1 ELSE 0]
      /\ stop = FALSE /\ starved = FALSE /\ dir = FALSE /\ silly = FALSE /\ entered = {}
      /\ names = {} /\ fputs = {} /\ open = [f \in Files |-> 0] /\ failed = FALSE /\ left = 0
  BY DEF Init, PortInit
<1>3. /\ Threads = {1, 2, 3, 4, 5} /\ pc[1] = 1
      /\ \A s \in Threads \ {1} : pc[s] = 0
  BY <1>2 DEF Threads
<1>4. PortTypes
  <2>1. pc \in [Threads -> Nat] /\ open \in [Files -> Int]
    BY <1>2
  <2> QED
    BY <1>2, <2>1 DEF PortTypes, FlagTypes
<1>5. \A s : Len(Code(s)) \in Nat
  BY <1>1, CodeShape DEF Structured
<1>6. InCode
  <2>1. ASSUME NEW s \in Threads PROVE pc[s] <= Len(Code(s)) + 1
    <3>1. pc[s] \in {0, 1} /\ Len(Code(s)) \in Nat
      BY <1>2, <1>5
    <3> QED
      BY <3>1
  <2> QED
    BY <1>3, <2>1 DEF InCode
<1>7. Awaited /\ StartedOnce /\ LeftSound /\ Named
  BY <1>2, <1>3 DEF Awaited, StartedOnce, LeftSound, Named
<1>8. Removable
  BY <1>2 DEF Removable
<1>9. Settled
  BY <1>2 DEF Settled
<1>10. Counted
  <2>1. ASSUME NEW s \in Threads, NEW f PROVE Mine(s, f) = 0
    BY <1>2, HeldNone DEF Mine
  <2>2. ASSUME NEW f \in Files
        PROVE  open[f] = AllMine(f) /\ open[f] \in Int
    <3>1. /\ Mine(1, f) = 0 /\ Mine(2, f) = 0 /\ Mine(3, f) = 0 /\ Mine(4, f) = 0 /\ Mine(5, f) = 0
      BY <1>3, <2>1
    <3>2. open[f] = 0
      BY <1>2
    <3> QED
      BY <3>1, <3>2 DEF AllMine
  <2> QED
    BY <2>2 DEF Counted
<1> QED
  BY <1>4, <1>6, <1>7, <1>8, <1>9, <1>10 DEF PInv

\* Every step stays in it.
LEMMA NextPort ==
    ASSUME ControlTypes, PInv, [Next]_vars
    PROVE  PInv'
<1>1. FlagTypes /\ pc \in [Threads -> Nat]
  BY DEF PInv, PortTypes
<1>2. CASE \E t \in Threads : ThreadStep(t)
  <2>1. PICK t \in Threads : ThreadStep(t)
    BY <1>2
  <2>2. Goes(t) /\ Leaves(t)
    BY <1>1, <2>1, ThreadLeaves
  <2>3. PortTypes'
    <3>1. FlagTypes' /\ pc' \in [Threads -> Nat]
      BY <1>1, <2>2, GoesAny DEF Leaves
    <3>2. left' \in Nat
      <4>1. left' = left \/ left' = pc[1]
        BY <2>2 DEF Goes, GoesOn, Breaks, Aborts
      <4>2. left \in Nat /\ pc[1] \in Nat
        BY <1>1 DEF PInv, PortTypes, Threads
      <4> QED
        BY <4>1, <4>2
    <3> QED
      BY <3>1, <3>2 DEF PortTypes
  <2>4. InCode' /\ LeftSound' /\ Named' /\ Awaited' /\ StartedOnce'
    BY <1>1, <2>2, InCodeStep, LeftStep, AwaitedStep, StartedStep DEF PInv, Leaves
  <2>5. Removable' /\ Settled' /\ Counted'
    BY <1>1, <2>2, RemovableStep, SettledStep, CountedStep DEF PInv
  <2> QED
    BY <2>3, <2>4, <2>5 DEF PInv
<1>3. CASE UNCHANGED control /\ UNCHANGED <<dir, names, open>>
           /\ (UNCHANGED <<fputs, silly>> \/ (fputs' = {} /\ silly' = FALSE))
  <2>1. UNCHANGED <<suite, pc, stop, failed, left, entered, starved>>
    BY <1>3 DEF control
  <2>2. \A s : Code(s)' = Code(s)
    BY <2>1 DEF Code
  <2>3. PortTypes'
    BY <1>3, <2>1 DEF PInv, PortTypes, FlagTypes
  <2>4. \A s : Unjoined(s)' <=> Unjoined(s)
    BY <2>1, <2>2, SameUnjoined
  <2>5. InCode' /\ LeftSound' /\ Named' /\ Awaited' /\ StartedOnce'
    BY <1>3, <2>1, <2>2, <2>4
    DEF PInv, InCode, LeftSound, Named, Awaited, Ended, StartedOnce, Reached
  <2>6. NoStray' <=> NoStray
    BY <2>4 DEF NoStray
  <2>7. Removable'
    BY <1>3, <2>1, <2>2, <2>6 DEF PInv, Removable, Ahead
  <2>8. Settled'
    BY <1>3, <2>1, <2>2, <2>6 DEF PInv, Settled, Done, Ended
  <2>9. Counted'
    BY <1>3, <2>1, <2>2 DEF PInv, Counted, AllMine, Mine
  <2> QED
    BY <2>3, <2>5, <2>7, <2>8, <2>9 DEF PInv
<1>4. CASE DelayedFput
  BY <1>3, <1>4 DEF DelayedFput
<1>5. CASE \E f \in Files : Writeback(f) \/ Reclaim(f)
  <2>1. UNCHANGED control /\ UNCHANGED directory
    BY <1>5 DEF Writeback, Reclaim
  <2>2. UNCHANGED <<dir, names, open>> /\ UNCHANGED <<fputs, silly>>
    BY <2>1 DEF directory
  <2> QED
    BY <1>3, <2>1, <2>2
<1>6. CASE UNCHANGED vars
  <2>1. UNCHANGED control /\ UNCHANGED directory
    BY <1>6 DEF vars
  <2>2. UNCHANGED <<dir, names, open>> /\ UNCHANGED <<fputs, silly>>
    BY <2>1 DEF directory
  <2> QED
    BY <1>3, <2>1, <2>2
<1> QED
  BY <1>2, <1>4, <1>5, <1>6 DEF Next

\* The control flow and the directory of a port are always as PInv says.
THEOREM PortsAlwaysSound == Spec => [](FInv /\ PInv)
<1>1. Init => FInv /\ PInv
  BY InitFiles, InitPort
<1>2. FInv /\ PInv /\ [Next]_vars => FInv' /\ PInv'
  <2> SUFFICES ASSUME FInv, PInv, [Next]_vars PROVE FInv' /\ PInv'
    OBVIOUS
  <2>1. FInv'
    BY NextFiles
  <2>2. PInv'
    BY NextPort DEF FInv
  <2> QED
    BY <2>1, <2>2
<1> QED
  BY <1>1, <1>2, PTL DEF Spec

\* At the end of the case every kthread has ended that it was not kept from
\* waiting for.
LEMMA AllEnded ==
    ASSUME ControlTypes, PInv, Done, NEW t \in Threads
    PROVE  pc[t] = 0 \/ Ended(t) \/ Unjoined(t)
<1>1. CASE t = 1
  BY <1>1 DEF Done
<1>2. CASE t # 1
  <2>0. PICK c : c = Code(1)
    OBVIOUS
  <2>1. ASSUME NEW j \in Waits(c, t), pc[1] <= j PROVE FALSE
    <3>1. j \in 1 .. Len(c)
      BY DEF Waits
    <3>2. pc[1] > Len(c) /\ pc[1] \in Nat /\ Len(c) \in Nat
      BY <2>0, CodeShape DEF Done, Ended, PInv, PortTypes, Threads, Structured
    <3> QED
      BY <2>1, <3>1, <3>2
  <2> QED
    BY <1>2, <2>0, <2>1 DEF PInv, Awaited
<1> QED
  BY <1>1, <1>2

\* A kthread of a port outlives its case only because an assertion failed after
\* its kthread_run() and before its wait_for_completion() (WorkersJoined of
\* FileClient): on every other way out of the case the structures on its stack
\* are used by nobody when its frame is gone.  For every set of programs in
\* which a wait for each started thread follows outside the loops, however the
\* threads interleave and wherever the assertions fail.
THEOREM AlwaysJoined == Spec => []WorkersJoined
<1>1. ASSUME FInv, PInv, Done, NEW t \in Threads
      PROVE  pc[t] = 0 \/ Ended(t) \/ (Unjoined(t) /\ Code(1)[left].fatal)
  <2>1. pc[t] = 0 \/ Ended(t) \/ Unjoined(t)
    BY <1>1, AllEnded DEF FInv
  <2>2. Unjoined(t) => Code(1)[left].fatal
    BY <1>1 DEF Unjoined, PInv, LeftSound
  <2> QED
    BY <2>1, <2>2
<1>2. FInv /\ PInv => WorkersJoined
  BY <1>1 DEF WorkersJoined
<1> QED
  BY <1>2, PortsAlwaysSound, PTL

\* A port that removes its directory with xfs_rmdir_settled() leaves neither
\* the directory nor a name behind (DirectoryRemoved of FileClient), nor a
\* delayed fput or a sillyrenamed entry, whatever its kthreads created, and
\* whether its expectations held or not.  Where an assertion leaves the case,
\* the directory can stay because of a file that is still open, and nothing is
\* said of a case that a kthread outlives.
THEOREM AlwaysRemoved ==
    Spec => [](/\ DirectoryRemoved
               /\ Done /\ Settles(Code(1)) /\ (\A t \in Threads : ~Unjoined(t)) =>
                    fputs = {} /\ ~silly)
<1>1. ASSUME FInv, PInv, Done, Settles(Code(1)), NoStray
      PROVE  /\ names = {} /\ (dir => left # 0 /\ \E f \in Files : open[f] > 0)
             /\ fputs = {} /\ ~silly
  <2>1. fputs = {} /\ ~silly /\ (dir => left # 0 /\ \E f \in Files : open[f] > 0)
    BY <1>1 DEF PInv, Settled
  <2>2. names = {}
    <3>0. PICK c, k : c = Code(1) /\ k = pc[1]
      OBVIOUS
    <3>1. Len(c) \in Nat /\ k \in Nat /\ k > Len(c)
      BY <1>1, <3>0, CodeShape DEF FInv, Done, Ended, PInv, PortTypes, Threads, Structured
    <3>2. pc[1] >= Len(Code(1)) /\ pc[1] \in Nat
      BY <3>0, <3>1
    <3> QED
      BY <1>1, <3>2, NoNameLast DEF FInv, PInv
  <2> QED
    BY <2>1, <2>2
<1>2. FInv /\ PInv => /\ DirectoryRemoved
                      /\ Done /\ Settles(Code(1)) /\ (\A t \in Threads : ~Unjoined(t)) =>
                           fputs = {} /\ ~silly
  BY <1>1 DEF DirectoryRemoved, NoStray
<1> QED
  BY <1>2, PortsAlwaysSound, PTL

\* A thread never has fewer than no struct files open, and none at its end.
LEMMA MineBounds ==
    ASSUME ControlTypes, PInv, NEW t \in Threads, NEW f \in Files
    PROVE  Mine(t, f) \in Nat /\ (pc[t] = 0 \/ Ended(t) => Mine(t, f) = 0)
<1>0. PICK c, k : c = Code(t) /\ k = pc[t]
  OBVIOUS
<1>1. k \in Nat /\ k <= Len(c) + 1 /\ Len(c) \in Nat /\ Closing(c)
  BY <1>0, CodeShape DEF PInv, PortTypes, InCode, Structured
<1>2. CASE k = 0
  BY <1>0, <1>2, HeldNone DEF Mine
<1>3. CASE k \in 1 .. Len(c)
  <2>1. Held(c, f, k) >= 0
    BY <1>1, <1>3 DEF Closing
  <2>2. Held(c, f, k) \in Int
    BY <1>3, HeldNext
  <2>3. Mine(t, f) \in Nat
    BY <1>0, <2>1, <2>2 DEF Mine
  <2>4. ~(k > Len(c)) /\ k # 0
    BY <1>1, <1>3
  <2> QED
    BY <1>0, <2>3, <2>4 DEF Ended
<1>4. CASE k = Len(c) + 1
  <2>1. Held(c, f, k) = 0
    BY <1>1, <1>4 DEF Closing
  <2> QED
    BY <1>0, <2>1 DEF Mine
<1> QED
  BY <1>1, <1>2, <1>3, <1>4

\* The variables have their types while the case's expectations hold (TypeOK
\* of FileClient).  The one that needs the condition is open: no struct file
\* is put more often than it was opened, by any thread, as long as the opens
\* the case relies on succeed; an assertion that leaves the case, and a kthread
\* that breaks off after that, only keep files from being put.
THEOREM TypesWhileExpected == Spec => [](ExpectationsHold => TypeOK)
<1>1. ASSUME FInv, PInv, ~failed PROVE TypeOK
  <2>1. ASSUME NEW f \in Files PROVE open[f] \in Nat
    <3>0. Threads = {1, 2, 3, 4, 5}
      BY DEF Threads
    <3>1. \A t \in Threads : Mine(t, f) \in Nat
      BY <1>1, MineBounds DEF FInv
    <3>2. PICK a, b, c, x, y : a = Mine(1, f) /\ b = Mine(2, f) /\ c = Mine(3, f)
                               /\ x = Mine(4, f) /\ y = Mine(5, f)
      OBVIOUS
    <3>3. a \in Nat /\ b \in Nat /\ c \in Nat /\ x \in Nat /\ y \in Nat
      BY <3>0, <3>1, <3>2
    <3>4. open[f] >= a + b + c + x + y /\ open[f] \in Int
      BY <1>1, <3>2 DEF PInv, Counted, AllMine, PortTypes, FlagTypes
    <3> QED
      BY <3>3, <3>4
  <2>2. open \in [Files -> Nat]
    BY <1>1, <2>1 DEF PInv, PortTypes, FlagTypes
  <2>3. /\ page \in [Files -> [Cells -> Cell]] /\ data \in [Files -> [Cells -> Nat]]
        /\ dirty \in [Files -> SUBSET Cells] /\ alloc \in [Files -> SUBSET Cells]
        /\ csize \in [Files -> 0 .. Limit] /\ ssize \in [Files -> 0 .. Limit]
    BY <1>1 DEF FInv, FileTypes
  <2>4. Cell \subseteq Int
    BY DEF Cell, Absent
  <2>5. ASSUME NEW f \in Files PROVE page[f] \in [Cells -> Int] /\ data[f] \in [Cells -> Int]
    <3>1. page[f] \in [Cells -> Cell] /\ data[f] \in [Cells -> Nat]
      BY <2>3
    <3>2. page[f] \in [Cells -> Int]
      BY <2>4, <3>1
    <3>3. data[f] \in [Cells -> Int]
      BY <3>1
    <3> QED
      BY <3>2, <3>3
  <2>6. page \in [Files -> [Cells -> Int]] /\ data \in [Files -> [Cells -> Int]]
    BY <2>3, <2>5
  <2>7. <<stop, failed, starved, dir, silly>> \in BOOLEAN \X BOOLEAN \X BOOLEAN \X BOOLEAN \X BOOLEAN
    BY <1>1 DEF PInv, PortTypes, FlagTypes, FInv, ControlTypes
  <2>8. /\ pc \in [Threads -> Nat] /\ left \in Nat /\ mark \in [Threads -> 0 .. Limit] /\ entered \subseteq Threads
        /\ names \subseteq Files /\ fputs \subseteq Files
    BY <1>1 DEF PInv, PortTypes, FlagTypes, FInv, ControlTypes
  <2> QED
    BY <2>2, <2>3, <2>6, <2>7, <2>8 DEF TypeOK
<1> QED
  BY <1>1, PortsAlwaysSound, PTL DEF ExpectationsHold

\* A case whose expectations held and that was not left has closed every
\* struct file it or one of its kthreads opened (every filp_open() of the
\* generic/NNN.c has its fput() or xfs_close()): the mount can be torn down
\* after it.
THEOREM NothingLeftOpen ==
    Spec => [](Done /\ ExpectationsHold /\ left = 0 => \A f \in Files : open[f] = 0)
<1>1. ASSUME FInv, PInv, Done, ~failed, left = 0, NEW f \in Files PROVE open[f] = 0
  <2>1. \A t \in Threads : Mine(t, f) = 0
    BY <1>1, AllEnded, MineBounds DEF FInv, Unjoined
  <2>2. 1 \in Threads /\ 2 \in Threads /\ 3 \in Threads /\ 4 \in Threads /\ 5 \in Threads
    BY DEF Threads
  <2>3. /\ Mine(1, f) = 0 /\ Mine(2, f) = 0 /\ Mine(3, f) = 0 /\ Mine(4, f) = 0 /\ Mine(5, f) = 0
    BY <2>1, <2>2
  <2>4. open[f] = Mine(1, f) + Mine(2, f) + Mine(3, f) + Mine(4, f) + Mine(5, f)
    BY <1>1 DEF PInv, Counted, AllMine
  <2> QED
    BY <2>3, <2>4
<1>2. FInv /\ PInv => (Done /\ ExpectationsHold /\ left = 0 => \A f \in Files : open[f] = 0)
  BY <1>1 DEF ExpectationsHold
<1> QED
  BY <1>2, PortsAlwaysSound, PTL

\* Once the case has ended no thread of the port takes a step but a kthread
\* that an assertion kept it from waiting for: what is left are the delayed
\* fputs, writeback and reclaim.
THEOREM QuietAfterEnd ==
    Spec => [][Done /\ (\A t \in Threads : ~Unjoined(t)) =>
                 UNCHANGED <<control, dir, names, open>>]_vars
<1>1. ASSUME FInv, PInv, Next, Done, NoStray PROVE UNCHANGED <<control, dir, names, open>>
  <2>1. ASSUME NEW t \in Threads, ThreadStep(t) PROVE FALSE
    <3>1. ControlTypes /\ FlagTypes /\ pc \in [Threads -> Nat]
      BY <1>1 DEF FInv, PInv, PortTypes
    <3>2. Goes(t)
      BY <2>1, <3>1, ThreadLeaves
    <3>3. pc[t] # 0 /\ ~Ended(t)
      BY <3>1, <3>2, GoesAny
    <3> QED
      BY <1>1, <3>1, <3>3, AllEnded DEF NoStray
  <2>2. CASE DelayedFput
    BY <2>2 DEF DelayedFput
  <2>3. CASE \E f \in Files : Writeback(f) \/ Reclaim(f)
    <3>1. UNCHANGED control /\ UNCHANGED directory
      BY <2>3 DEF Writeback, Reclaim
    <3> QED
      BY <3>1 DEF directory
  <2>4. CASE UNCHANGED vars
    BY <2>4 DEF vars, directory
  <2> QED
    BY <1>1, <2>1, <2>2, <2>3, <2>4 DEF Next
<1>2. FInv /\ PInv /\ [Next]_vars =>
        [Done /\ (\A t \in Threads : ~Unjoined(t)) => UNCHANGED <<control, dir, names, open>>]_vars
  BY <1>1 DEF NoStray
<1> QED
  BY <1>2, PortsAlwaysSound, PTL DEF Spec
===============================================================================
