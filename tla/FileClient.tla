------------------------------ MODULE FileClient ------------------------------
(***************************************************************************)
(* The ports over the loopback NFS mount: the client's page cache in front *)
(* of the server's file.  Writes and mapped stores stay in the cache until *)
(* writeback, which may take any cell at any time; clean cells may be      *)
(* reclaimed at any time; the calls the ports rely on to sync (close,      *)
(* fsync, truncate, fallocate, direct I/O, stat, llseek, copy) flush first.*)
(* The kernel is not part of this repository: it is modelled as the ports  *)
(* use and describe it.                                                    *)
(***************************************************************************)
EXTENDS Port

VARIABLES
    csize,      \* the client's i_size
    page,       \* page[f][c]: the cached cell, or Absent
    dirty,      \* cached cells the server does not have yet
    ssize,      \* the server's size
    data,       \* the server's cells, 0 past the end
    alloc       \* cells the server has filled or allocated

client == <<csize, page, dirty>>
server == <<ssize, data, alloc>>
vars == <<control, directory, client, server>>

Absent == -1
Empty == [c \in Cells |-> Absent]

Init ==
    /\ PortInit
    /\ csize = [f \in Files |-> 0]
    /\ page = [f \in Files |-> Empty]
    /\ dirty = [f \in Files |-> {}]
    /\ ssize = [f \in Files |-> 0]
    /\ data = [f \in Files |-> Zeros]
    /\ alloc = [f \in Files |-> {}]

SetClient(f, s, p, d) ==
    /\ csize' = [csize EXCEPT ![f] = s]
    /\ page' = [page EXCEPT ![f] = p]
    /\ dirty' = [dirty EXCEPT ![f] = d]
SetServer(f, s, d, a) ==
    /\ ssize' = [ssize EXCEPT ![f] = s]
    /\ data' = [data EXCEPT ![f] = d]
    /\ alloc' = [alloc EXCEPT ![f] = a]

\* What a buffered or mapped read of the cell sees.
View(f) == [c \in Cells |-> IF page[f][c] = Absent THEN data[f][c] ELSE page[f][c]]
\* A read caches what it read.
Cached(f, C) == [c \in Cells |-> IF c \in C THEN View(f)[c] ELSE page[f][c]]
Without(fn, C) == [c \in Cells |-> IF c \in C THEN Absent ELSE fn[c]]
\* Cells of the last page past the end of the file, which a mapping can dirty
\* and which must read as zeroes once the file grows to size s.
PastEnd(f, s) == {c \in Cells : csize[f] <= c /\ c < s}

\* The server's file once every dirty cell has been written.
FlushedSize(f) == IF csize[f] - 1 \in dirty[f] THEN csize[f] ELSE ssize[f]
FlushedData(f) == [c \in Cells |-> IF c \in dirty[f] THEN page[f][c] ELSE data[f][c]]
FlushedAlloc(f) == alloc[f] \cup dirty[f]
ServerFlushed(f) == SetServer(f, FlushedSize(f), FlushedData(f), FlushedAlloc(f))
Flush(f) == SetClient(f, csize[f], page[f], {}) /\ ServerFlushed(f)

-------------------------------------------------------------------------------
OpenFile(t) == LET f == Step(t).f IN
    \/ /\ At(t, "creat") \/ ((At(t, "open_creat") \/ At(t, "excl")) /\ f \notin names)
       /\ ~DirGone
       /\ Return(t, OK) /\ OpenOne(f)
       /\ SetClient(f, 0, Empty, {}) /\ SetServer(f, 0, Zeros, {})
    \/ /\ At(t, "open") \/ At(t, "open_creat")
       /\ f \in names
       /\ Return(t, OK) /\ OpenOne(f)
       /\ UNCHANGED <<client, server>>
    \/ /\ At(t, "excl") /\ f \in names
       /\ Return(t, EEXIST)
       /\ UNCHANGED <<directory, client, server>>

\* Defect: closing does not flush.
FaultyCloseFile(t) ==
    /\ At(t, "close") \/ At(t, "close_ro")
    /\ Return(t, OK) /\ CloseOne(Step(t).f)
    /\ UNCHANGED <<client, server>>

CloseFile(t) == LET f == Step(t).f IN
    /\ At(t, "close") \/ At(t, "close_ro")
    /\ Return(t, OK) /\ CloseOne(f)
    /\ IF At(t, "close") THEN Flush(f) ELSE UNCHANGED <<client, server>>

UnlinkFile(t) == LET f == Step(t).f IN
    /\ At(t, "unlink")
    /\ open[f] = 0 \/ left # 0
    /\ Return(t, IF f \in names THEN OK ELSE ENOENT)
    /\ IF f \in names THEN DropName(f) ELSE UNCHANGED directory
    /\ UNCHANGED <<client, server>>

RenameFile(t) == LET f == Step(t).f g == Step(t).g IN
    /\ At(t, "rename")
    /\ f \in names /\ open[f] = 0 /\ open[g] = 0
    /\ Return(t, OK) /\ MoveName(f, g)
    /\ csize' = [csize EXCEPT ![g] = csize[f], ![f] = 0]
    /\ page' = [page EXCEPT ![g] = page[f], ![f] = Empty]
    /\ dirty' = [dirty EXCEPT ![g] = dirty[f], ![f] = {}]
    /\ ssize' = [ssize EXCEPT ![g] = ssize[f], ![f] = 0]
    /\ data' = [data EXCEPT ![g] = data[f], ![f] = Zeros]
    /\ alloc' = [alloc EXCEPT ![g] = alloc[f], ![f] = {}]

MissingFile(t) ==
    /\ At(t, "open") \/ At(t, "trunc") \/ At(t, "size") \/ At(t, "ssize") \/ At(t, "read_range")
       \/ At(t, "blocks") \/ At(t, "rename")
       \/ ((At(t, "creat") \/ At(t, "open_creat") \/ At(t, "excl")) /\ DirGone)
    /\ Step(t).f \notin names
    /\ Return(t, ENOENT)
    /\ UNCHANGED <<directory, client, server>>

WriteFile(t) ==
    LET f == Step(t).f
        v == Step(t).val
        at == Offset(t, csize[f])
        C == Extent(at, Len(v))
        s == IF v = <<>> THEN csize[f] ELSE Larger(csize[f], at + Len(v))
    IN  /\ At(t, "write") \/ At(t, "append") \/ At(t, "write_taken")
        /\ at + Len(v) <= Limit
        /\ Return(t, OK)
        /\ SetClient(f, s, Overwrite(Without(page[f], PastEnd(f, s)), at, v), dirty[f] \cup C)
        /\ UNCHANGED <<directory, server>>

RefuseFile(t) ==
    /\ \/ At(t, "write") /\ Step(t).at + Len(Step(t).val) > Limit /\ Return(t, EFBIG)
       \/ At(t, "trunc") /\ Step(t).f \in names /\ Step(t).n > Limit /\ Return(t, EFBIG)
       \/ At(t, "refused") /\ Return(t, Step(t).val)
    /\ UNCHANGED <<directory, client, server>>

TakeFile(t) ==
    /\ At(t, "take_size")
    /\ Take(t, csize[Step(t).f])
    /\ UNCHANGED <<directory, client, server>>

\* A store through the mapping faults the cell in; past the end of the file it
\* stays in the page and is never written back.
StoreFile(t) ==
    LET f == Step(t).f
        C == Extent(Step(t).at, Len(Step(t).val))
    IN  /\ At(t, "mwrite")
        /\ Return(t, OK)
        /\ SetClient(f, csize[f], Overwrite(page[f], Step(t).at, Step(t).val),
                     dirty[f] \cup (C \cap Extent(0, csize[f])))
        /\ UNCHANGED <<directory, server>>

\* Defect: the cells a direct write wrote stay cached.
FaultyDirectWrite(t) ==
    LET f == Step(t).f
        v == Step(t).val
        end == Step(t).at + Len(v)
    IN  /\ At(t, "dwrite")
        /\ Return(t, OK)
        /\ SetClient(f, Larger(csize[f], end), page[f], {})
        /\ SetServer(f, Larger(FlushedSize(f), end), Overwrite(FlushedData(f), Step(t).at, v),
                     FlushedAlloc(f) \cup Extent(Step(t).at, Len(v)))
        /\ UNCHANGED directory

\* A direct write flushes, writes to the server and drops the cells it wrote.
DirectWrite(t) ==
    LET f == Step(t).f
        v == Step(t).val
        C == Extent(Step(t).at, Len(v))
        s == IF v = <<>> THEN csize[f] ELSE Larger(csize[f], Step(t).at + Len(v))
    IN  /\ At(t, "dwrite")
        /\ Return(t, OK)
        /\ SetClient(f, s, Without(page[f], C \cup PastEnd(f, s)), {})
        /\ SetServer(f, IF v = <<>> THEN FlushedSize(f)
                        ELSE Larger(FlushedSize(f), Step(t).at + Len(v)),
                     Overwrite(FlushedData(f), Step(t).at, v), FlushedAlloc(f) \cup C)
        /\ UNCHANGED directory

\* Defect: the cached cells past the new end survive.
FaultyTruncFile(t) == LET f == Step(t).f n == Step(t).n IN
    /\ At(t, "trunc")
    /\ f \in names /\ n <= Limit
    /\ Return(t, OK)
    /\ SetClient(f, n, page[f], {})
    /\ SetServer(f, n, Erase(FlushedData(f), Extent(n, Limit)),
                 FlushedAlloc(f) \cap Extent(0, n))
    /\ UNCHANGED directory

TruncFile(t) == LET f == Step(t).f n == Step(t).n IN
    /\ At(t, "trunc")
    /\ f \in names /\ n <= Limit
    /\ Return(t, OK)
    /\ SetClient(f, n, Without(page[f], Extent(Smaller(n, csize[f]), Limit)), {})
    /\ SetServer(f, n, Erase(FlushedData(f), Extent(n, Limit)),
                 FlushedAlloc(f) \cap Extent(0, n))
    /\ UNCHANGED directory

AllocFile(t) == LET f == Step(t).f end == Step(t).at + Step(t).n IN
    /\ At(t, "alloc")
    /\ UNCHANGED directory
    /\ \/ /\ end <= Limit
          /\ Return(t, OK)
          /\ SetClient(f, Larger(csize[f], end), Without(page[f], PastEnd(f, end)), {})
          /\ SetServer(f, Larger(FlushedSize(f), end), FlushedData(f),
                       FlushedAlloc(f) \cup Extent(Step(t).at, Step(t).n))
       \/ /\ end > Limit
          /\ Return(t, ENOSPC)
          /\ Flush(f)

PunchFile(t) == LET f == Step(t).f C == Extent(Step(t).at, Step(t).n) IN
    /\ At(t, "punch")
    /\ Return(t, OK)
    /\ SetClient(f, csize[f], Without(page[f], C), {})
    /\ SetServer(f, FlushedSize(f), Erase(FlushedData(f), C), FlushedAlloc(f) \ C)
    /\ UNCHANGED directory

\* invalidate_inode_pages2() launders what it drops; filemap_flush() only
\* starts writeback.
SyncFile(t) == LET f == Step(t).f IN
    /\ At(t, "fsync") \/ At(t, "drop") \/ At(t, "kick")
    /\ Return(t, OK)
    /\ \/ At(t, "fsync") /\ Flush(f)
       \/ At(t, "drop") /\ SetClient(f, csize[f], Empty, {}) /\ ServerFlushed(f)
       \/ At(t, "kick") /\ UNCHANGED <<client, server>>
    /\ UNCHANGED directory

ReadFile(t) == LET f == Step(t).f C == Extent(Step(t).at, Step(t).n) \cap Extent(0, csize[f]) IN
    /\ At(t, "read") \/ (At(t, "read_range") /\ f \in names) \/ At(t, "mread")
    /\ Return(t, IF At(t, "mread") THEN Slice(View(f), Step(t).at, Step(t).n)
                 ELSE Window(View(f), csize[f], Step(t).at, Step(t).n))
    /\ SetClient(f, csize[f], Cached(f, C), dirty[f])
    /\ IF At(t, "read_range")
       THEN fputs' = fputs \cup {f} /\ UNCHANGED <<dir, names, open, silly>>
       ELSE UNCHANGED directory
    /\ UNCHANGED server

DirectRead(t) == LET f == Step(t).f IN
    /\ At(t, "dread")
    /\ Return(t, Window(FlushedData(f), FlushedSize(f), Step(t).at, Step(t).n))
    /\ Flush(f)
    /\ UNCHANGED directory

AskFile(t) == LET f == Step(t).f IN
    /\ \/ At(t, "size") /\ f \in names /\ Return(t, <<FlushedSize(f)>>)
       \/ At(t, "blocks") /\ f \in names /\ Return(t, <<Cardinality(FlushedAlloc(f))>>)
       \/ At(t, "seek_data")
          /\ Return(t, NextData(FlushedAlloc(f), FlushedSize(f), Step(t).at))
       \/ At(t, "seek_hole")
          /\ Return(t, NextHole(FlushedAlloc(f), FlushedSize(f), Step(t).at))
    /\ Flush(f)
    /\ UNCHANGED directory

ServerFile(t) == LET f == Step(t).f IN
    /\ \/ At(t, "sread") /\ Return(t, Window(data[f], ssize[f], Step(t).at, Step(t).n))
       \/ At(t, "ssize") /\ f \in names /\ Return(t, <<ssize[f]>>)
    /\ UNCHANGED <<directory, client, server>>

\* copy_file_range() is a COPY on the server between two flushed files.
CopyFile(t) ==
    LET f == Step(t).f
        g == Step(t).g
        v == Window(FlushedData(f), FlushedSize(f), Step(t).at, Step(t).n)
        C == Extent(Step(t).to, Len(v))
        s == IF v = <<>> THEN csize[g] ELSE Larger(csize[g], Step(t).to + Len(v))
        d == IF v = <<>> THEN FlushedSize(g) ELSE Larger(FlushedSize(g), Step(t).to + Len(v))
    IN  /\ At(t, "copy")
        /\ Return(t, <<Len(v)>>)
        /\ csize' = [csize EXCEPT ![g] = s]
        /\ page' = [page EXCEPT ![g] = Without(@, C \cup PastEnd(g, s))]
        /\ dirty' = [dirty EXCEPT ![f] = {}, ![g] = {}]
        /\ ssize' = [ssize EXCEPT ![f] = FlushedSize(f), ![g] = d]
        /\ data' = [data EXCEPT ![f] = FlushedData(f),
                                ![g] = Overwrite(FlushedData(g), Step(t).to, v)]
        /\ alloc' = [alloc EXCEPT ![f] = FlushedAlloc(f), ![g] = FlushedAlloc(g) \cup C]
        /\ UNCHANGED directory

-------------------------------------------------------------------------------
(* The client on its own. *)
\* Defect: one cell is written and all of them are marked clean.
FaultyWriteback(f) == \E c \in dirty[f] :
    /\ SetClient(f, csize[f], page[f], {})
    /\ SetServer(f, Larger(ssize[f], c + 1),
                 [data[f] EXCEPT ![c] = page[f][c]], alloc[f] \cup {c})
    /\ UNCHANGED <<control, directory>>

Writeback(f) == \E c \in dirty[f] :
    /\ SetClient(f, csize[f], page[f], dirty[f] \ {c})
    /\ SetServer(f, Larger(ssize[f], c + 1),
                 [data[f] EXCEPT ![c] = page[f][c]], alloc[f] \cup {c})
    /\ UNCHANGED <<control, directory>>

Reclaim(f) ==
    /\ \E c \in Cells \ dirty[f] : page[f][c] # Absent
    /\ SetClient(f, csize[f], Without(page[f], Cells \ dirty[f]), dirty[f])
    /\ UNCHANGED <<control, directory, server>>

FileStep(t) ==
    \/ OpenFile(t) \/ CloseFile(t) \/ UnlinkFile(t) \/ RenameFile(t) \/ MissingFile(t)
    \/ WriteFile(t) \/ RefuseFile(t) \/ TakeFile(t) \/ StoreFile(t) \/ DirectWrite(t)
    \/ TruncFile(t) \/ AllocFile(t) \/ PunchFile(t) \/ SyncFile(t)
    \/ ReadFile(t) \/ DirectRead(t) \/ AskFile(t) \/ ServerFile(t) \/ CopyFile(t)

ThreadStep(t) ==
    \/ FileStep(t)
    \/ (DirStep(t) \/ ControlStep(t)) /\ UNCHANGED <<client, server>>

Next ==
    \/ \E t \in Threads : ThreadStep(t)
    \/ DelayedFput /\ UNCHANGED <<client, server>>
    \/ \E f \in Files : Writeback(f) \/ Reclaim(f)
    \/ Done /\ UNCHANGED vars

Spec == Init /\ [][Next]_vars

\* Threads run when they can; nothing else need ever happen, and a kthread on
\* the stack of a case that an assertion has left may die.
FairSpec == Spec /\ \A t \in Threads : WF_vars(ThreadStep(t) /\ (t = 1 \/ left = 0))

-------------------------------------------------------------------------------
\* The types of the variables.
TypeOK ==
    /\ pc \in [Threads -> Nat] /\ left \in Nat
    /\ mark \in [Threads -> 0 .. Limit]
    /\ <<stop, failed, starved, dir, silly>> \in BOOLEAN \X BOOLEAN \X BOOLEAN \X BOOLEAN \X BOOLEAN
    /\ entered \subseteq Threads
    /\ names \subseteq Files
    /\ open \in [Files -> Nat]
    /\ fputs \subseteq Files
    /\ csize \in [Files -> 0 .. Limit]
    /\ ssize \in [Files -> 0 .. Limit]
    /\ page \in [Files -> [Cells -> Int]]
    /\ data \in [Files -> [Cells -> Int]]
    /\ dirty \in [Files -> SUBSET Cells]
    /\ alloc \in [Files -> SUBSET Cells]

\* Whatever the timing of writeback, reclaim, delayed fputs and the other
\* threads, no expectation or assertion of a port fails on this client
\* (the KUNIT_EXPECT_*, KUNIT_ASSERT_* and KUNIT_FAIL of the generic/NNN.c).
ExpectationsHold == ~failed

\* A cached cell the client believes clean is what the server holds, and the
\* two sizes differ only by dirty cells: the ports compare the client's path
\* with the server's and rely on the flushes in between.
CacheCoherent == \A f \in Files :
    /\ ssize[f] <= csize[f]
    /\ dirty[f] \subseteq Extent(0, csize[f])
    /\ ssize[f] < csize[f] => csize[f] - 1 \in dirty[f]
    /\ \A c \in Extent(0, csize[f]) \ dirty[f] : page[f][c] \in {Absent, data[f][c]}
    /\ \A c \in Extent(ssize[f], Limit) : data[f][c] = 0

\* The case started thread t and a failed assertion left it before the wait
\* for t.
Unjoined(t) ==
    /\ left # 0
    /\ \E k \in 1 .. left - 1 : Code(1)[k].op = "start" /\ Code(1)[k].n = t
    /\ \A j \in Waits(Code(1), t) : left <= j

\* The kthreads of a port use structures on the case's stack: one outlives the
\* frame only if an assertion failed between its kthread_run() and its
\* wait_for_completion().
WorkersJoined == Done =>
    \A t \in Threads : pc[t] = 0 \/ Ended(t) \/ (Unjoined(t) /\ Code(1)[left].fatal)

\* A port that removes its directory with xfs_rmdir_settled() leaves nothing
\* behind, however late its fputs are: the next case's mkdir has to succeed.
\* A failed assertion leaves at most the entries of files it kept from being
\* closed, as long as no kthread outlives it.
DirectoryRemoved ==
    Done /\ Settles(Code(1)) /\ (\A t \in Threads : ~Unjoined(t)) =>
      names = {} /\ (dir => left # 0 /\ \E f \in Files : open[f] > 0)

\* Every case ends: no wait_for_completion() and no polling loop hangs.
CaseEnds == <>Done

\* The file without the cache: what reads see, what the server will have, and
\* the files that it has.
Content == [f \in Files |-> View(f)]
Filled == [f \in Files |-> alloc[f] \cup dirty[f]]
CleanFiles == {f \in Files : dirty[f] = {}}
Posix == INSTANCE PosixFile WITH
    size <- csize, content <- Content, filled <- Filled, synced <- CleanFiles

\* The cached mount behaves as a file without a cache would, and a call that
\* syncs makes the server agree.
ImplementsPosix == Posix!Spec

\* 364.c "no fsync ever ran" and its like: a loop that races another thread
\* was entered at least once.
LoopsEntered == ~starved
===============================================================================
