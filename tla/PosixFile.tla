------------------------------ MODULE PosixFile -------------------------------
(***************************************************************************)
(* What the ports are entitled to: files without a cache.  Every call of a *)
(* case takes effect at once, on one copy of the file; a call that syncs   *)
(* makes that copy what the server's own path (XFS_EXPORT) shows, and      *)
(* between a write and the next sync the server may show anything.  What   *)
(* a mapping stores past the end of a file it shows again, until the page  *)
(* goes or the file grows over it.                                         *)
(***************************************************************************)
EXTENDS Port

VARIABLES
    size,       \* size[f]
    content,    \* content[f][c], past the end what a mapping shows there
    filled,     \* cells that hold data or are allocated
    synced      \* files of which the server has everything

file == <<size, content, filled>>
vars == <<control, directory, file, synced>>

Init ==
    /\ PortInit
    /\ size = [f \in Files |-> 0]
    /\ content = [f \in Files |-> Zeros]
    /\ filled = [f \in Files |-> {}]
    /\ synced = Files

SetFile(f, s, c, a) ==
    /\ size' = [size EXCEPT ![f] = s]
    /\ content' = [content EXCEPT ![f] = c]
    /\ filled' = [filled EXCEPT ![f] = a]

Synced(f) == synced' = synced \cup {f}

\* The cells when the size becomes s: a file grows by zeroes.
Grown(f, s) == Erase(content[f], Extent(size[f], s - size[f]))
\* The cells without what a mapping stored past the end.
Trimmed(f) == Erase(content[f], Extent(size[f], Limit))

OpenFile(t) == LET f == Step(t).f IN
    \/ /\ At(t, "creat") \/ ((At(t, "open_creat") \/ At(t, "excl")) /\ f \notin names)
       /\ ~DirGone
       /\ Return(t, OK) /\ OpenOne(f)
       /\ SetFile(f, 0, Zeros, {}) /\ Synced(f)
    \/ /\ At(t, "open") \/ At(t, "open_creat")
       /\ f \in names
       /\ Return(t, OK) /\ OpenOne(f)
       /\ UNCHANGED <<file, synced>>
    \/ /\ At(t, "excl") /\ f \in names
       /\ Return(t, EEXIST)
       /\ UNCHANGED <<directory, file, synced>>

CloseFile(t) == LET f == Step(t).f IN
    /\ At(t, "close") \/ At(t, "close_ro")
    /\ Return(t, OK) /\ CloseOne(f)
    /\ IF At(t, "close") THEN Synced(f) ELSE UNCHANGED synced
    /\ UNCHANGED file

UnlinkFile(t) == LET f == Step(t).f IN
    /\ At(t, "unlink")
    /\ open[f] = 0 \/ left # 0
    /\ Return(t, IF f \in names THEN OK ELSE ENOENT)
    /\ IF f \in names THEN DropName(f) ELSE UNCHANGED directory
    /\ UNCHANGED <<file, synced>>

RenameFile(t) == LET f == Step(t).f g == Step(t).g IN
    /\ At(t, "rename")
    /\ f \in names /\ open[f] = 0 /\ open[g] = 0
    /\ Return(t, OK) /\ MoveName(f, g)
    /\ size' = [size EXCEPT ![g] = size[f], ![f] = 0]
    /\ content' = [content EXCEPT ![g] = content[f], ![f] = Zeros]
    /\ filled' = [filled EXCEPT ![g] = filled[f], ![f] = {}]
    /\ synced' = (IF f \in synced THEN synced \cup {g} ELSE synced \ {g}) \cup {f}

\* A path call on a name that is not there.
MissingFile(t) ==
    /\ At(t, "open") \/ At(t, "trunc") \/ At(t, "size") \/ At(t, "ssize") \/ At(t, "read_range")
       \/ At(t, "blocks") \/ At(t, "rename")
       \/ ((At(t, "creat") \/ At(t, "open_creat") \/ At(t, "excl")) /\ DirGone)
    /\ Step(t).f \notin names
    /\ Return(t, ENOENT)
    /\ UNCHANGED <<directory, file, synced>>

WriteFile(t) ==
    LET f == Step(t).f
        v == Step(t).val
        at == Offset(t, size[f])
        s == IF v = <<>> THEN size[f] ELSE Larger(size[f], at + Len(v))
    IN  /\ At(t, "write") \/ At(t, "append") \/ At(t, "write_taken") \/ At(t, "dwrite")
        /\ at + Len(v) <= Limit
        /\ Return(t, OK)
        /\ SetFile(f, s, Overwrite(Grown(f, s), at, v), filled[f] \cup Extent(at, Len(v)))
        /\ IF At(t, "dwrite") THEN Synced(f)
           ELSE synced' = IF v = <<>> THEN synced ELSE synced \ {f}
        /\ UNCHANGED directory

\* A write or a truncation past the largest file, and a copy the VFS turns down.
RefuseFile(t) ==
    /\ \/ At(t, "write") /\ Step(t).at + Len(Step(t).val) > Limit /\ Return(t, EFBIG)
       \/ At(t, "trunc") /\ Step(t).f \in names /\ Step(t).n > Limit /\ Return(t, EFBIG)
       \/ At(t, "refused") /\ Return(t, Step(t).val)
    /\ UNCHANGED <<directory, file, synced>>

TakeFile(t) ==
    /\ At(t, "take_size")
    /\ Take(t, size[Step(t).f])
    /\ UNCHANGED <<directory, file, synced>>

\* A store through a mapping never extends the file: past the end it only
\* shows in the mapping.
StoreFile(t) ==
    LET f == Step(t).f
        v == Step(t).val
        C == Extent(Step(t).at, Len(v)) \cap Extent(0, size[f])
    IN  /\ At(t, "mwrite")
        /\ Return(t, OK)
        /\ SetFile(f, size[f], Overwrite(content[f], Step(t).at, v), filled[f] \cup C)
        /\ synced' = IF C = {} THEN synced ELSE synced \ {f}
        /\ UNCHANGED directory

TruncFile(t) == LET f == Step(t).f n == Step(t).n IN
    /\ At(t, "trunc")
    /\ f \in names /\ n <= Limit
    /\ Return(t, OK)
    /\ SetFile(f, n, Erase(content[f], Extent(Smaller(n, size[f]), Limit)),
               filled[f] \cap Extent(0, n))
    /\ Synced(f)
    /\ UNCHANGED directory

AllocFile(t) == LET f == Step(t).f end == Step(t).at + Step(t).n IN
    /\ At(t, "alloc")
    /\ Synced(f)
    /\ UNCHANGED directory
    /\ \/ /\ end <= Limit
          /\ Return(t, OK)
          /\ SetFile(f, Larger(size[f], end), Grown(f, end),
                     filled[f] \cup Extent(Step(t).at, Step(t).n))
       \/ /\ end > Limit
          /\ Return(t, ENOSPC)
          /\ UNCHANGED file

PunchFile(t) == LET f == Step(t).f C == Extent(Step(t).at, Step(t).n) IN
    /\ At(t, "punch")
    /\ Return(t, OK)
    /\ SetFile(f, size[f], Erase(content[f], C), filled[f] \ C)
    /\ Synced(f)
    /\ UNCHANGED directory

SyncFile(t) == LET f == Step(t).f IN
    /\ At(t, "fsync") \/ At(t, "drop") \/ At(t, "kick")
    /\ Return(t, OK)
    /\ IF At(t, "kick") THEN UNCHANGED synced ELSE Synced(f)
    /\ IF At(t, "drop") THEN SetFile(f, size[f], Trimmed(f), filled[f]) ELSE UNCHANGED file
    /\ UNCHANGED directory

ReadFile(t) == LET f == Step(t).f IN
    /\ At(t, "read") \/ (At(t, "read_range") /\ f \in names) \/ At(t, "mread") \/ At(t, "dread")
    /\ Return(t, IF At(t, "mread") THEN Slice(content[f], Step(t).at, Step(t).n)
                 ELSE Window(content[f], size[f], Step(t).at, Step(t).n))
    /\ IF At(t, "read_range")
       THEN fputs' = fputs \cup {f} /\ UNCHANGED <<dir, names, open, silly>>
       ELSE UNCHANGED directory
    /\ IF At(t, "dread") THEN Synced(f) ELSE UNCHANGED synced
    /\ UNCHANGED file

\* The calls answered by the server after a sync: stat and llseek.
AskFile(t) == LET f == Step(t).f IN
    /\ \/ At(t, "size") /\ f \in names /\ Return(t, <<size[f]>>)
       \/ At(t, "blocks") /\ f \in names /\ Return(t, <<Cardinality(filled[f])>>)
       \/ At(t, "seek_data") /\ Return(t, NextData(filled[f], size[f], Step(t).at))
       \/ At(t, "seek_hole") /\ Return(t, NextHole(filled[f], size[f], Step(t).at))
    /\ Synced(f)
    /\ UNCHANGED <<directory, file>>

\* The server's path agrees with the file once it is synced.
ServerFile(t) == LET f == Step(t).f IN
    /\ At(t, "sread") \/ (At(t, "ssize") /\ f \in names)
    /\ IF f \in synced
       THEN Return(t, IF At(t, "ssize") THEN <<size[f]>>
                      ELSE Window(content[f], size[f], Step(t).at, Step(t).n))
       ELSE \E fine \in BOOLEAN : Follow(t, fine)
    /\ UNCHANGED <<directory, file, synced>>

CopyFile(t) ==
    LET f == Step(t).f
        g == Step(t).g
        v == Window(content[f], size[f], Step(t).at, Step(t).n)
        s == IF v = <<>> THEN size[g] ELSE Larger(size[g], Step(t).to + Len(v))
    IN  /\ At(t, "copy")
        /\ Return(t, <<Len(v)>>)
        /\ SetFile(g, s, Overwrite(Grown(g, s), Step(t).to, v),
                   filled[g] \cup Extent(Step(t).to, Len(v)))
        /\ synced' = synced \cup {f, g}
        /\ UNCHANGED directory

\* Writeback catches up.
CatchUp(f) ==
    /\ synced' = synced \cup {f}
    /\ UNCHANGED <<control, directory, file>>

\* The last page is reclaimed.
Reclaim(f) ==
    /\ SetFile(f, size[f], Trimmed(f), filled[f])
    /\ UNCHANGED <<control, directory, synced>>

FileStep(t) ==
    \/ OpenFile(t) \/ CloseFile(t) \/ UnlinkFile(t) \/ RenameFile(t) \/ MissingFile(t)
    \/ WriteFile(t) \/ RefuseFile(t) \/ TakeFile(t) \/ StoreFile(t) \/ TruncFile(t) \/ AllocFile(t) \/ PunchFile(t)
    \/ SyncFile(t) \/ ReadFile(t) \/ AskFile(t) \/ ServerFile(t) \/ CopyFile(t)

Next ==
    \/ \E t \in Threads : FileStep(t)
    \/ \E t \in Threads : (DirStep(t) \/ ControlStep(t)) /\ UNCHANGED <<file, synced>>
    \/ DelayedFput /\ UNCHANGED <<file, synced>>
    \/ \E f \in Files : CatchUp(f) \/ Reclaim(f)

Spec == Init /\ [][Next]_vars
===============================================================================
