------------------------------ MODULE SpacePorts ------------------------------
(***************************************************************************)
(* The ports of xfstests generic/NNN about space in files: allocation,     *)
(* punched holes, SEEK_HOLE and SEEK_DATA, copy_file_range() and offsets   *)
(* at the limit.  Written as in module DataPorts.                          *)
(***************************************************************************)
EXTENDS Calls

\* Cells end at 4096, 6144, 65536, 67584, 69632 and 131072.
Port086 ==
    LET Want == <<0, 1, 0, 2, 3, 0>>
    IN  {<<CaseOf(<<"a">>,
            <<Creat("a"), Write("a", 1, <<1>>), Alloc("a", 0, 6), Size("a", 6),
              Write("a", 3, <<2>>), Fsync("a"), Drop("a"), Write("a", 4, <<3>>),
              ReadRange("a", 0, Want), Close("a"), SRead("a", 0, Want)>>)>>}

\* Two chunks, two rounds.
Port124 ==
    LET Round(server) ==
            <<Creat("a"), Alloc("a", 0, 2), Write("a", 0, <<1>>), Write("a", 1, <<2>>), Close("a")>>
            \o OpenedRO("a", <<Read("a", 0, <<1>>), Read("a", 1, <<2>>)>>)
            \o server \o <<Unlink("a")>>
    IN  {<<CaseOf(<<"a">>, Round(<<>>) \o Round(<<SRead("a", 0, <<1, 2>>)>>))>>}

\* Cells end at 100, UNIT, 2 UNIT, 2 UNIT + 1M and 3 UNIT.
Port213 ==
    LET Round(allocs, size, n) ==
            <<TryUnlink("a"), Creat("a")>> \o allocs
            \o <<Size("a", size), Trunc("a", n), Size("a", n), Close("a"), TryUnlink("a")>>
    IN  {<<CaseOf(<<"a">>,
              Round(<<Alloc("a", 0, 2)>>, 2, 1) \o Round(<<Alloc("a", 0, 2)>>, 2, 2)
              \o Round(<<Alloc("a", 0, 2)>>, 2, 3)
              \o Round(<<Alloc("a", 0, 2), Alloc("a", 3, 1)>>, 4, 5))
           \o CaseOf(<<"a">>,
              <<TryUnlink("a"), Creat("a"), NoSpace("a", 0, Limit + 1),
                SizeAny("a", {<<n>> : n \in 0 .. Limit}), Close("a"), TryUnlink("a")>>)>>}

\* The first three cases of 214.  Cells end at 4096; 1, 512 or 256, 257, 512 or
\* 511, 512; 0x12000, 0x16000, 0x22000 and 0x65c00.
Written214 ==
    LET OneByte(f, n, at) ==
            <<Creat(f), Alloc(f, 0, n), Write(f, at, <<1>>), Close(f)>>
            \o CellByCell(f, 0, [i \in 1 .. n |-> IF i = at + 1 THEN 1 ELSE 0])
    IN  CaseOf(<<"a">>, <<Creat("a"), Alloc("a", 0, 1), Close("a"), ReadRange("a", 0, <<0>>)>>)
        \o CaseOf(<<"a", "b", "c">>,
              OneByte("a", 2, 0) \o OneByte("b", 3, 1) \o OneByte("c", 2, 1))
        \o CaseOf(<<"a">>,
              <<Creat("a"), Alloc("a", 0, 4), Write("a", 1, <<1, 1>>), Fsync("a"),
                Trunc("a", 2), Close("a")>>
              \o OpenedRO("a", <<DRead("a", 0, <<0, 1>>)>>))

\* The last two.  Cells end at 16384; 285771, 363489, 551917, 593099, 917633,
\* 1136718, 1240833 and 1309863.
Scattered214 ==
    CaseOf(<<"a">>, <<Creat("a"), Write("a", 0, <<1>>), Alloc("a", 0, 1), Fsync("a"), Close("a"),
                      Size("a", 1), ReadRange("a", 0, <<1>>)>>)
    \o CaseOf(<<"a">>,
          <<Creat("a"), Fsync("a"), Write("a", 3, <<1>>), Alloc("a", 5, 3), Write("a", 1, <<1>>),
            Write("a", 6, <<1>>), Fsync("a"), Close("a"), ReadRange("a", 1, <<1>>),
            ReadRange("a", 3, <<1>>), ReadRange("a", 6, <<1>>), ReadRange("a", 2, <<0>>),
            ReadRange("a", 5, <<0>>)>>)

\* 214: the set-up and the comparison shared by its cases.
Port214 == {<<Written214 \o Scattered214>>}

\* Cells end at 65536, 69632, 131071 and 131072.
Port285 ==
    {<<HastyCaseOf(<<"a", "b">>,
        WriteNewFile("b", <<>>)
        \o OpenedRO("b", <<SeekData("b", 0, ENXIO), SeekHole("b", 0, ENXIO)>>)
        \o <<Creat("a"), Write("a", 1, <<1>>), Trunc("a", 4), Fsync("a"),
             SeekData("a", 0, <<1>>), SeekHole("a", 0, <<0>>), SeekHole("a", 1, <<2>>),
             SeekData("a", 2, ENXIO), SeekHole("a", 3, <<3>>), SeekData("a", 4, ENXIO),
             SeekHole("a", 4, ENXIO), Close("a")>>)>>}

\* Cells end at 8k, 100k, 108k, 200k, 208k and 256k.
Port286 ==
    LET Island(pos, data, v) == <<SeekData("a", pos, <<data>>), SeekHole("a", data, <<data + 1>>),
                                  Read("a", data, <<v>>), Write("b", data, <<v>>)>>
        Want == <<1, 0, 2, 0, 3, 0>>
    IN  {<<HastyCaseOf(<<"a", "b">>,
            <<Creat("a"), Write("a", 0, <<1>>), Write("a", 2, <<2>>), Write("a", 4, <<3>>),
              Trunc("a", 6), Fsync("a"), Creat("b")>>
            \o Island(0, 0, 1) \o Island(1, 2, 2) \o Island(3, 4, 3)
            \o <<SeekData("a", 5, ENXIO), Trunc("b", 6), Close("a"), Close("b"),
                 ReadRange("a", 0, Want), ReadRange("b", 0, Want)>>)>>}

\* The block at the maximum offset is the last the export holds, or the first
\* it does not. An export that refuses both blocks is not among them: the
\* size that line 135 expects after a refusal is that of the first block written.
Port308 ==
    LET Block(at, v) == <<Write("a", at, <<v>>), Fsync("a"), Read("a", at, <<v>>)>>
        Program(writes, size) ==
            HastyCaseOf(<<"a">>, <<Creat("a")>> \o writes \o <<Size("a", size), Close("a")>>)
    IN  {<<Program(Block(Limit - 2, 1) \o Block(Limit - 1, 2), Limit)>>,
         <<Program(Block(Limit - 1, 1)
                   \o <<[Write("a", Limit, <<2>>) EXCEPT !.want = {EFBIG}]>>, Limit)>>}

\* RLIMIT_FSIZE is the largest file; "a" is cut below, "b" at and "c" above it.
Port394 ==
    {<<CaseOf(<<"c", "b", "a">>,
        WriteNewFile("a", <<>>) \o WriteNewFile("b", <<>>) \o WriteNewFile("c", <<>>)
        \o <<Trunc("a", Limit - 1), Trunc("b", Limit),
             [Trunc("c", Limit + 1) EXCEPT !.want = {EFBIG}], Size("b", Limit), Size("c", 0)>>)>>}

\* Cells end at 2048 and 4096.
Port420 ==
    {<<CaseOf(<<"a">>, WriteNewFile("a", <<1>>) \o Opened("a", <<Punch("a", 1, 1)>>)
                       \o <<Size("a", 1), SSize("a", 1)>>)>>}

\* One cell per run of 1000 bytes.  One name stands for the port's copies.
Port430 ==
    LET CopyOf(at, to, n, r, want) == CopyInto("a", at, Creat("b"), to, n, r) \o want
    IN  {<<CaseOf(<<"b", "a">>,
            <<Creat("a")>> \o [i \in 1 .. 5 |-> Write("a", i - 1, <<i>>)]
            \o <<Fsync("a"), Close("a")>>
            \o CopyOf(0, 0, 5, 5, <<ReadRange("b", 0, <<1, 2, 3, 4, 5>>)>>)
            \o CopyOf(0, 0, 1, 1, <<ReadRange("b", 0, <<1>>)>>)
            \o CopyOf(1, 0, 3, 3, <<ReadRange("b", 0, <<2, 3, 4>>)>>)
            \o CopyOf(4, 0, 1, 1, <<ReadRange("b", 0, <<5>>)>>)
            \o CopyOf(4, 0, 2, 1, <<ReadRange("b", 0, <<5>>), Size("b", 1)>>)
            \o CopyOf(1, 1, 3, 3, <<ReadRange("b", 0, <<0>>), ReadRange("b", 1, <<2, 3, 4>>)>>))>>}

\* One cell per byte.  One name stands for the port's copies.
Port431 ==
    LET CopyOf(at, to, want) ==
            CopyInto("a", at, Creat("b"), to, 1, IF want = <<>> THEN 0 ELSE 1)
            \o <<Size("b", Len(want))>>
            \o (IF want = <<>> THEN <<>> ELSE <<ReadRange("b", 0, want)>>)
    IN  {<<CaseOf(<<"b", "a">>,
            WriteNewFile("a", <<1, 2, 3, 4, 5>>)
            \o CopyInto("a", 0, Creat("b"), 0, 5, 5) \o <<ReadRange("b", 0, <<1, 2, 3, 4, 5>>)>>
            \o CopyOf(0, 0, <<1>>) \o CopyOf(1, 0, <<2>>) \o CopyOf(2, 0, <<3>>)
            \o CopyOf(3, 0, <<4>>) \o CopyOf(4, 0, <<5>>) \o CopyOf(4, 1, <<0, 5>>)
            \o CopyOf(5, 0, <<>>))>>}

\* Copies between the files of 432 and 433, and what the copy must then hold.
Rearranged(at, to, n) == CopyInto("a", at, OpenCreat("b"), to, n, n)
Holds(v) == <<Size("b", Len(v))>> \o CellByCell("b", 0, v)

\* One cell per run of 1000 bytes.
Port432 ==
    {<<CaseOf(<<"b", "a">>,
        <<Creat("a")>> \o [i \in 1 .. 5 |-> Write("a", i - 1, <<i>>)] \o <<Fsync("a"), Close("a")>>
        \o CopyInto("a", 0, Creat("b"), 0, 5, 5) \o Holds(<<1, 2, 3, 4, 5>>)
        \o Rearranged(4, 0, 1) \o Rearranged(0, 4, 1) \o Holds(<<5, 2, 3, 4, 1>>)
        \o Rearranged(1, 3, 1) \o Rearranged(3, 1, 1) \o Holds(<<5, 4, 3, 2, 1>>)
        \o Rearranged(1, 3, 4) \o Holds(<<5, 4, 3, 2, 3, 4, 5>>))>>}

\* One cell per byte.
Port433 ==
    LET Whole(v) == <<Size("b", Len(v)), ReadRange("b", 0, v)>>
    IN  {<<CaseOf(<<"b", "a">>,
            WriteNewFile("a", <<1, 2, 3, 4, 5>>)
            \o CopyInto("a", 0, Creat("b"), 0, 5, 5) \o Whole(<<1, 2, 3, 4, 5>>)
            \o Rearranged(0, 4, 1) \o Rearranged(4, 0, 1) \o Whole(<<5, 2, 3, 4, 1>>)
            \o Rearranged(1, 3, 1) \o Rearranged(3, 1, 1) \o Whole(<<5, 4, 3, 2, 1>>)
            \o Rearranged(1, 3, 4) \o Whole(<<5, 4, 3, 2, 3, 4, 5>>))>>}

\* c is the device node and d the fifo.
Port434 ==
    LET Refused(g, close, err) ==
            <<Open("a"), Open(g), CopyRefused("a", g, err), close, CloseRO("a")>>
    IN  {<<CaseOf(<<"d", "c", "b", "a">>,
            WriteNewFile("a", <<1>>) \o <<Mknod("c"), Mknod("d")>>
            \o CopyInto("a", 1, Creat("b"), 0, 1, 0) \o <<Size("b", 0)>>
            \o Refused("b", CloseRO("b"), EBADF) \o Refused("b", Close("b"), EBADF)
            \o Refused("c", CloseRO("c"), EINVAL) \o Refused("d", CloseRO("d"), EINVAL)
            \o <<Size("b", 0)>>)>>}

\* a: cells end at 50k, 60k, 100k and 150k.  b: at 695k, 1008k, 1068k, 1073k, 1315k,
\* 1515k, 1527k and 1703k.
Port439 ==
    LET Pwrite(f, at, v) == Opened(f, <<Write(f, at, v)>>)
        Fpunch(f, at, n) == <<OpenCreat(f), Punch(f, at, n), Close(f)>>
        A == <<1, 2, 2, 3>>
        B == <<0, 0, 1, 3, 3, 3, 3, 2>>
    IN  {<<CaseOf(<<"a", "b">>,
            WriteNewFile("a", <<>>) \o Pwrite("a", 0, Fill(3, 1)) \o Fpunch("a", 2, 2)
            \o Pwrite("a", 1, Fill(3, 2)) \o Pwrite("a", 3, <<3>>)
            \o Fpunch("b", 1, 5) \o Pwrite("b", 2, Fill(3, 1)) \o Pwrite("b", 4, Fill(4, 2))
            \o Pwrite("b", 3, Fill(4, 3))
            \o <<SSize("a", 4), SRead("a", 0, A), SSize("b", 8), SRead("b", 0, B)>>
            \o OpenedRO("a", <<Drop("a")>>) \o OpenedRO("b", <<Drop("b")>>)
            \o <<Size("a", 4), ReadRange("a", 0, A), Size("b", 8), ReadRange("b", 0, B)>>)>>}

\* One cell; -1 and -2 stand for the negative offsets -1 and LLONG_MIN.
Port448 ==
    {<<CaseOf(<<"a">>,
        <<Creat("a"), SeekHole("a", -1, ENXIO), SeekData("a", -1, ENXIO),
          SeekHole("a", -2, ENXIO), SeekData("a", -2, ENXIO), Write("a", 0, <<0>>),
          SeekData("a", 0, <<0>>), SeekHole("a", 0, <<1>>), Close("a")>>)>>}

\* Cells begin at the offsets the port seeks from, the last one is the data.  The
\* way out for a file the server refuses is not taken.
Port490 ==
    LET Sparse(f, n) == <<Creat(f), Write(f, n, <<1>>)>>
                        \o [i \in 1 .. n - 1 |-> SeekData(f, i, <<n>>)] \o <<Close(f)>>
    IN  {<<CaseOf(<<"b", "a">>, Sparse("a", 4)) \o CaseOf(<<"b", "a">>, Sparse("b", 5))>>}

\* The last cell of the largest file is the byte at 2^63 - 2.
Port525 ==
    {<<CaseOf(<<"b", "a">>,
        WriteNewFile("a", <<>>)
        \o <<Trunc("a", Limit), Size("a", Limit), Creat("b"), Write("b", Limit - 1, <<1>>),
             Fsync("b"), Drop("b"), Read("b", Limit - 1, <<1>>), Close("b"), Size("b", Limit),
             SRead("b", Limit - 1, <<1>>)>>)>>}

\* One cell per allocation unit, which a round of the probe below it and one at it
\* find.
Port539 ==
    LET Probe(at) == <<Trunc("a", 0), Write("a", at, <<1>>), SeekData("a", 0, <<at>>)>>
    IN  {<<CaseOf(<<"a">>,
            <<Creat("a"), SizeAny("a", {<<0>>})>> \o Probe(0) \o Probe(1)
            \o <<Trunc("a", 0), Write("a", 0, <<1, 1, 1>>), Punch("a", 1, 1),
                 SeekData("a", 0, <<0>>), SeekHole("a", 0, <<1>>), SeekData("a", 1, <<2>>),
                 Close("a")>>)>>}

\* One cell.  a and b are below the two mounts of the one export; each is used
\* through its own mount only, and one directory stands for the two.  That the
\* mounts have superblocks of their own is not modelled.
Port565 ==
    {<<CaseOf(<<"b", "a">>,
        WriteNewFile("a", <<1>>) \o CopyInto("a", 0, OpenCreat("b"), 0, 1, 1)
        \o <<SRead("b", 0, <<1>>), ReadRange("b", 0, <<1>>)>>)>>}

\* Cells end at 2048 (OFF), 10240 (OFF + LEN) and 12288.
Port567 ==
    {<<CaseOf(<<"a">>,
        <<Creat("a"), Write("a", 0, <<1, 1, 1>>), MWrite("a", 1, <<2>>), Punch("a", 1, 1),
          MWrite("a", 1, <<3>>), Close("a"), Size("a", 3)>> \o Both("a", <<1, 3, 1>>))>>}

\* Cells end at the block size less one, at the block size and one byte after it.
\* The blocks after the write are compared with the two before it.
Port568 ==
    {<<CaseOf(<<"a">>,
        <<Creat("a"), Size("a", 0), Alloc("a", 1, 2), Size("a", 3),
          Blocks("a", {<<n>> : n \in 1 .. Limit}), Write("a", 1, <<1, 2>>), Fsync("a"), Close("a"),
          Blocks("a", {<<n>> : n \in 0 .. 2})>>)>>}

\* One cell, sought while it is only in the client's cache and after.
Port706 ==
    {<<CaseOf(<<"a">>,
        <<Creat("a"), Write("a", 0, <<1>>), SeekData("a", 0, <<0>>), Fsync("a"),
          SeekData("a", 0, <<0>>), SeekHole("a", 0, <<1>>), Close("a")>>)>>}
===============================================================================
