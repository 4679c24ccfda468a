------------------------------ MODULE DataPorts -------------------------------
(***************************************************************************)
(* The ports of xfstests generic/NNN about file contents: buffered, direct *)
(* and mapped writes, appends and truncation.  Each definition is one file *)
(* kunit/xfstests/generic/NNN.c (or some of its cases): the set of its     *)
(* programs, more than one where the port draws random numbers.  A program *)
(* gives the code of the case's thread, its cases in order, each from its  *)
(* mkdir to its cleanup.  The comment gives the offsets at which the       *)
(* port's cells end; values 1, 2, ... stand for its byte patterns, 0 for   *)
(* zero bytes.  Loops whose rounds all do the same are cut to two rounds,  *)
(* and a verification in chunks is one read.                               *)
(***************************************************************************)
EXTENDS Calls

\* One of the 36 entries: "a" is the file, "b" and "c" the links of its chain and
\* "d" its .last; cells end at 4096 and 4097.  Both directories are one.
WriteFile001 == <<Creat("a"), Write("a", 0, <<1>>), Write("a", 1, <<2>>), Close("a")>>
Copy001(from, to) ==
    <<Open(from), CreatExcl(to), Read(from, 0, <<1>>), Write(to, 0, <<1>>),
      Read(from, 1, <<2>>), Write(to, 1, <<2>>), ReadAny(from, 2, 1, {<<>>}),
      CloseRO(from), Close(to)>>
Verified001(f) == OpenedRO(f, <<Read(f, 0, <<1>>), Read(f, 1, <<2>>), ReadAny(f, 2, 1, {<<>>})>>)
\* A chain of up to two links, renamed and removed.
Chain001(links) ==
    CASE links = 0 -> <<>>
      [] links = 1 -> Copy001("a", "b") \o <<Rename("b", "d")>>
      [] links = 2 -> Copy001("a", "b") \o Copy001("b", "c") \o <<Rename("c", "d"), Unlink("b")>>
Check001(last) == Verified001("a") \o (IF last THEN Verified001("d") ELSE <<>>)
Mkdirs001 == <<[Mkdir EXCEPT !.want = {OK, EEXIST}]>>
RemoveTree001 == <<TryUnlink("a"), TryUnlink("d"), TryUnlink("b"), Rmdir>>
Probe001 == WriteNewFile("a", <<3>>) \o OpenedRO("a", <<Read("a", 0, <<3>>)>>)
            \o <<Unlink("a"), [SSize("a", 0) EXCEPT !.want = {ENOENT}]>>
\* Two iterations for five; how often the first picks the entry is random.
Port001 ==
    {<<Probe001
       \o Mkdirs001 \o WriteFile001 \o Chain001(2) \o Verified001("a") \o Verified001("d")
       \o RemoveTree001
       \o Mkdirs001 \o WriteFile001 \o Chain001(links) \o Check001(links > 0)
       \o Chain001(2) \o Check001(TRUE) \o RemoveTree001>> : links \in 0 .. 2}

\* Two of the 100 names, three random operations, each expected to do what the
\* port's table of existing names says.  The inode numbers it also compares are
\* not modelled.
Create007(table, f) ==
    IF f \in table THEN <<[CreatExcl(f) EXCEPT !.want = {EEXIST}]>>
    ELSE <<CreatExcl(f), Close(f), Size(f, 0)>>
Remove007(table, f) == <<[Unlink(f) EXCEPT !.want = IF f \in table THEN {OK} ELSE {ENOENT}]>>
Lookup007(table, f) == <<IF f \in table THEN Size(f, 0) ELSE Missing(f)>>
Port007 ==
    LET Ops == {"create", "remove", "lookup"} \X {"a", "b"}
        Apply(table, o) == CASE o[1] = "create" -> table \cup {o[2]}
                             [] o[1] = "remove" -> table \ {o[2]}
                             [] o[1] = "lookup" -> table
        Operation(table, o) == CASE o[1] = "create" -> Create007(table, o[2])
                                 [] o[1] = "remove" -> Remove007(table, o[2])
                                 [] o[1] = "lookup" -> Lookup007(table, o[2])
        Program(o1, o2, o3) ==
            LET T1 == Apply({}, o1)
            IN  HastyCaseOf(<<"a", "b">>, Operation({}, o1) \o Operation(T1, o2)
                                          \o Operation(Apply(T1, o2), o3))
    IN  {<<Program(<<op, "a">>, o2, o3)>> : op \in {"create", "remove", "lookup"}, o2, o3 \in Ops}

\* Cells end at 4 KiB, 64 KiB, 128 KiB and 1 MiB.  Two rounds of a write and a
\* truncation at random places.
Port014 ==
    LET Round(w, n) == <<Write("a", w, <<1>>), Trunc("a", n)>>
        Program(w1, n1, w2, n2) ==
            HastyCaseOf(<<"a">>,
                <<Creat("a")>> \o Round(w1, n1) \o Round(w2, n2)
                \o <<Close("a"), Size("a", n2), Trunc("a", 1), Trunc("a", 3),
                     ReadRange("a", 2, <<0>>)>>)
    IN  {<<Program(w1, n1, w2, n2)>> : w1, n1, w2, n2 \in 0 .. 3}

\* Cells end at 2048, 5120 (case 1), 1024, 2048, 5120 (case 2) and 513, 1538,
\* 2047, 5118, 5121 (case 3).  X = 1, Z = 2, W = 3, Y = 4.
Round029(size, z, zlen, down, w, wlen, want) ==
    <<TryUnlink("a"), Creat("a"), Trunc("a", size), Write("a", 0, Fill(size, 1)),
      MWrite("a", z, Fill(zlen, 2)), Trunc("a", down)>>
    \o (IF wlen > 0 THEN <<MWrite("a", w, Fill(wlen, 3))>> ELSE <<>>)
    \o <<Trunc("a", size), MWrite("a", z, Fill(zlen, 4)), Close("a"),
         Size("a", size), SRead("a", 0, want), ReadRange("a", 0, want)>>
Port029 ==
    {<<HastyCaseOf(<<"a">>,
        Round029(2, 1, 1, 1, 0, 0, <<1, 4>>)
        \o Round029(3, 2, 1, 2, 1, 1, <<1, 3, 4>>)
        \o Round029(5, 3, 1, 3, 1, 1, <<1, 3, 1, 4, 0>>))>>}

\* Cells end at 5016k, 5017k (SMALL), 5020k - 1 and 5020k (LARGE).
Scenario030(z) ==
    <<TryUnlink("a"), Creat("a"), Trunc("a", 2), Write("a", 0, <<1, 1>>),
      MWrite("a", 3, <<1>>), Trunc("a", 4), MWrite("a", 2, <<3, 3>>), Trunc("a", 2)>>
    \o (IF z THEN <<MWrite("a", 1, <<2>>)>> ELSE <<>>)
    \o <<Trunc("a", 4), ReadRange("a", 2, <<0, 0>>)>>
    \o (IF z THEN <<ReadRange("a", 1, <<2>>)>> ELSE <<>>)
    \o <<MWrite("a", 2, <<4, 4>>), Close("a"), Size("a", 4),
         SRead("a", 0, IF z THEN <<1, 2>> ELSE <<1, 1>>), SRead("a", 2, <<4, 4>>),
         ReadRange("a", 2, <<4, 4>>)>>
    \o (IF z THEN <<ReadRange("a", 1, <<2>>)>> ELSE <<>>)
Port030 == {<<HastyCaseOf(<<"a">>, Scenario030(FALSE) \o Scenario030(TRUE))>>}

\* One cell per append; three of the 500 appends, the size asked for after the
\* second and at the end.
Port069 ==
    LET Append1(v) == Opened("a", <<AppendTo("a", <<v>>)>>)
    IN  {<<HastyCaseOf(<<"a">>,
            WriteNewFile("a", <<>>) \o Append1(1) \o Append1(2) \o <<Size("a", 2)>>
            \o Append1(3) \o <<Size("a", 3)>> \o CellByCell("a", 0, <<1, 2, 3>>))>>}

\* Two of the four files, of two blocks; two rounds, each of a random file, a
\* block that is written and one that is verified.
Port074 ==
    LET Shadow == [f \in {"a", "b"} |-> <<0, 0>>]
        Written(sh, f, off, v) == [sh EXCEPT ![f][off] = v]
        Round(sh, f, off, voff, v) ==
            Opened(f, <<Write(f, off - 1, <<v>>)>>)
            \o <<ReadRange(f, off - 1, <<v>>),
                 ReadRange(f, voff - 1, <<Written(sh, f, off, v)[f][voff]>>)>>
        Program(f, o1, v1, g, o2, v2) ==
            HastyCaseOf(<<"a", "b">>,
                WriteNewFile("a", <<>>) \o <<Trunc("a", 2)>>
                \o WriteNewFile("b", <<>>) \o <<Trunc("b", 2)>>
                \o Round(Shadow, f, o1, v1, 1)
                \o Round(Written(Shadow, f, o1, 1), g, o2, v2, 2))
    IN  {<<Program("a", o1, v1, g, o2, v2)>> : g \in {"a", "b"}, o1, v1, o2, v2 \in 1 .. 2}

\* A file of at most two cells; a write and two more operations at random, each
\* applied to the shadow too (a pair of a size and cells).
Port075 ==
    LET Places == {p \in (0 .. 1) \X (1 .. 2) : p[1] + p[2] <= 2}
        Ops == ({"write", "punch", "read"} \X Places) \cup ({"trunc"} \X {<<0, 0>>, <<1, 0>>})
        Shadow(size, cells) == [size |-> size,
                                cells |-> [i \in 1 .. 2 |-> IF i <= size THEN cells[i] ELSE 0]]
        In(o, i) == o[2][1] < i /\ i <= o[2][1] + o[2][2]
        Grown(sh, o) == IF sh.size > o[2][1] + o[2][2] THEN sh.size ELSE o[2][1] + o[2][2]
        Apply(sh, o, v) ==
            CASE o[1] = "write" -> Shadow(Grown(sh, o),
                                          [i \in 1 .. 2 |-> IF In(o, i) THEN v ELSE sh.cells[i]])
              [] o[1] = "trunc" -> Shadow(o[2][1], sh.cells)
              [] o[1] = "punch" -> Shadow(sh.size,
                                          [i \in 1 .. 2 |-> IF In(o, i) THEN 0 ELSE sh.cells[i]])
              [] o[1] = "read" -> sh
        Verify(sh, at, n) ==
            IF at >= sh.size THEN <<>>
            ELSE <<Read("a", at, SubSeq(sh.cells, at + 1,
                                        IF at + n > sh.size THEN sh.size ELSE at + n))>>
        Operation(sh, o, v) ==
            CASE o[1] = "write" -> <<Write("a", o[2][1], Fill(o[2][2], v))>>
              [] o[1] = "trunc" -> <<Trunc("a", o[2][1])>>
              [] o[1] = "punch" -> <<Punch("a", o[2][1], o[2][2])>>
              [] o[1] = "read" -> Verify(sh, o[2][1], o[2][2])
        Program(o1, o2, o3) ==
            LET S1 == Apply(Shadow(0, <<0, 0>>), o1, 1)
                S2 == Apply(S1, o2, 2)
                S3 == Apply(S2, o3, 3)
            IN  HastyCaseOf(<<"a">>,
                    <<Creat("a")>> \o Operation(Shadow(0, <<0, 0>>), o1, 1)
                    \o Operation(S1, o2, 2) \o Operation(S2, o3, 3)
                    \o <<Size("a", S3.size)>> \o Verify(S3, 0, S3.size) \o <<Close("a")>>)
    IN  {<<Program(<<"write", p>>, o2, o3)>> : p \in Places, o2, o3 \in Ops}

\* One cell.  The times the port also compares are not modelled.
Port080 ==
    {<<CaseOf(<<"a">>,
        <<Creat("a"), Write("a", 0, <<1>>), Fsync("a"), Size("a", 1), MRead("a", 0, <<1>>),
          MWrite("a", 0, <<2>>), Close("a"), Size("a", 1), SRead("a", 0, <<2>>)>>)>>}

\* Cells end at 1000 and 4096.
Port125 ==
    {<<CaseOf(<<"a">>, <<Creat("a"), Close("a"), OpenCreat("a"), Trunc("a", 1), Close("a"),
                         Unlink("a"), Missing("a")>>)
       \o CaseOf(<<"a">>,
             <<OpenCreat("a"), DWrite("a", 0, <<1, 1>>), Close("a"),
               OpenCreat("a"), Write("a", 0, <<2, 2>>), Trunc("a", 1), Fsync("a"), Close("a"),
               OpenCreat("a"), DReadAny("a", 0, 2, {<<2>>}), DReadAny("a", 0, 2, {<<2>>}),
               Close("a")>>)>>}

\* One cell per block, two iterations of each parameter set: sequential, with a
\* truncation after every block, sequential, and with an open and a close per block.
Port129 ==
    LET Block(i) == <<Write("a", i, <<1>>), Read("a", i, <<1>>)>>
        Loop(trunc) == <<TryUnlink("a"), OpenCreat("a")>> \o Block(0) \o trunc \o Block(1)
                       \o trunc \o <<Close("a")>>
    IN  {<<HastyCaseOf(<<"a">>,
            Loop(<<>>) \o Loop(<<Trunc("a", 0)>>) \o Loop(<<>>)
            \o <<TryUnlink("a"), OpenCreat("a")>> \o Block(0) \o <<Close("a"), OpenCreat("a")>>
            \o Block(1) \o <<Close("a")>>)>>}

\* The cases of 130 with direct I/O.  Cells end at 1, 64k, 128k (zeroing), 5000,
\* 8000, 8192 (the hole), 4000, 4096, 5000, 8000, 8192, 9000, 20480, 24576
\* (coherency) and 64k, 704k.
Direct130 ==
    CaseOf(<<"a">>, <<Creat("a"), DWrite("a", 0, <<1, 1>>), Trunc("a", 1),
                      DWrite("a", 2, <<2>>), Close("a")>> \o CellByCell("a", 0, <<1, 0, 2>>))
    \o CaseOf(<<"a">>, WriteNewFile("a", <<>>)
                       \o <<Trunc("a", 3), ReadRange("a", 1, <<0>>)>>)
    \o CaseOf(<<"a">>,
          <<Creat("a"), Write("a", 4, <<1, 1>>), Write("a", 1, <<2, 2>>), Close("a")>>
          \o Opened("a", <<DWrite("a", 7, <<3>>), DWrite("a", 2, <<4, 4, 4>>)>>)
          \o <<ReadRange("a", 0, <<0>>), ReadRange("a", 1, <<2>>), ReadRange("a", 2, <<4, 4, 4>>),
               ReadRange("a", 5, <<1>>), ReadRange("a", 7, <<3>>)>>)
    \o CaseOf(<<"a">>, <<Creat("a"), DWrite("a", 0, <<1>>), DWrite("a", 1, <<2>>), Close("a")>>
                       \o CellByCell("a", 0, <<1, 2>>))

\* The other cases of 130.  Cells end at 65535, 65537, 128k (the edge), 13, 23
\* (append; the port reads the first byte of the text) and 27, 4090, 4096, 4102
\* (small vector, single bytes).
Buffered130 ==
    LET Round == <<Creat("a"), Size("a", 0), Write("a", 0, <<1>>), Close("a"),
                   ReadRange("a", 0, <<1>>)>>
    IN  CaseOf(<<"a">>,
            <<Creat("a"), Trunc("a", 3), Write("a", 0, <<1, 1, 1>>), Trunc("a", 0),
              Trunc("a", 3), Write("a", 1, <<2>>), Close("a")>>
            \o CellByCell("a", 0, <<0, 2, 0>>))
        \o CaseOf(<<"a">>, Round \o Round)
        \o CaseOf(<<"a">>, WriteNewFile("a", <<1>>) \o Opened("a", <<AppendTo("a", <<2>>)>>)
                           \o CellByCell("a", 0, <<1, 2>>))
        \o CaseOf(<<"a">>,
              WriteNewFile("a", <<1>>) \o <<ReadRange("a", 0, <<1>>)>>
              \o Opened("a", <<Write("a", 2, <<2>>), Write("a", 3, <<3>>)>>)
              \o CellByCell("a", 2, <<2, 3>>) \o <<ReadRange("a", 1, <<0>>)>>)

\* 130: the set-up, the fill and the comparison shared by its eight cases.
Port130 == {<<Direct130 \o Buffered130>>}

\* Two of the eight blocks, two passes, the second one synced.
Port132 ==
    LET Pass(v, w) == <<Write("a", 0, <<v>>), Write("a", 1, <<w>>)>>
        Check(v, w) == <<Read("a", 0, <<v>>), Read("a", 1, <<w>>)>>
    IN  {<<HastyCaseOf(<<"a">>,
            <<Creat("a")>> \o Pass(1, 2) \o Check(1, 2) \o Pass(2, 3) \o <<Fsync("a")>>
            \o Check(2, 3) \o <<Close("a")>>)>>}

\* Cells end at 2048 and 4096; the files are the async, the sync, the direct and
\* the truncated one.
Port135 ==
    LET Check(f, v) == OpenedRO(f, <<Drop(f)>>)
                       \o <<Size(f, Len(v)), RangeAny(f, 0, Len(v) + 1, {v}),
                            SReadAny(f, 0, Len(v) + 1, {v})>>
    IN  {<<CaseOf(<<"a", "b", "c", "d">>,
            <<Creat("a"), Write("a", 0, <<1, 1>>), Close("a"),
              Creat("b"), Write("b", 0, <<2, 2>>), Fsync("b"), Close("b"),
              Creat("c"), DWrite("c", 0, <<3, 3>>), Close("c"),
              Creat("d"), Write("d", 0, <<4, 4>>), Close("d"), Trunc("d", 1)>>
            \o Check("a", <<1, 1>>) \o Check("b", <<2, 2>>) \o Check("c", <<3, 3>>)
            \o Check("d", <<4>>))>>}

\* Cells end at 64k (MAPOFF), 96k, 128k (MAPOFF + MAPLEN) and 1M.
Port141 ==
    {<<CaseOf(<<"a">>,
        [i \in 1 .. 5 |-> IF i = 1 THEN Creat("a") ELSE Write("a", i - 2, <<i - 1>>)]
        \o <<Fsync("a"), MRead("a", 2, <<3>>), MRead("a", 1, <<2>>), Close("a")>>)>>}

\* One cell per append of 5 KiB (a) and of five bytes (b).
Port169 ==
    LET Append1(f, v, sync) == Opened(f, <<AppendTo(f, <<v>>)>> \o sync)
        Step5k(n) == Append1("a", 1, <<Fsync("a")>>) \o <<Size("a", n)>>
    IN  {<<HastyCaseOf(<<"a", "b">>,
            WriteNewFile("a", <<>>) \o Step5k(1) \o Step5k(2) \o Step5k(3)
            \o <<Size("a", 3), SSize("a", 3)>>
            \o WriteNewFile("b", <<>>) \o Append1("b", 1, <<Fsync("b")>>) \o Append1("b", 2, <<>>)
            \o <<Size("b", 2), SSize("b", 2), SRead("b", 0, <<1, 2>>)>>)>>}

\* One cell per iovec; the third one is a mapping of the source.
Port246 ==
    {<<CaseOf(<<"b", "a">>,
        WriteNewFile("a", <<3>>) \o <<Open("a"), Creat("b")>>
        \o FromMapping("a", 0, <<3>>, Write("b", 0, <<1, 2, 3>>))
        \o <<Close("b"), CloseRO("a")>> \o Both("b", <<1, 2, 3>>))>>}

\* One cell per byte.
Port248 ==
    {<<CaseOf(<<"a">>,
        <<Creat("a"), Write("a", 0, <<1, 2, 3, 4, 5>>)>>
        \o FromMapping("a", 2, <<3>>, Write("a", 3, <<3>>))
        \o <<Close("a")>> \o Both("a", <<1, 2, 3, 3, 5>>))>>}

\* Two cells; a splice is a read and a write, and may copy less than asked.
Port249 ==
    LET Splice(at, v) == <<Read("a", at, v), Write("b", at, v)>>
        Program(splices) ==
            CaseOf(<<"b", "a">>,
                <<Creat("a"), Write("a", 0, <<1, 1>>), Fsync("a"), Creat("b")>> \o splices
                \o <<Fsync("b"), Close("b"), Close("a"), Size("b", 2)>>
                \o OpenedRO("b", <<Read("b", 0, <<1, 1>>)>>) \o <<SRead("b", 0, <<1, 1>>)>>)
    IN  {<<Program(Splice(0, <<1, 1>>))>>, <<Program(Splice(0, <<1>>) \o Splice(1, <<1>>))>>}

\* Cells end at 40 (WRITTEN) and at the new size, 50 or 4096.
Port393 ==
    LET Round == <<TryUnlink("a"), Creat("a"), Write("a", 0, <<1>>), Fsync("a"), Close("a"),
                   Trunc("a", 0), Trunc("a", 2)>> \o BothSized("a", <<0, 0>>)
    IN  {<<CaseOf(<<"a">>, Round \o Round)>>}

\* Two cells, two of the chunks of one direct write.
Port406 ==
    {<<CaseOf(<<"a">>, <<Creat("a"), DWrite("a", 0, <<1, 2>>), Close("a"), Size("a", 2)>>
                       \o Both("a", <<1, 2>>))>>}

\* Cells end at 32k (CHUNK), 60k (TRUNC), 64k (DIO_OFF) and 96k.
Port412 ==
    {<<CaseOf(<<"a">>,
        <<Creat("a"), Write("a", 0, <<1>>), Close("a")>> \o Opened("a", <<DWrite("a", 3, <<2>>)>>)
        \o <<Trunc("a", 2)>> \o BothSized("a", <<1, 0>>))>>}

\* Cells end at 2M, 2M + 12 and 4M.
Port428 ==
    {<<CaseOf(<<"a">>,
        <<OpenCreat("a"), Trunc("a", 0), Trunc("a", 3), MRead("a", 1, <<0>>),
          Write("a", 1, <<1>>), MRead("a", 1, <<1>>), Close("a")>>)>>}

\* One cell per byte.
Port443 ==
    {<<CaseOf(<<"a">>, <<Creat("a"), Write("a", 0, <<0, 0, 0>>), Close("a"), Size("a", 3),
                         ReadRange("a", 0, <<0, 0, 0>>)>>)>>}

\* Cells end at 512 (SSIZE), 4096 (BSIZE), 7168 (TSIZE), 7680, 8192, 32768 (FAR)
\* and 33280.  The same reads buffered and direct.
Port450 ==
    LET Flavour(R(_, _, _)) ==
            OpenedRO("a", <<R(0, 1, {<<1>>}), R(2, 3, {<<1>>}), R(3, 1, {<<>>}),
                            R(4, 1, {<<>>}), R(6, 1, {<<>>})>>)
        Buffered(at, n, W) == ReadAny("a", at, n, W)
        Direct(at, n, W) == DReadAny("a", at, n, W)
    IN  {<<CaseOf(<<"a">>,
            <<Creat("a"), Write("a", 0, <<1, 1, 1>>), Fsync("a"), Close("a")>>
            \o Flavour(Buffered) \o Flavour(Direct))>>}

\* One cell; the server is asked before the close.
Port609 ==
    {<<CaseOf(<<"a">>, <<Creat("a"), DWrite("a", 0, <<1>>), SRead("a", 0, <<1>>), Close("a")>>)>>}

\* Cells end at 64, 4096, 4160, 8128 (target), 8192 and 8256.
Port638 ==
    {<<CaseOf(<<"a">>,
        WriteNewFile("a", <<>>)
        \o <<Open("a"), Write("a", 0, <<1>>), Write("a", 2, <<1>>), MRead("a", 0, <<1>>)>>
        \o FromMapping("a", 2, <<1>>, Write("a", 4, <<1, 1>>))
        \o <<Close("a"), ReadRange("a", 4, <<1>>), SRead("a", 4, <<1>>),
             ReadRange("a", 5, <<1>>), SRead("a", 5, <<1>>)>>)>>}

\* Cells end at 32 and 64.
Port639 ==
    {<<CaseOf(<<"a">>,
        <<Creat("a"), Write("a", 0, <<1>>), Fsync("a"), Drop("a"), Write("a", 1, <<1>>),
          Fsync("a"), ReadRange("a", 0, <<1, 1>>), Close("a"), SRead("a", 0, <<1, 1>>)>>)>>}

\* One cell per page.  The mapping is private: a read into it makes a page of its
\* own, which then is what was read; a write shows in the page not yet copied.
Port647 ==
    LET Run(v, io) ==
            <<TryUnlink("a"), Creat("a"), DWrite("a", 1, <<v>>), Close("a"), Open("a")>>
            \o io \o <<Fsync("a"), Close("a")>>
    IN  {<<CaseOf(<<"a">>,
            Run(1, <<Read("a", 1, <<1>>)>>) \o Run(2, <<DRead("a", 1, <<2>>)>>)
            \o Run(3, FromMapping("a", 1, <<3>>, Write("a", 0, <<3>>)) \o <<MRead("a", 0, <<3>>)>>)
            \o Run(4, FromMapping("a", 1, <<4>>, DWrite("a", 0, <<4>>)) \o <<MRead("a", 0, <<4>>)>>)
            \o Run(5, <<DRead("a", 0, <<0>>)>>))>>}

\* Cells end at 4096 (the page touched) and 256k; the direct write may be short.
Port708 ==
    LET Program(writes) ==
            CaseOf(<<"b", "a">>,
                <<Creat("a"), Write("a", 0, <<1>>), Write("a", 1, <<2>>), Fsync("a"),
                  MRead("a", 0, <<1>>), Creat("b")>> \o writes
                \o <<Close("b"), Close("a"), Size("b", 2)>> \o Both("b", <<1, 2>>))
    IN  {<<Program(FromMapping("a", 0, <<1, 2>>, DWrite("b", 0, <<1, 2>>)))>>,
         <<Program(FromMapping("a", 0, <<1>>, DWrite("b", 0, <<1>>))
                   \o FromMapping("a", 1, <<2>>, DWrite("b", 1, <<2>>)))>>}

\* One cell per page.
Port729 ==
    {<<CaseOf(<<"a">>,
        <<Creat("a"), DWrite("a", 1, <<1>>), Close("a"), Open("a")>>
        \o FromMapping("a", 1, <<1>>, DWrite("a", 1, <<1>>))
        \o <<Fsync("a"), Close("a"), SRead("a", 1, <<1>>)>>)>>}

\* Cells end at 4000 (LEN) and 4096.  The second case, an access past the last
\* page, does not reach the file and is left out.
Port749 ==
    LET One(size) == <<TryUnlink("a"), Creat("a"), size, Fsync("a"), Drop("a"), Size("a", 1),
                       MRead("a", 1, <<0>>), MWrite("a", 1, <<1>>), Fsync("a"), Close("a"),
                       Size("a", 1), SSize("a", 1)>>
    IN  {<<CaseOf(<<"a">>, One(Trunc("a", 1)) \o One(Alloc("a", 0, 1)))>>}

\* Writes of nothing.
Port763 ==
    {<<CaseOf(<<"a">>,
        <<Creat("a"), Write("a", 0, <<>>), Close("a"), Size("a", 0)>>
        \o Opened("a", <<DWrite("a", 0, <<>>)>>) \o <<SSize("a", 0)>>)>>}
===============================================================================
