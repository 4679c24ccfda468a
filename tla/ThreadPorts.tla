----------------------------- MODULE ThreadPorts ------------------------------
(***************************************************************************)
(* The ports of xfstests generic/NNN whose cases start kthreads.  Each     *)
(* definition is one file kunit/xfstests/generic/NNN.c: the set of its     *)
(* programs, tuples of the code of the case's thread and of the kthreads   *)
(* in the order it starts them (every kthread_run() has a code of its own).*)
(* Cells and values are as in DataPorts; loops whose rounds all do the     *)
(* same are cut to two rounds.  The error a kthread leaves in its          *)
(* structure is expected to be 0 by the case after the join: its steps     *)
(* carry that expectation themselves.  Asserting() has the calls that the  *)
(* case checks with KUNIT_ASSERT_*, kthread_run() among them.              *)
(***************************************************************************)
EXTENDS Calls

AnyOf(n, V) == [1 .. n -> V]

\* One cell per chunk of 64 KiB.  A = 1, B = 2.
Port133 ==
    LET Writer(direct, v) == [i \in 1 .. 2 |-> IF direct THEN DWrite("a", i - 1, <<v>>)
                                               ELSE Write("a", i - 1, <<v>>)]
        Reader(direct) == [i \in 1 .. 2 |-> IF direct THEN DReadAny("a", i - 1, 1, AnyOf(1, {1, 2}))
                                            ELSE ReadAny("a", i - 1, 1, AnyOf(1, {1, 2}))]
        Round(t, readDirect) == Asserting(<<Open("a"), Open("a"), Start(t)>>) \o Reader(readDirect)
                                \o <<Join(t), CloseRO("a"), Close("a")>>
    IN  {<<CaseOf(<<"a">>,
            Asserting(<<Creat("a"), Write("a", 0, <<1>>), Write("a", 1, <<1>>), Fsync("a")>>)
            \o <<Close("a")>>
            \o Round(2, FALSE) \o Round(3, FALSE) \o Round(4, TRUE) \o Round(5, TRUE)),
           Writer(FALSE, 2), Writer(TRUE, 1), Writer(FALSE, 2), Writer(TRUE, 1)>>}

\* One cell per step of 64 KiB, three of them.  The direct writer goes forward
\* and the mapped one backward.
Port247 ==
    LET n == 3
    IN  {<<CaseOf(<<"a">>,
            Asserting(<<Creat("a")>> \o [i \in 1 .. n |-> Write("a", i - 1, <<1>>)]
                      \o <<Fsync("a"), Open("a"), Start(2)>>
                      \o [i \in 1 .. n |-> MWrite("a", n - i, <<2>>)])
            \o <<Join(2), Fsync("a"), Close("a"), Close("a")>>
            \o Asserting([i \in 1 .. n |-> RangeAny("a", i - 1, 1, AnyOf(1, {1, 2}))])),
           [i \in 1 .. n |-> DWrite("a", i - 1, <<1>>)]>>}

\* Two pages of two cells, one for each slot: ID0 = 1 and ID1 = 2.
Marks(i) == <<MRead("a", 2 * i, <<1>>), MRead("a", 2 * i + 1, <<2>>)>>
SlotOne == <<MWrite("a", 1, <<2>>), MWrite("a", 3, <<2>>)>>
MappedMarker == <<MWrite("a", 0, <<1>>), MWrite("a", 2, <<1>>)>>
PwriteMarker == <<Write("a", 0, <<1>>), Write("a", 2, <<1>>)>>

Port340 ==
    LET OneSize(t) == <<TryUnlink("a")>>
                      \o Asserting(<<Creat("a"), Trunc("a", 4), Start(t)>> \o SlotOne)
                      \o <<Join(t)>> \o Asserting(Marks(0) \o Marks(1)) \o <<Close("a")>>
                      \o Asserting(<<SRead("a", 0, <<1, 2>>), SRead("a", 2, <<1, 2>>)>>)
    IN  {<<CaseOf(<<"a">>, OneSize(2) \o OneSize(3)), MappedMarker, MappedMarker>>}

\* The first half of every page is read, and is zero, before the marks.
Port344 ==
    LET Round(t) == <<TryUnlink("a")>>
                    \o Asserting(<<Creat("a"), Trunc("a", 4), MRead("a", 0, <<0>>),
                                   MRead("a", 2, <<0>>), Start(t)>> \o SlotOne)
                    \o <<Join(t)>> \o Asserting(Marks(0) \o Marks(1)) \o <<Close("a")>>
    IN  {<<CaseOf(<<"a">>, Round(2) \o Round(3)), MappedMarker, PwriteMarker>>}

Port346 ==
    LET OneSize(t) == <<TryUnlink("a")>>
                      \o Asserting(<<Creat("a"), Trunc("a", 4), Start(t)>> \o SlotOne)
                      \o <<Join(t)>> \o Asserting(Marks(0) \o Marks(1)) \o <<Close("a")>>
                      \o Asserting(<<SRead("a", 0, <<1, 2>>), SRead("a", 2, <<1, 2>>)>>)
    IN  {<<CaseOf(<<"a">>, OneSize(2) \o OneSize(3)), PwriteMarker, PwriteMarker>>}

\* One cell per chunk of 4 KiB, three of them.
Port364 ==
    LET n == 3
    IN  {<<CaseOf(<<"a">>,
            Asserting(<<Creat("a"), Start(2)>>) \o WhileRuns(2, Asserting(<<Fsync("a")>>))
            \o <<Join(2), Entered(1), Fsync("a"), Close("a")>>
            \o Asserting([i \in 1 .. n |-> SRead("a", i - 1, <<1>>)])),
           [i \in 1 .. n |-> DWrite("a", i - 1, <<1>>)]>>}

\* Three extents of two cells.  Both readers go backward.
Port391 ==
    LET n == 3
        ReadHalves(start) == [i \in 1 .. n |-> DRead("a", 2 * (n - i) + start, <<0>>)]
    IN  {<<CaseOf(<<"a">>,
            Asserting(<<Creat("a")>> \o [i \in 1 .. n |-> Alloc("a", 2 * (i - 1), 2)]
                      \o <<Fsync("a"), Drop("a")>>)
            \o <<Close("a")>> \o Asserting(<<Open("a"), Start(2)>>)
            \o ReadHalves(1) \o <<Join(2), CloseRO("a")>>),
           ReadHalves(0)>>}

\* One cell per byte, three of them.
Port438 ==
    LET Byte(i) == <<Alloc("a", i, 1), MWrite("a", i, <<1>>), MRead("a", i, <<1>>)>>
    IN  {<<CaseOf(<<"a">>,
            Asserting(<<Creat("a"), Open("a"), Start(2)>> \o Byte(0) \o Byte(1) \o Byte(2))
            \o <<Stop, Join(2), Entered(2)>> \o Asserting(<<MRead("a", 0, <<1, 1, 1>>)>>)
            \o <<Fsync("a"), Close("a"), Close("a")>> \o Asserting(<<SRead("a", 0, <<1, 1, 1>>)>>)),
           WhileGo(<<Fsync("a")>>)>>}

\* Cells end at 64 KiB, 128 KiB (filesz) and 256 KiB.  The reader looks only at
\* the length it gets.  When kthread_run() fails the file is closed before the
\* assertion.
Port446 ==
    LET DirectRead1 == DReadAny("a", 0, 2, AnyOf(2, {0, 1}))
        Prepare == Asserting(<<Creat("a")>>) \o <<Write("a", 0, <<>>), Close("a")>>
                   \o Asserting(<<Trunc("a", 3), Open("a")>>)
    IN  {<<CaseOf(<<"a">>, Prepare \o <<CloseRO("a")>>)>>,
         <<CaseOf(<<"a">>,
            Prepare \o <<Start(2)>>
            \o WhileRuns(2, Opened("a", <<MWrite("a", 0, <<1>>), MWrite("a", 1, <<1>>)>>)
                            \o Opened("a", <<Punch("a", 0, 2)>>))
            \o <<Join(2), CloseRO("a")>>),
           <<DirectRead1, DirectRead1>>>>}

\* A block of 64 KiB is two cells and a page one.  Two of the four workers, with
\* two and one rounds, on one of the eight files; which of the three operations
\* a round does is drawn at random.
Port464 ==
    LET Rewrite == <<Write("a", 0, <<1, 1>>)>>
        AppendPage == <<TakeSize("a"), WriteTaken("a", <<1>>)>>
        StartWriteback == <<Kick("a")>>
        Round(op) == <<OpenCreat("a")>> \o op \o <<Close("a")>>
        Ops == {Rewrite, AppendPage, StartWriteback}
    IN  {<<CaseOf(<<"a">>,
            Asserting(<<Start(2), Start(3)>>) \o <<Join(2), Join(3)>>
            \o Asserting(<<SizeAny("a", {<<n>> : n \in 0 .. 5}),
                           RangeAny("a", 0, 5, {Fill(n, 1) : n \in 0 .. 5})>>)),
           Round(o1) \o Round(o2), Round(o3)>> : o1, o2, o3 \in Ops}

\* Cells end two pages before the end, one page before it and at 32 MiB.  The
\* mount is cycled before the check.
Port524 ==
    LET Loop(t) == Asserting(<<OpenCreat("a"), Trunc("a", 0), Trunc("a", 3), Fsync("a"),
                               Write("a", 0, <<1, 1, 1>>), Start(t)>>)
                   \o <<Trunc("a", 2)>> \o Asserting(<<Write("a", 2, <<1>>)>>)
                   \o <<Join(t), Close("a")>>
                   \o Asserting(<<Drop("a"), Size("a", 3), ReadRange("a", 1, <<1, 1>>),
                                  SSize("a", 3), SRead("a", 1, <<1, 1>>)>>)
    IN  {<<CaseOf(<<"a">>, Loop(2) \o Loop(3)), <<Kick("a")>>, <<Kick("a")>>>>}

\* Two splices of one cell each.  The pipe hands its reader, a kthread or the
\* case itself, the bytes of the splice: the reader's check for 'x' is made
\* where the splice reads the file.
Port591 ==
    LET Run(direct) ==
            Asserting(<<Creat("a")>>)
            \o <<IF direct THEN DWrite("a", 0, <<1, 1>>) ELSE Write("a", 0, <<1, 1>>)>>
            \o [i \in 1 .. 2 |-> IF direct THEN DRead("a", i - 1, <<1>>)
                                 ELSE Read("a", i - 1, <<1>>)]
            \o <<Close("a"), Unlink("a"), Settle>>
    IN  {<<CaseOf(<<"a">>, Run(TRUE) \o Run(FALSE) \o Run(TRUE) \o Run(FALSE))>>}

\* One cell; an O_SYNC write is a write and an fsync.
Port615 ==
    LET Twice(calls) == calls \o calls
    IN  {<<CaseOf(<<"a">>,
            Asserting(WriteNewFile("a", <<1>>) \o <<Start(2), Open("a")>>
                      \o Twice(<<Write("a", 0, <<1>>), Fsync("a")>>))
            \o <<Close("a")>>
            \o Asserting(<<Open("a")>> \o Twice(<<DWrite("a", 0, <<1>>)>>))
            \o <<Close("a")>>
            \o <<Stop, Join(2), Entered(2)>>),
           WhileGo(<<Blocks("a", {<<1>>})>>)>>}

\* Two blocks of two cells.  The kthread clears the buffer while the direct
\* write takes it: each cell of it is written as 0xff = 1 or as 0.
Port761 ==
    LET AnyBlock == AnyOf(2, {0, 1})
    IN  {<<CaseOf(<<"a">>,
            Asserting(<<OpenCreat("a")>>)
            \o <<DWrite("a", 0, b1), DWrite("a", 2, b2), Close("a")>>
            \o Asserting(<<RangeAny("a", 0, 4, AnyOf(4, {0, 1}))>>))>> : b1, b2 \in AnyBlock}
===============================================================================
