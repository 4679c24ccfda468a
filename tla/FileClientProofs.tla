-------------------------- MODULE FileClientProofs --------------------------
(***************************************************************************)
(* Proofs about FileClient, for every set of well-formed programs, every   *)
(* set of files and every largest file: the page cache stays coherent, and *)
(* the cached mount implements files without a cache.                      *)
(*                                                                         *)
(* Both results rest on lemmas about one file, given by the client's size, *)
(* pages and dirty cells (cs, pg, dt) and the server's size and cells (ss, *)
(* da).  A call that syncs works on the file that a flush leaves clean.    *)
(***************************************************************************)
EXTENDS FileClient, SequenceTheorems, TLAPS

Cell == Nat \cup {Absent}

\* One file is coherent: every conjunct of CacheCoherent, and that a dirty
\* cell is cached.
Sound(cs, pg, dt, ss, da) ==
    /\ cs \in 0 .. Limit /\ ss \in 0 .. Limit
    /\ pg \in [Cells -> Cell] /\ da \in [Cells -> Nat]
    /\ dt \subseteq Cells
    /\ ss <= cs
    /\ \A c \in dt : c < cs /\ pg[c] # Absent
    /\ ss < cs => cs - 1 \in dt
    /\ \A c \in Cells : (c < cs /\ c \notin dt) => pg[c] \in {Absent, da[c]}
    /\ \A c \in Cells : ss <= c => da[c] = 0
Clean(cs, pg, da) == Sound(cs, pg, {}, cs, da)

\* What a read of the file sees, and what a flush makes of the server's copy.
Seen(pg, da) == [c \in Cells |-> IF pg[c] = Absent THEN da[c] ELSE pg[c]]
FlushSize(cs, dt, ss) == IF cs - 1 \in dt THEN cs ELSE ss
FlushData(pg, dt, da) == [c \in Cells |-> IF c \in dt THEN pg[c] ELSE da[c]]
\* The cells a file grows by when its size goes from cs to s.
Past(cs, s) == {c \in Cells : cs <= c /\ c < s}
Zeroed(fn, cs, s) == Erase(fn, Extent(cs, s - cs))
\* A string of cells at an offset.
Placed(at, v) == at \in Nat /\ v \in Seq(Nat)
\* A write of v at a cell that makes the size s of cs.
Fits(cs, at, v, s) ==
    /\ at \in Nat /\ v \in Seq(Nat) /\ at + Len(v) <= Limit
    /\ s = IF v = <<>> THEN cs ELSE Larger(cs, at + Len(v))

\* Sizes and cells are integers.
LEMMA CellTypes ==
    /\ Limit \in Nat \ {0} /\ Cells \subseteq Nat /\ Absent \notin Nat
    /\ \A c : c \in Cells <=> c \in Nat /\ c < Limit
BY LimitAssumption DEF Cells, Absent

\* A flush sends the client's size and makes the file clean, and changes
\* nothing that a read sees.
LEMMA FlushSound ==
    ASSUME NEW cs, NEW pg, NEW dt, NEW ss, NEW da, Sound(cs, pg, dt, ss, da)
    PROVE  /\ FlushSize(cs, dt, ss) = cs
           /\ Clean(cs, pg, FlushData(pg, dt, da))
           /\ Seen(pg, FlushData(pg, dt, da)) = Seen(pg, da)
           /\ \A c \in Cells : c < cs => FlushData(pg, dt, da)[c] = Seen(pg, da)[c]
<1> USE CellTypes
<1>1. FlushSize(cs, dt, ss) = cs
  BY DEF Sound, FlushSize
<1>2. FlushData(pg, dt, da) \in [Cells -> Nat]
  BY DEF Sound, FlushData, Cell
<1>3. \A c \in Cells : FlushData(pg, dt, da)[c] = IF c \in dt THEN pg[c] ELSE da[c]
  BY DEF FlushData
<1>4. Clean(cs, pg, FlushData(pg, dt, da))
  <2>1. \A c \in Cells : c < cs => pg[c] \in {Absent, FlushData(pg, dt, da)[c]}
    BY <1>3 DEF Sound
  <2>2. \A c \in Cells : cs <= c => FlushData(pg, dt, da)[c] = 0
    BY <1>3 DEF Sound
  <2> QED
    BY <1>2, <2>1, <2>2 DEF Clean, Sound
<1>5. \A c \in Cells : Seen(pg, FlushData(pg, dt, da))[c] = Seen(pg, da)[c]
  BY <1>3 DEF Sound, Seen
<1>6. Seen(pg, FlushData(pg, dt, da)) = Seen(pg, da)
  BY <1>5 DEF Seen
<1>7. \A c \in Cells : c < cs => FlushData(pg, dt, da)[c] = Seen(pg, da)[c]
  BY <1>3 DEF Sound, Seen
<1> QED
  BY <1>1, <1>4, <1>6, <1>7

\* The cells of an extent, and what writing to one leaves.
LEMMA ExtentCells ==
    ASSUME NEW at \in Int, NEW n \in Int
    PROVE  \A c : c \in Extent(at, n) <=> c \in Cells /\ at <= c /\ c < at + n
BY DEF Extent

\* Writing v at a cell changes the cells under v and no others.
LEMMA Overwritten ==
    ASSUME NEW at \in Nat, NEW v \in Seq(Nat), NEW fn
    PROVE  /\ Len(v) \in Nat
           /\ v = <<>> <=> Len(v) = 0
           /\ \A c \in Cells : Overwrite(fn, at, v)[c] =
                IF at <= c /\ c < at + Len(v) THEN v[c - at + 1] ELSE fn[c]
           /\ \A c \in Cells : at <= c /\ c < at + Len(v) => v[c - at + 1] \in Nat
<1> USE CellTypes
<1>1. Len(v) \in Nat /\ (v = <<>> <=> Len(v) = 0)
  BY EmptySeq
<1>2. \A c : c \in Extent(at, Len(v)) <=> c \in Cells /\ at <= c /\ c < at + Len(v)
  BY <1>1, ExtentCells
<1>3. ASSUME NEW c \in Cells, at <= c /\ c < at + Len(v) PROVE v[c - at + 1] \in Nat
  <2>1. c - at + 1 \in 1 .. Len(v)
    BY <1>1, <1>3
  <2> QED
    BY <2>1, ElementOfSeq
<1> QED
  BY <1>1, <1>2, <1>3 DEF Overwrite

\* A buffered write: the cells it writes are cached and dirty, what the file
\* grows by besides reads as zeroes.
LEMMA WriteSound ==
    ASSUME NEW cs, NEW pg, NEW dt, NEW ss, NEW da, Sound(cs, pg, dt, ss, da),
           NEW at, NEW v, NEW s, Fits(cs, at, v, s)
    PROVE  /\ Sound(s, Overwrite(Without(pg, Past(cs, s)), at, v),
                    dt \cup Extent(at, Len(v)), ss, da)
           /\ Seen(Overwrite(Without(pg, Past(cs, s)), at, v), da)
                = Overwrite(Zeroed(Seen(pg, da), cs, s), at, v)
<1> DEFINE P == Past(cs, s)
           new == Overwrite(Without(pg, P), at, v)
           D == dt \cup Extent(at, Len(v))
<1> USE DEF Fits
<1> USE CellTypes
<1>0. cs \in Nat /\ s \in Nat /\ cs <= s /\ s <= Limit /\ Len(v) \in Nat
  BY Overwritten DEF Sound, Larger
<1>1. \A c : c \in Extent(at, Len(v)) <=> c \in Cells /\ at <= c /\ c < at + Len(v)
  BY <1>0, ExtentCells
<1>2. /\ \A c \in Cells : new[c] = IF at <= c /\ c < at + Len(v) THEN v[c - at + 1]
                                   ELSE IF cs <= c /\ c < s THEN Absent ELSE pg[c]
      /\ \A c \in Cells : at <= c /\ c < at + Len(v) => v[c - at + 1] \in Nat
  <2>1. \A c \in Cells : Without(pg, P)[c] = IF cs <= c /\ c < s THEN Absent ELSE pg[c]
    BY DEF Without, Past
  <2>2. \A c \in Cells : new[c] = IF at <= c /\ c < at + Len(v) THEN v[c - at + 1]
                                  ELSE Without(pg, P)[c]
    BY Overwritten
  <2>3. \A c \in Cells : at <= c /\ c < at + Len(v) => v[c - at + 1] \in Nat
    BY Overwritten
  <2> QED
    BY <2>1, <2>2, <2>3
<1>3. new \in [Cells -> Cell]
  <2>1. \A c \in Cells : new[c] \in Cell
    BY <1>2 DEF Sound, Cell
  <2> QED
    BY <2>1 DEF Overwrite
<1>4. /\ s <= cs \/ s - 1 \in D
      /\ Len(v) > 0 => at + Len(v) <= s
  BY <1>0, <1>1, Overwritten DEF Larger
<1>5. \A c \in D : c < s /\ new[c] # Absent
  <2>1. ASSUME NEW c \in dt PROVE c < s /\ new[c] # Absent
    <3>1. c \in Cells /\ c < cs /\ pg[c] # Absent
      BY DEF Sound
    <3> QED
      BY <1>0, <1>2, <3>1
  <2>2. ASSUME NEW c \in Extent(at, Len(v)) PROVE c < s /\ new[c] # Absent
    <3>1. c \in Cells /\ at <= c /\ c < at + Len(v)
      BY <1>1
    <3>2. c < s
      BY <1>0, <1>4, <3>1
    <3>3. new[c] \in Nat
      BY <1>2, <3>1
    <3> QED
      BY <3>2, <3>3
  <2> QED
    BY <2>1, <2>2
<1>6. \A c \in Cells : (c < s /\ c \notin D) => new[c] \in {Absent, da[c]}
  BY <1>0, <1>1, <1>2 DEF Sound
<1>7. Sound(s, new, D, ss, da)
  <2>1. ss < s => s - 1 \in D
    <3>1. CASE s <= cs
      <4>1. s = cs
        BY <1>0, <3>1
      <4> QED
        BY <4>1 DEF Sound
    <3> QED
      BY <1>4, <3>1
  <2>2. D \subseteq Cells
    BY <1>1 DEF Sound
  <2>3. ss <= s /\ s \in 0 .. Limit
    BY <1>0 DEF Sound
  <2> QED
    BY <1>3, <1>5, <1>6, <2>1, <2>2, <2>3 DEF Sound
<1>8. Seen(new, da) = Overwrite(Erase(Seen(pg, da), Extent(cs, s - cs)), at, v)
  <2> DEFINE old == Erase(Seen(pg, da), Extent(cs, s - cs))
  <2>1. \A c : c \in Extent(cs, s - cs) <=> c \in Cells /\ cs <= c /\ c < s
    BY <1>0, ExtentCells
  <2>2. \A c \in Cells : old[c] = IF cs <= c /\ c < s THEN 0
                                  ELSE IF pg[c] = Absent THEN da[c] ELSE pg[c]
    BY <2>1 DEF Erase, Seen
  <2>3. \A c \in Cells : Overwrite(old, at, v)[c] =
          IF at <= c /\ c < at + Len(v) THEN v[c - at + 1] ELSE old[c]
    BY Overwritten
  <2>4. \A c \in Cells : cs <= c => da[c] = 0
    BY DEF Sound
  <2>5. \A c \in Cells : Seen(new, da)[c] = Overwrite(old, at, v)[c]
    BY <1>2, <2>2, <2>3, <2>4 DEF Seen
  <2> QED
    BY <2>5 DEF Seen, Overwrite
<1> QED
  BY <1>7, <1>8 DEF Zeroed

\* A store through a mapping dirties the cells below the end only.
LEMMA StoreSound ==
    ASSUME NEW cs, NEW pg, NEW dt, NEW ss, NEW da, Sound(cs, pg, dt, ss, da),
           NEW at, NEW v, Placed(at, v)
    PROVE  /\ Sound(cs, Overwrite(pg, at, v),
                    dt \cup (Extent(at, Len(v)) \cap Extent(0, cs)), ss, da)
           /\ Seen(Overwrite(pg, at, v), da) = Overwrite(Seen(pg, da), at, v)
<1> DEFINE new == Overwrite(pg, at, v)
           D == dt \cup (Extent(at, Len(v)) \cap Extent(0, cs))
<1> USE DEF Placed
<1> USE CellTypes
<1>0. cs \in Nat /\ Len(v) \in Nat
  BY Overwritten DEF Sound
<1>1. \A c : c \in D <=> c \in dt \/ (c \in Cells /\ at <= c /\ c < at + Len(v) /\ c < cs)
  <2>1. \A c : c \in Extent(at, Len(v)) <=> c \in Cells /\ at <= c /\ c < at + Len(v)
    BY <1>0, ExtentCells
  <2>2. \A c : c \in Extent(0, cs) <=> c \in Cells /\ c < cs
    BY <1>0, ExtentCells
  <2> QED
    BY <2>1, <2>2
<1>2. /\ \A c \in Cells : new[c] = IF at <= c /\ c < at + Len(v) THEN v[c - at + 1] ELSE pg[c]
      /\ \A c \in Cells : at <= c /\ c < at + Len(v) => v[c - at + 1] \in Nat
  BY Overwritten
<1>3. new \in [Cells -> Cell]
  <2>1. \A c \in Cells : new[c] \in Cell
    BY <1>2 DEF Sound, Cell
  <2> QED
    BY <2>1 DEF Overwrite
<1>4. ASSUME NEW c \in D PROVE c \in Cells /\ c < cs /\ new[c] # Absent
  <2>1. c \in Cells /\ c < cs /\ (c \in dt => pg[c] # Absent)
    BY <1>1 DEF Sound
  <2> QED
    BY <1>1, <1>2, <2>1
<1>5. \A c \in Cells : (c < cs /\ c \notin D) => new[c] \in {Absent, da[c]}
  BY <1>0, <1>1, <1>2 DEF Sound
<1>6. Sound(cs, new, D, ss, da)
  BY <1>3, <1>4, <1>5 DEF Sound
<1>7. Seen(new, da) = Overwrite(Seen(pg, da), at, v)
  <2>1. \A c \in Cells : Overwrite(Seen(pg, da), at, v)[c] =
          IF at <= c /\ c < at + Len(v) THEN v[c - at + 1] ELSE Seen(pg, da)[c]
    BY Overwritten
  <2>2. \A c \in Cells : Seen(new, da)[c] = Overwrite(Seen(pg, da), at, v)[c]
    BY <1>2, <2>1 DEF Seen
  <2> QED
    BY <2>2 DEF Seen, Overwrite
<1> QED
  BY <1>6, <1>7

\* A read caches what it sees.
LEMMA ReadSound ==
    ASSUME NEW cs, NEW pg, NEW dt, NEW ss, NEW da, Sound(cs, pg, dt, ss, da), NEW C
    PROVE  LET new == [c \in Cells |-> IF c \in C THEN Seen(pg, da)[c] ELSE pg[c]]
           IN  /\ Sound(cs, new, dt, ss, da)
               /\ Seen(new, da) = Seen(pg, da)
<1> DEFINE new == [c \in Cells |-> IF c \in C THEN Seen(pg, da)[c] ELSE pg[c]]
<1> USE CellTypes
<1>1. \A c \in Cells : new[c] \in {pg[c], Seen(pg, da)[c]}
  OBVIOUS
<1>2. \A c \in Cells : Seen(pg, da)[c] = IF pg[c] = Absent THEN da[c] ELSE pg[c]
  BY DEF Seen
<1>3. new \in [Cells -> Cell]
  BY <1>1, <1>2 DEF Sound, Cell
<1>4. \A c \in dt : new[c] = pg[c]
  BY <1>1, <1>2 DEF Sound
<1>5. Sound(cs, new, dt, ss, da)
  BY <1>1, <1>2, <1>3, <1>4 DEF Sound
<1>6. \A c \in Cells : Seen(new, da)[c] = Seen(pg, da)[c]
  BY <1>1, <1>2 DEF Seen
<1> QED
  BY <1>5, <1>6 DEF Seen

\* The writeback of one dirty cell.
LEMMA WritebackSound ==
    ASSUME NEW cs, NEW pg, NEW dt, NEW ss, NEW da, Sound(cs, pg, dt, ss, da), NEW c \in dt
    PROVE  LET new == [da EXCEPT ![c] = pg[c]]
           IN  /\ Sound(cs, pg, dt \ {c}, Larger(ss, c + 1), new)
               /\ Seen(pg, new) = Seen(pg, da)
<1> DEFINE new == [da EXCEPT ![c] = pg[c]]
<1> USE CellTypes
<1>1. c \in Cells /\ c < cs /\ pg[c] # Absent /\ pg[c] \in Nat
  BY DEF Sound, Cell
<1>2. new \in [Cells -> Nat] /\ \A d \in Cells : new[d] = IF d = c THEN pg[c] ELSE da[d]
  BY <1>1 DEF Sound
<1>3. Larger(ss, c + 1) \in 0 .. Limit /\ Larger(ss, c + 1) <= cs /\ ss <= Larger(ss, c + 1)
      /\ c < Larger(ss, c + 1)
  BY <1>1 DEF Sound, Larger
<1>4. Larger(ss, c + 1) < cs => cs - 1 \in dt \ {c}
  BY <1>1, <1>3 DEF Sound
<1>5. \A d \in Cells : (d < cs /\ d \notin dt \ {c}) => pg[d] \in {Absent, new[d]}
  BY <1>2 DEF Sound
<1>6. \A d \in Cells : Larger(ss, c + 1) <= d => new[d] = 0
  <2>1. ASSUME NEW d \in Cells, Larger(ss, c + 1) <= d PROVE new[d] = 0
    <3>1. d # c /\ ss <= d
      BY <1>1, <1>3, <2>1 DEF Sound
    <3> QED
      BY <1>2, <3>1 DEF Sound
  <2> QED
    BY <2>1
<1>7. Sound(cs, pg, dt \ {c}, Larger(ss, c + 1), new)
  BY <1>2, <1>3, <1>4, <1>5, <1>6 DEF Sound
<1>8. \A d \in Cells : Seen(pg, new)[d] = Seen(pg, da)[d]
  BY <1>1, <1>2 DEF Seen
<1> QED
  BY <1>7, <1>8 DEF Seen

\* Reclaiming the clean pages takes with it what was stored past the end.
LEMMA ReclaimSound ==
    ASSUME NEW cs, NEW pg, NEW dt, NEW ss, NEW da, Sound(cs, pg, dt, ss, da)
    PROVE  LET new == Without(pg, Cells \ dt)
           IN  /\ Sound(cs, new, dt, ss, da)
               /\ Seen(new, da) = Erase(Seen(pg, da), Extent(cs, Limit))
<1> DEFINE new == Without(pg, Cells \ dt)
<1> USE CellTypes
<1>1. \A c \in Cells : new[c] = IF c \in dt THEN pg[c] ELSE Absent
  BY DEF Without
<1>2. new \in [Cells -> Cell]
  <2>1. \A c \in Cells : new[c] \in Cell
    BY <1>1 DEF Sound, Cell
  <2> QED
    BY <2>1 DEF Without
<1>3. Sound(cs, new, dt, ss, da)
  BY <1>1, <1>2 DEF Sound
<1>4. \A c : c \in Extent(cs, Limit) <=> c \in Cells /\ cs <= c
  <2>1. cs \in Nat /\ Limit \in Nat
    BY DEF Sound
  <2> QED
    BY <2>1, ExtentCells
<1>5. \A c \in Cells : Seen(new, da)[c] = Erase(Seen(pg, da), Extent(cs, Limit))[c]
  <2> SUFFICES ASSUME NEW c \in Cells
               PROVE  Seen(new, da)[c] = Erase(Seen(pg, da), Extent(cs, Limit))[c]
    OBVIOUS
  <2>1. Erase(Seen(pg, da), Extent(cs, Limit))[c] = IF cs <= c THEN 0 ELSE Seen(pg, da)[c]
    BY <1>4 DEF Erase
  <2>2. /\ Seen(new, da)[c] = IF new[c] = Absent THEN da[c] ELSE new[c]
        /\ Seen(pg, da)[c] = IF pg[c] = Absent THEN da[c] ELSE pg[c]
    BY DEF Seen
  <2>3. CASE cs <= c
    <3>1. c \notin dt /\ da[c] = 0
      BY <2>3 DEF Sound
    <3> QED
      BY <1>1, <2>1, <2>2, <2>3, <3>1
  <2>4. CASE ~(cs <= c)
    <3>1. c \notin dt => pg[c] \in {Absent, da[c]}
      BY <2>4 DEF Sound
    <3> QED
      BY <1>1, <2>1, <2>2, <2>4, <3>1
  <2> QED
    BY <2>3, <2>4
<1> QED
  BY <1>3, <1>5 DEF Seen, Erase

(***************************************************************************)
(* The calls that work on a clean file.                                    *)
(***************************************************************************)

\* A direct write or a copy writes the server's cells and drops the cached
\* ones.
LEMMA CleanWrite ==
    ASSUME NEW cs, NEW pg, NEW da, Clean(cs, pg, da),
           NEW at, NEW v, NEW s, Fits(cs, at, v, s)
    PROVE  /\ Clean(s, Without(pg, Extent(at, Len(v)) \cup Past(cs, s)), Overwrite(da, at, v))
           /\ Seen(Without(pg, Extent(at, Len(v)) \cup Past(cs, s)), Overwrite(da, at, v))
                = Overwrite(Zeroed(Seen(pg, da), cs, s), at, v)
<1> DEFINE P == Past(cs, s)
           new == Without(pg, Extent(at, Len(v)) \cup P)
           nda == Overwrite(da, at, v)
<1> USE DEF Fits
<1> USE CellTypes
<1>0. /\ cs \in Nat /\ s \in Nat /\ cs <= s /\ s <= Limit /\ Len(v) \in Nat
      /\ Len(v) > 0 => at + Len(v) <= s
  BY Overwritten DEF Clean, Sound, Larger
<1>1. \A c : c \in Extent(at, Len(v)) <=> c \in Cells /\ at <= c /\ c < at + Len(v)
  BY <1>0, ExtentCells
<1>2. \A c \in Cells : new[c] = IF (at <= c /\ c < at + Len(v)) \/ (cs <= c /\ c < s)
                                THEN Absent ELSE pg[c]
  <2>1. \A c \in Cells : new[c] = IF c \in Extent(at, Len(v)) \cup P THEN Absent ELSE pg[c]
    BY DEF Without
  <2>2. \A c \in Cells : c \in P <=> cs <= c /\ c < s
    BY DEF Past
  <2> HIDE DEF new, P
  <2> QED
    BY <1>1, <2>1, <2>2
<1>3. new \in [Cells -> Cell]
  <2>1. \A c \in Cells : new[c] \in Cell
    BY <1>2 DEF Clean, Sound, Cell
  <2> QED
    BY <2>1 DEF Without
<1>4. /\ \A c \in Cells : nda[c] = IF at <= c /\ c < at + Len(v) THEN v[c - at + 1] ELSE da[c]
      /\ \A c \in Cells : at <= c /\ c < at + Len(v) => v[c - at + 1] \in Nat
  BY Overwritten
<1>5. nda \in [Cells -> Nat]
  <2>1. \A c \in Cells : nda[c] \in Nat
    BY <1>4 DEF Clean, Sound
  <2> QED
    BY <2>1 DEF Overwrite
<1> HIDE DEF P, new, nda
<1>6. \A c \in Cells : c < s => new[c] \in {Absent, nda[c]}
  <2>1. \A c \in Cells : c < cs => pg[c] \in {Absent, da[c]}
    BY DEF Clean, Sound
  <2> QED
    BY <1>0, <1>2, <1>4, <2>1
<1>7. \A c \in Cells : s <= c => nda[c] = 0
  <2>1. ASSUME NEW c \in Cells, s <= c PROVE nda[c] = 0
    <3>1. cs <= c /\ ~(at <= c /\ c < at + Len(v))
      BY <1>0, <2>1
    <3> QED
      BY <1>4, <3>1 DEF Clean, Sound
  <2> QED
    BY <2>1
<1>8. Clean(s, new, nda)
  BY <1>0, <1>3, <1>5, <1>6, <1>7 DEF Clean, Sound
<1>9. Seen(new, nda) = Overwrite(Erase(Seen(pg, da), Extent(cs, s - cs)), at, v)
  <2> DEFINE old == Erase(Seen(pg, da), Extent(cs, s - cs))
  <2>1. \A c : c \in Extent(cs, s - cs) <=> c \in Cells /\ cs <= c /\ c < s
    BY <1>0, ExtentCells
  <2>2. \A c \in Cells : old[c] = IF cs <= c /\ c < s THEN 0
                                  ELSE IF pg[c] = Absent THEN da[c] ELSE pg[c]
    BY <2>1 DEF Erase, Seen
  <2>3. \A c \in Cells : Overwrite(old, at, v)[c] =
          IF at <= c /\ c < at + Len(v) THEN v[c - at + 1] ELSE old[c]
    BY Overwritten
  <2>4. \A c \in Cells : cs <= c => da[c] = 0
    BY DEF Clean, Sound
  <2>5. \A c \in Cells : Seen(new, nda)[c] = IF new[c] = Absent THEN nda[c] ELSE new[c]
    BY DEF Seen
  <2> HIDE DEF old
  <2>6. ASSUME NEW c \in Cells PROVE Seen(new, nda)[c] = Overwrite(old, at, v)[c]
    <3>1. CASE at <= c /\ c < at + Len(v)
      BY <1>2, <1>4, <2>3, <2>5, <3>1
    <3>2. CASE ~(at <= c /\ c < at + Len(v)) /\ cs <= c /\ c < s
      BY <1>2, <1>4, <2>2, <2>3, <2>4, <2>5, <3>2
    <3>3. CASE ~(at <= c /\ c < at + Len(v)) /\ ~(cs <= c /\ c < s)
      BY <1>2, <1>4, <2>2, <2>3, <2>5, <3>3
    <3> QED
      BY <3>1, <3>2, <3>3
  <2> QED
    BY <2>6 DEF Seen, Overwrite, old
<1> QED
  BY <1>8, <1>9 DEF P, new, nda, Zeroed

\* A truncation drops what is cached past the old and the new end.
LEMMA CleanTrunc ==
    ASSUME NEW cs, NEW pg, NEW da, Clean(cs, pg, da), NEW n, n \in 0 .. Limit
    PROVE  /\ Clean(n, Without(pg, Extent(Smaller(n, cs), Limit)), Erase(da, Extent(n, Limit)))
           /\ Seen(Without(pg, Extent(Smaller(n, cs), Limit)), Erase(da, Extent(n, Limit)))
                = Erase(Seen(pg, da), Extent(Smaller(n, cs), Limit))
<1> DEFINE m == Smaller(n, cs)
           new == Without(pg, Extent(m, Limit))
           nda == Erase(da, Extent(n, Limit))
<1> USE CellTypes
<1>0. cs \in Nat /\ m \in Nat /\ m <= n /\ m <= cs /\ m \in {n, cs}
  BY DEF Clean, Sound, Smaller
<1>1. /\ \A c : c \in Extent(m, Limit) <=> c \in Cells /\ m <= c
      /\ \A c : c \in Extent(n, Limit) <=> c \in Cells /\ n <= c
  <2>1. \A c : c \in Extent(m, Limit) <=> c \in Cells /\ m <= c /\ c < m + Limit
    BY <1>0, ExtentCells
  <2>2. \A c : c \in Extent(n, Limit) <=> c \in Cells /\ n <= c /\ c < n + Limit
    BY ExtentCells
  <2> QED
    BY <1>0, <2>1, <2>2
<1>2. \A c \in Cells : new[c] = IF m <= c THEN Absent ELSE pg[c]
  BY <1>1 DEF Without
<1>3. \A c \in Cells : nda[c] = IF n <= c THEN 0 ELSE da[c]
  BY <1>1 DEF Erase
<1> HIDE DEF m
<1>4. new \in [Cells -> Cell] /\ nda \in [Cells -> Nat]
  <2>1. \A c \in Cells : new[c] \in Cell /\ nda[c] \in Nat
    BY <1>2, <1>3 DEF Clean, Sound, Cell
  <2> QED
    BY <2>1 DEF Without, Erase
<1>5. \A c \in Cells : c < n => new[c] \in {Absent, nda[c]}
  BY <1>0, <1>2, <1>3 DEF Clean, Sound
<1>6. Clean(n, new, nda)
  BY <1>3, <1>4, <1>5 DEF Clean, Sound
<1>7. \A c \in Cells : Seen(new, nda)[c] = Erase(Seen(pg, da), Extent(m, Limit))[c]
  <2>1. \A c \in Cells : Erase(Seen(pg, da), Extent(m, Limit))[c] =
          IF m <= c THEN 0 ELSE IF pg[c] = Absent THEN da[c] ELSE pg[c]
    BY <1>1 DEF Erase, Seen
  <2>2. \A c \in Cells : Seen(new, nda)[c] = IF new[c] = Absent THEN nda[c] ELSE new[c]
    BY DEF Seen
  <2>3. \A c \in Cells : cs <= c => da[c] = 0
    BY DEF Clean, Sound
  <2> QED
    BY <1>0, <1>2, <1>3, <2>1, <2>2, <2>3
<1> QED
  BY <1>6, <1>7 DEF Seen, Erase, m

\* An allocation grows the file by zeroes.
LEMMA CleanAlloc ==
    ASSUME NEW cs, NEW pg, NEW da, Clean(cs, pg, da), NEW end, end \in 0 .. Limit
    PROVE  /\ Clean(Larger(cs, end), Without(pg, Past(cs, end)), da)
           /\ Seen(Without(pg, Past(cs, end)), da) = Zeroed(Seen(pg, da), cs, end)
<1> DEFINE new == Without(pg, Past(cs, end))
<1> USE CellTypes
<1>0. cs \in Nat /\ Larger(cs, end) \in 0 .. Limit /\ cs <= Larger(cs, end)
      /\ Larger(cs, end) \in {cs, end}
  BY DEF Clean, Sound, Larger
<1>1. \A c \in Cells : new[c] = IF cs <= c /\ c < end THEN Absent ELSE pg[c]
  BY DEF Without, Past
<1>2. new \in [Cells -> Cell]
  <2>1. \A c \in Cells : new[c] \in Cell
    BY <1>1 DEF Clean, Sound, Cell
  <2> QED
    BY <2>1 DEF Without
<1> HIDE DEF new
<1>3. \A c \in Cells : c < Larger(cs, end) => new[c] \in {Absent, da[c]}
  <2>1. \A c \in Cells : c < cs => pg[c] \in {Absent, da[c]}
    BY DEF Clean, Sound
  <2> QED
    BY <1>0, <1>1, <2>1
<1>4. \A c \in Cells : cs <= c => da[c] = 0
  BY DEF Clean, Sound
<1>5. \A c \in Cells : Larger(cs, end) <= c => da[c] = 0
  BY <1>0, <1>4
<1>6. Clean(Larger(cs, end), new, da)
  BY <1>0, <1>2, <1>3, <1>5 DEF Clean, Sound
<1>7. \A c : c \in Extent(cs, end - cs) <=> c \in Cells /\ cs <= c /\ c < end
  BY <1>0, ExtentCells
<1>8. \A c \in Cells : Seen(new, da)[c] = Erase(Seen(pg, da), Extent(cs, end - cs))[c]
  <2>1. \A c \in Cells : Erase(Seen(pg, da), Extent(cs, end - cs))[c] =
          IF cs <= c /\ c < end THEN 0 ELSE IF pg[c] = Absent THEN da[c] ELSE pg[c]
    BY <1>7 DEF Erase, Seen
  <2>2. \A c \in Cells : Seen(new, da)[c] = IF new[c] = Absent THEN da[c] ELSE new[c]
    BY DEF Seen
  <2> QED
    BY <1>1, <1>4, <2>1, <2>2
<1> QED
  BY <1>6, <1>8 DEF Seen, Erase, new, Zeroed

\* A hole is punched into the server's cells and the cached ones alike.
LEMMA CleanPunch ==
    ASSUME NEW cs, NEW pg, NEW da, Clean(cs, pg, da), NEW C
    PROVE  /\ Clean(cs, Without(pg, C), Erase(da, C))
           /\ Seen(Without(pg, C), Erase(da, C)) = Erase(Seen(pg, da), C)
<1> DEFINE new == Without(pg, C)
           nda == Erase(da, C)
<1> USE CellTypes
<1>1. \A c \in Cells : /\ new[c] = IF c \in C THEN Absent ELSE pg[c]
                       /\ nda[c] = IF c \in C THEN 0 ELSE da[c]
  BY DEF Without, Erase
<1>2. new \in [Cells -> Cell] /\ nda \in [Cells -> Nat]
  <2>1. \A c \in Cells : new[c] \in Cell /\ nda[c] \in Nat
    BY <1>1 DEF Clean, Sound, Cell
  <2> QED
    BY <2>1 DEF Without, Erase
<1>3. Clean(cs, new, nda)
  <2> HIDE DEF new, nda
  <2> QED
    BY <1>1, <1>2 DEF Clean, Sound
<1>4. \A c \in Cells : Seen(new, nda)[c] = Erase(Seen(pg, da), C)[c]
  BY <1>1 DEF Seen, Erase
<1> QED
  BY <1>3, <1>4 DEF Seen, Erase

\* Dropping all pages of a clean file.
LEMMA CleanDrop ==
    ASSUME NEW cs, NEW pg, NEW da, Clean(cs, pg, da)
    PROVE  /\ Clean(cs, Empty, da)
           /\ Seen(Empty, da) = Erase(Seen(pg, da), Extent(cs, Limit))
<1> USE CellTypes
<1>1. Empty = Without(pg, Cells \ {})
  BY DEF Empty, Without
<1>2. Sound(cs, pg, {}, cs, da)
  BY DEF Clean
<1> QED
  BY <1>1, <1>2, ReclaimSound DEF Clean

\* A new file.
LEMMA CleanNew ==
    /\ Clean(0, Empty, Zeros)
    /\ Seen(Empty, Zeros) = Zeros
<1> USE CellTypes
<1>1. Empty \in [Cells -> Cell] /\ Zeros \in [Cells -> Nat]
  BY DEF Empty, Zeros, Cell
<1>2. \A c \in Cells : Empty[c] = Absent /\ Zeros[c] = 0
  BY DEF Empty, Zeros
<1>3. Clean(0, Empty, Zeros)
  BY <1>1, <1>2 DEF Clean, Sound
<1>4. Seen(Empty, Zeros) = Zeros
  BY <1>2 DEF Seen, Zeros
<1> QED
  BY <1>3, <1>4

\* What a read returns depends on the cells below the end only, and consists
\* of cells.
LEMMA WindowSame ==
    ASSUME NEW size \in 0 .. Limit, NEW at \in Nat, NEW n \in Nat,
           NEW fn, NEW gn, \A c \in Cells : c < size => fn[c] = gn[c]
    PROVE  Window(fn, size, at, n) = Window(gn, size, at, n)
<1> USE CellTypes
<1> DEFINE k == Larger(0, Smaller(n, size - at))
<1>1. k \in Nat /\ (k > 0 => at + k <= size)
  BY DEF Larger, Smaller
<1>2. \A i \in 1 .. k : at + i - 1 \in Cells /\ at + i - 1 < size
  BY <1>1
<1> HIDE DEF k
<1>3. \A i \in 1 .. k : fn[at + i - 1] = gn[at + i - 1]
  BY <1>2
<1>4. [i \in 1 .. k |-> fn[at + i - 1]] = [i \in 1 .. k |-> gn[at + i - 1]]
  BY <1>3
<1> QED
  BY <1>4 DEF Window, k

\* What a read returns is a sequence of cell values, no longer than was asked for.
LEMMA WindowCells ==
    ASSUME NEW size \in 0 .. Limit, NEW at \in Nat, NEW n \in Nat,
           NEW fn \in [Cells -> Nat]
    PROVE  /\ Window(fn, size, at, n) \in Seq(Nat)
           /\ Len(Window(fn, size, at, n)) <= n
<1> USE CellTypes
<1> DEFINE k == Larger(0, Smaller(n, size - at))
           w == Window(fn, size, at, n)
<1>1. k \in Nat /\ k <= n /\ (k > 0 => at + k <= size)
  BY DEF Larger, Smaller
<1>2. \A i \in 1 .. k : at + i - 1 \in Cells
  BY <1>1
<1>3. w = [i \in 1 .. k |-> fn[at + i - 1]]
  BY DEF Window
<1> HIDE DEF k, w
<1>4. w \in [1 .. k -> Nat]
  BY <1>2, <1>3
<1>5. w \in Seq(Nat)
  BY <1>1, <1>4, SeqDef
<1>6. Len(w) \in Nat /\ DOMAIN w = 1 .. Len(w) /\ DOMAIN w = 1 .. k
  BY <1>4, <1>5, LenProperties
<1>7. Len(w) = k
  <2>1. \A i : i \in 1 .. Len(w) <=> i \in 1 .. k
    BY <1>6
  <2>2. Len(w) \in 1 .. Len(w) => Len(w) \in 1 .. k
    BY <2>1
  <2>3. k \in 1 .. k => k \in 1 .. Len(w)
    BY <2>1
  <2>4. Len(w) \in Nat /\ k \in Nat
    BY <1>1, <1>6
  <2> HIDE DEF w
  <2>5. \A a, b \in Nat : (a \in 1 .. a => a \in 1 .. b) /\ (b \in 1 .. b => b \in 1 .. a) => a = b
    OBVIOUS
  <2> QED
    BY <2>2, <2>3, <2>4, <2>5, Zenon
<1> QED
  BY <1>1, <1>5, <1>7 DEF w

-----------------------------------------------------------------------------
(***************************************************************************)
(* The inductive invariant: every file is coherent.                        *)
(***************************************************************************)
FileTypes ==
    /\ csize \in [Files -> 0 .. Limit] /\ ssize \in [Files -> 0 .. Limit]
    /\ page \in [Files -> [Cells -> Cell]] /\ data \in [Files -> [Cells -> Nat]]
    /\ dirty \in [Files -> SUBSET Cells] /\ alloc \in [Files -> SUBSET Cells]
ControlTypes == suite \in Suites /\ mark \in [Threads -> 0 .. Limit] /\ failed \in BOOLEAN
SoundFile(f) == Sound(csize[f], page[f], dirty[f], ssize[f], data[f])
AllSound == \A f \in Files : SoundFile(f)
FInv == FileTypes /\ ControlTypes /\ AllSound

\* A step that sets one file to a coherent state keeps the invariant, and
\* sets one file of PosixFile.
LEMMA OneFile ==
    ASSUME FileTypes, AllSound, NEW f \in Files,
           NEW cs, NEW pg, NEW dt, NEW ss, NEW da, NEW al \in SUBSET Cells,
           SetClient(f, cs, pg, dt), SetServer(f, ss, da, al), Sound(cs, pg, dt, ss, da)
    PROVE  /\ FileTypes' /\ AllSound'
           /\ csize' = [csize EXCEPT ![f] = cs]
           /\ Content' = [Content EXCEPT ![f] = Seen(pg, da)]
           /\ Filled' = [Filled EXCEPT ![f] = al \cup dt]
           /\ CleanFiles' = IF dt = {} THEN CleanFiles \cup {f} ELSE CleanFiles \ {f}
<1> USE DEF SetClient, SetServer
<1>1. /\ csize' \in [Files -> 0 .. Limit] /\ ssize' \in [Files -> 0 .. Limit]
      /\ page' \in [Files -> [Cells -> Cell]] /\ data' \in [Files -> [Cells -> Nat]]
      /\ dirty' \in [Files -> SUBSET Cells] /\ alloc' \in [Files -> SUBSET Cells]
  BY DEF FileTypes, Sound
<1>2. /\ csize'[f] = cs /\ page'[f] = pg /\ dirty'[f] = dt
      /\ ssize'[f] = ss /\ data'[f] = da /\ alloc'[f] = al
  BY DEF FileTypes
<1>3. \A g \in Files : g # f =>
        /\ csize'[g] = csize[g] /\ page'[g] = page[g] /\ dirty'[g] = dirty[g]
        /\ ssize'[g] = ssize[g] /\ data'[g] = data[g] /\ alloc'[g] = alloc[g]
  BY DEF FileTypes
<1>4. AllSound'
  <2>1. ASSUME NEW g \in Files PROVE SoundFile(g)'
    <3>1. CASE g = f
      BY <1>2, <3>1 DEF SoundFile
    <3>2. CASE g # f
      BY <1>3, <3>2 DEF SoundFile, AllSound
    <3> QED
      BY <3>1, <3>2
  <2> QED
    BY <2>1 DEF AllSound
<1>5. Content' = [Content EXCEPT ![f] = Seen(pg, da)]
  <2>1. \A g \in Files : View(g)' = IF g = f THEN Seen(pg, da) ELSE View(g)
    BY <1>2, <1>3 DEF View, Seen
  <2> QED
    BY <2>1 DEF Content
<1>6. Filled' = [Filled EXCEPT ![f] = al \cup dt]
  BY <1>2, <1>3 DEF Filled
<1>7. CleanFiles' = IF dt = {} THEN CleanFiles \cup {f} ELSE CleanFiles \ {f}
  BY <1>2, <1>3 DEF CleanFiles
<1> QED
  BY <1>1, <1>4, <1>5, <1>6, <1>7 DEF FileTypes

\* The same for a step of the client alone.
LEMMA OneClient ==
    ASSUME FileTypes, AllSound, NEW f \in Files, NEW cs, NEW pg, NEW dt,
           SetClient(f, cs, pg, dt), UNCHANGED server, Sound(cs, pg, dt, ssize[f], data[f])
    PROVE  /\ FileTypes' /\ AllSound'
           /\ csize' = [csize EXCEPT ![f] = cs]
           /\ Content' = [Content EXCEPT ![f] = Seen(pg, data[f])]
           /\ Filled' = [Filled EXCEPT ![f] = alloc[f] \cup dt]
           /\ CleanFiles' = IF dt = {} THEN CleanFiles \cup {f} ELSE CleanFiles \ {f}
<1>1. SetServer(f, ssize[f], data[f], alloc[f]) /\ alloc[f] \in SUBSET Cells
  BY DEF FileTypes, server, SetServer
<1> QED
  BY <1>1, OneFile

\* A step that touches no file.
LEMMA NoFile ==
    ASSUME UNCHANGED <<client, server>>
    PROVE  /\ FileTypes /\ AllSound => FileTypes' /\ AllSound'
           /\ csize' = csize /\ Content' = Content /\ Filled' = Filled /\ CleanFiles' = CleanFiles
BY DEF client, server, FileTypes, AllSound, SoundFile, Content, View, Filled, CleanFiles

\* A coherent file, flushed.
LEMMA FlushedFile ==
    ASSUME FileTypes, AllSound, NEW f \in Files
    PROVE  /\ View(f) = Seen(page[f], data[f])
           /\ FlushedSize(f) = csize[f]
           /\ Clean(csize[f], page[f], FlushedData(f))
           /\ Seen(page[f], FlushedData(f)) = View(f)
           /\ FlushedData(f) \in [Cells -> Nat] /\ FlushedAlloc(f) \in SUBSET Cells
           /\ FlushedAlloc(f) = Filled[f] /\ View(f) = Content[f]
           /\ \A c \in Cells : c < csize[f] => FlushedData(f)[c] = View(f)[c]
<1>1. Sound(csize[f], page[f], dirty[f], ssize[f], data[f])
  BY DEF AllSound, SoundFile
<1>2. /\ FlushedSize(f) = FlushSize(csize[f], dirty[f], ssize[f])
      /\ FlushedData(f) = FlushData(page[f], dirty[f], data[f])
      /\ View(f) = Seen(page[f], data[f])
  BY DEF FlushedSize, FlushSize, FlushedData, FlushData, View, Seen
<1>3. FlushedAlloc(f) \in SUBSET Cells /\ FlushedAlloc(f) = Filled[f] /\ View(f) = Content[f]
  BY DEF FlushedAlloc, FileTypes, Filled, Content
<1>4. /\ FlushedSize(f) = csize[f] /\ Clean(csize[f], page[f], FlushedData(f))
      /\ Seen(page[f], FlushedData(f)) = View(f)
      /\ \A c \in Cells : c < csize[f] => FlushedData(f)[c] = View(f)[c]
  BY <1>1, <1>2, FlushSound
<1>5. FlushedData(f) \in [Cells -> Nat]
  BY <1>4 DEF Clean, Sound
<1> QED
  BY <1>2, <1>3, <1>4, <1>5

\* The step a thread is at is one of its program's, and well formed.
LEMMA StepFormed ==
    ASSUME ControlTypes, NEW t, NEW op, At(t, op)
    PROVE  Step(t).op = op /\ WellFormed(Step(t))
<1>1. Step(t).op = op /\ pc[t] \in 1 .. Len(Code(t))
  BY DEF At
<1>2. t \in DOMAIN suite.code
  <2>1. ASSUME t \notin DOMAIN suite.code PROVE FALSE
    <3>1. Code(t) = <<>>
      BY <2>1 DEF Code
    <3>2. 1 .. Len(<<>>) = {}
      OBVIOUS
    <3> QED
      BY <1>1, <3>1, <3>2
  <2> QED
    BY <2>1
<1>3. Code(t) = suite.code[t]
  BY <1>2 DEF Code
<1>4. WellFormed(suite.code[t][pc[t]])
  BY <1>1, <1>2, <1>3, StepsAssumption DEF ControlTypes
<1> QED
  BY <1>1, <1>3, <1>4 DEF Step

\* Returning, taking a size and moving on keep the control variables' types.
LEMMA FollowTypes ==
    ASSUME ControlTypes, NEW t, NEW fine \in BOOLEAN, Follow(t, fine)
    PROVE  ControlTypes'
BY DEF ControlTypes, Follow

LEMMA ReturnTypes ==
    ASSUME ControlTypes, NEW t, NEW got, Return(t, got)
    PROVE  ControlTypes'
<1>1. Follow(t, got \in Step(t).want) /\ (got \in Step(t).want) \in BOOLEAN
  BY DEF Return
<1> QED
  BY <1>1, FollowTypes

\* The steps of the port mean the same in PosixFile.
LEMMA SamePort ==
    ASSUME NEW t
    PROVE  /\ Posix!Step(t) = Step(t) /\ Posix!Code(t) = Code(t)
           /\ \A op : Posix!At(t, op) <=> At(t, op)
           /\ \A fine : Posix!Follow(t, fine) <=> Follow(t, fine)
           /\ \A got : Posix!Return(t, got) <=> Return(t, got)
           /\ \A s : Posix!Take(t, s) <=> Take(t, s)
           /\ \A s : Posix!Offset(t, s) = Offset(t, s)
           /\ Posix!Deferred(Code(t)) = Deferred(Code(t))
           /\ (Posix!DirGone <=> DirGone) /\ Posix!Pinned = Pinned
<1>1. Posix!Deferred(Code(t)) = Deferred(Code(t))
  BY DEF Posix!Deferred, Deferred, Posix!DeferredOps, DeferredOps
<1>2. Posix!Step(t) = Step(t) /\ Posix!Code(t) = Code(t)
  BY DEF Posix!Step, Step, Posix!Code, Code
<1>3. \A op : Posix!At(t, op) <=> At(t, op)
  BY <1>2 DEF Posix!At, At
<1>4. \A fine : Posix!Follow(t, fine) <=> Follow(t, fine)
  BY <1>1, <1>2 DEF Posix!Follow, Follow
<1>5. \A got : Posix!Return(t, got) <=> Return(t, got)
  BY <1>2, <1>4 DEF Posix!Return, Return
<1>6. \A s : Posix!Take(t, s) <=> Take(t, s)
  BY DEF Posix!Take, Take
<1>7. \A s : Posix!Offset(t, s) = Offset(t, s)
  BY <1>2, <1>3 DEF Posix!Offset, Offset
<1>8. (Posix!DirGone <=> DirGone) /\ Posix!Pinned = Pinned
  BY DEF Posix!DirGone, DirGone, Posix!Pinned, Pinned
<1> QED
  BY <1>1, <1>2, <1>3, <1>4, <1>5, <1>6, <1>7, <1>8

\* The two modules use the same operators on cells.
LEMMA SameCells ==
    /\ Posix!Zeros = Zeros /\ Posix!OK = OK /\ Posix!Cells = Cells
    /\ Posix!ENOENT = ENOENT /\ Posix!EEXIST = EEXIST /\ Posix!EFBIG = EFBIG /\ Posix!ENOSPC = ENOSPC
    /\ \A m, n : Posix!Larger(m, n) = Larger(m, n) /\ Posix!Smaller(m, n) = Smaller(m, n)
    /\ \A at, n : Posix!Extent(at, n) = Extent(at, n)
    /\ \A fn, at, val : Posix!Overwrite(fn, at, val) = Overwrite(fn, at, val)
    /\ \A fn, C : Posix!Erase(fn, C) = Erase(fn, C)
    /\ \A fn, s, at, n : Posix!Window(fn, s, at, n) = Window(fn, s, at, n)
    /\ \A fn, at, n : Posix!Slice(fn, at, n) = Slice(fn, at, n)
    /\ \A F, s, at : Posix!NextData(F, s, at) = NextData(F, s, at)
    /\ \A F, s, at : Posix!NextHole(F, s, at) = NextHole(F, s, at)
BY DEF Posix!Zeros, Zeros, Posix!OK, OK, Posix!Cells, Cells, Posix!ENOENT, ENOENT, Posix!EEXIST, EEXIST,
       Posix!EFBIG, EFBIG, Posix!ENOSPC, ENOSPC, Posix!Larger, Larger, Posix!Smaller, Smaller,
       Posix!Extent, Extent, Posix!Overwrite, Overwrite, Posix!Erase, Erase, Posix!Window, Window,
       Posix!Slice, Slice, Posix!NextData, NextData, Posix!NextHole, NextHole, Posix!FirstOf, FirstOf,
       Posix!ENXIO, ENXIO

\* Counting cells means the same, too.
LEMMA SameCount ==
    ASSUME NEW S
    PROVE  Posix!Cardinality(S) = Cardinality(S)
BY DEF Posix!Cardinality, Cardinality

\* A buffered write.
LEMMA WriteFileStep ==
    ASSUME FInv, NEW t \in Threads, WriteFile(t)
    PROVE  FInv' /\ Posix!WriteFile(t)
<1> SUFFICES ASSUME NEW f, f = Step(t).f, NEW v, v = Step(t).val,
                    NEW at, at = Offset(t, csize[f]), NEW C, C = Extent(at, Len(v)),
                    NEW D, D = dirty[f] \cup C,
                    NEW s, s = IF v = <<>> THEN csize[f] ELSE Larger(csize[f], at + Len(v)),
                    NEW new, new = Overwrite(Without(page[f], PastEnd(f, s)), at, v)
             PROVE  FInv' /\ Posix!WriteFile(t)
  OBVIOUS
<1>1. At(t, "write") \/ At(t, "append") \/ At(t, "write_taken")
  BY DEF WriteFile
<1>2. f \in Files /\ v \in Seq(Nat) /\ Step(t).at \in Nat
  BY <1>1, StepFormed DEF WellFormed, ControlOps, FInv
<1>3. at \in Nat
  BY <1>1, <1>2 DEF Offset, FInv, FileTypes, ControlTypes
<1>4. /\ at + Len(v) <= Limit /\ Return(t, OK) /\ SetClient(f, s, new, D)
      /\ UNCHANGED directory /\ UNCHANGED server
  BY DEF WriteFile
<1>5. Sound(csize[f], page[f], dirty[f], ssize[f], data[f])
  BY <1>2 DEF FInv, AllSound, SoundFile
<1>6. /\ Sound(s, new, D, ssize[f], data[f])
      /\ Seen(new, data[f]) = Overwrite(Zeroed(View(f), csize[f], s), at, v)
  <2>1. View(f) = Seen(page[f], data[f])
    BY DEF View, Seen
  <2>2. PastEnd(f, s) = Past(csize[f], s)
    BY DEF PastEnd, Past
  <2>3. Fits(csize[f], at, v, s)
    BY <1>2, <1>3, <1>4 DEF Fits
  <2> QED
    BY <1>5, <2>1, <2>2, <2>3, WriteSound
<1>7. /\ FileTypes' /\ AllSound'
      /\ csize' = [csize EXCEPT ![f] = s]
      /\ Content' = [Content EXCEPT ![f] = Seen(new, data[f])]
      /\ Filled' = [Filled EXCEPT ![f] = alloc[f] \cup D]
      /\ CleanFiles' = IF D = {} THEN CleanFiles \cup {f} ELSE CleanFiles \ {f}
  <2>1. FileTypes /\ AllSound
    BY DEF FInv
  <2>2. SetClient(f, s, new, D) /\ UNCHANGED server
    BY <1>4
  <2>3. Sound(s, new, D, ssize[f], data[f])
    BY <1>6
  <2> QED
    BY <1>2, <2>1, <2>2, <2>3, OneClient
<1>8. FInv'
  BY <1>4, <1>7, ReturnTypes DEF FInv
<1>9. CleanFiles' = IF v = <<>> THEN CleanFiles ELSE CleanFiles \ {f}
  <2>1. Len(v) \in Nat /\ (v = <<>> <=> Len(v) = 0)
    BY <1>2, EmptySeq
  <2>2. \A c : c \in C <=> c \in Cells /\ at <= c /\ c < at + Len(v)
    BY <1>3, <2>1, ExtentCells
  <2>3. v = <<>> => C = {}
    BY <1>3, <2>1, <2>2, CellTypes
  <2>4. v # <<>> => at \in C
    BY <1>3, <1>4, <2>1, <2>2, CellTypes
  <2>5. dirty[f] = {} <=> f \in CleanFiles
    BY <1>2 DEF CleanFiles
  <2> QED
    BY <1>7, <2>3, <2>4, <2>5
<1>10. Posix!WriteFile(t)
  <2>1. Zeroed(View(f), csize[f], s)
          = Posix!Erase(Content[f], Posix!Extent(csize[f], s - csize[f]))
    BY <1>2, SameCells DEF Zeroed, Content
  <2>2. Content' = [Content EXCEPT ![f] =
          Posix!Overwrite(Posix!Erase(Content[f], Posix!Extent(csize[f], s - csize[f])), at, v)]
    BY <1>6, <1>7, <2>1, SameCells
  <2>3. Filled' = [Filled EXCEPT ![f] = Filled[f] \cup Posix!Extent(at, Len(v))]
    <3>1. Filled[f] \cup C = alloc[f] \cup D
      BY <1>2 DEF Filled
    <3> QED
      BY <1>7, <3>1, SameCells
  <2>4. /\ Posix!Step(t) = Step(t) /\ Posix!Offset(t, csize[Posix!Step(t).f]) = at
        /\ Posix!Return(t, Posix!OK)
        /\ Posix!At(t, "write") \/ Posix!At(t, "append") \/ Posix!At(t, "write_taken")
             \/ Posix!At(t, "dwrite")
        /\ ~Posix!At(t, "dwrite")
        /\ Posix!Larger(csize[f], at + Len(v)) = Larger(csize[f], at + Len(v))
    <3>1. ~At(t, "dwrite")
      BY <1>1 DEF At
    <3> QED
      BY <1>1, <1>4, <3>1, SamePort, SameCells
  <2>5. UNCHANGED Posix!directory
    BY <1>4 DEF directory, Posix!directory
  <2> QED
    BY <1>4, <1>7, <1>9, <2>2, <2>3, <2>4, <2>5 DEF Posix!WriteFile, Posix!SetFile, Posix!Grown
<1> QED
  BY <1>8, <1>10

\* A call that syncs a file leaves it clean.
LEMMA SyncedFile ==
    ASSUME FileTypes, AllSound, NEW f \in Files,
           NEW cs, NEW pg, NEW da, NEW al \in SUBSET Cells, NEW none, none = {},
           SetClient(f, cs, pg, none), SetServer(f, cs, da, al), Clean(cs, pg, da)
    PROVE  /\ FileTypes' /\ AllSound'
           /\ csize' = [csize EXCEPT ![f] = cs]
           /\ Content' = [Content EXCEPT ![f] = Seen(pg, da)]
           /\ Filled' = [Filled EXCEPT ![f] = al]
           /\ CleanFiles' = CleanFiles \cup {f}
<1>1. Sound(cs, pg, none, cs, da)
  BY DEF Clean
<1>2. /\ FileTypes' /\ AllSound'
      /\ csize' = [csize EXCEPT ![f] = cs]
      /\ Content' = [Content EXCEPT ![f] = Seen(pg, da)]
      /\ Filled' = [Filled EXCEPT ![f] = al \cup none]
      /\ CleanFiles' = IF none = {} THEN CleanFiles \cup {f} ELSE CleanFiles \ {f}
  BY <1>1, OneFile
<1> QED
  BY <1>2

\* A flush changes nothing but what the server has.
LEMMA FlushStep ==
    ASSUME FileTypes, AllSound, NEW f \in Files, Flush(f)
    PROVE  /\ FileTypes' /\ AllSound'
           /\ csize' = csize /\ Content' = Content /\ Filled' = Filled
           /\ CleanFiles' = CleanFiles \cup {f}
<1> SUFFICES ASSUME NEW cs, cs = csize[f], NEW pg, pg = page[f], NEW none, none = {},
                    NEW da, da = FlushedData(f), NEW al, al = FlushedAlloc(f)
             PROVE  /\ FileTypes' /\ AllSound'
                    /\ csize' = csize /\ Content' = Content /\ Filled' = Filled
                    /\ CleanFiles' = CleanFiles \cup {f}
  OBVIOUS
<1>1. /\ FlushedSize(f) = cs /\ Clean(cs, pg, da) /\ Seen(pg, da) = Content[f]
      /\ al \in SUBSET Cells /\ al = Filled[f]
  BY FlushedFile
<1>2. SetClient(f, cs, pg, none) /\ SetServer(f, cs, da, al)
  BY <1>1 DEF Flush, ServerFlushed, SetClient, SetServer
<1>3. /\ FileTypes' /\ AllSound'
      /\ csize' = [csize EXCEPT ![f] = cs]
      /\ Content' = [Content EXCEPT ![f] = Seen(pg, da)]
      /\ Filled' = [Filled EXCEPT ![f] = al]
      /\ CleanFiles' = CleanFiles \cup {f}
  BY <1>1, <1>2, SyncedFile
<1>4. csize \in [Files -> 0 .. Limit] /\ DOMAIN Content = Files /\ DOMAIN Filled = Files
      /\ Content = [g \in Files |-> Content[g]] /\ Filled = [g \in Files |-> Filled[g]]
  BY DEF FileTypes, Content, Filled
<1> QED
  BY <1>1, <1>3, <1>4

\* Opening and creating a file.
LEMMA OpenFileStep ==
    ASSUME FInv, NEW t \in Threads, OpenFile(t)
    PROVE  FInv' /\ Posix!OpenFile(t)
<1> SUFFICES ASSUME NEW f, f = Step(t).f
             PROVE  FInv' /\ Posix!OpenFile(t)
  OBVIOUS
<1> USE SamePort, SameCells
<1>1. f \in Files
  <2>1. At(t, "creat") \/ At(t, "open_creat") \/ At(t, "excl") \/ At(t, "open")
    BY DEF OpenFile
  <2> QED
    BY <2>1, StepFormed DEF WellFormed, ControlOps, FInv
<1>2. CASE /\ At(t, "creat") \/ ((At(t, "open_creat") \/ At(t, "excl")) /\ f \notin names)
           /\ ~DirGone
           /\ Return(t, OK) /\ OpenOne(f)
           /\ SetClient(f, 0, Empty, {}) /\ SetServer(f, 0, Zeros, {})
  <2>1. /\ FileTypes' /\ AllSound'
        /\ csize' = [csize EXCEPT ![f] = 0]
        /\ Content' = [Content EXCEPT ![f] = Seen(Empty, Zeros)]
        /\ Filled' = [Filled EXCEPT ![f] = {}]
        /\ CleanFiles' = CleanFiles \cup {f}
    BY <1>1, <1>2, CleanNew, SyncedFile DEF FInv
  <2>2. FInv'
    BY <1>2, <2>1, ReturnTypes DEF FInv
  <2>3. Posix!OpenFile(t)
    BY <1>2, <2>1, CleanNew
    DEF Posix!OpenFile, Posix!SetFile, Posix!Synced, OpenOne, Posix!OpenOne
  <2> QED
    BY <2>2, <2>3
<1>3. CASE /\ At(t, "open") \/ At(t, "open_creat")
           /\ f \in names
           /\ Return(t, OK) /\ OpenOne(f)
           /\ UNCHANGED <<client, server>>
  <2>1. FInv'
    BY <1>3, ReturnTypes, NoFile DEF FInv
  <2>2. Posix!OpenFile(t)
    BY <1>3, NoFile DEF Posix!OpenFile, Posix!file, OpenOne, Posix!OpenOne
  <2> QED
    BY <2>1, <2>2
<1>4. CASE /\ At(t, "excl") /\ f \in names
           /\ Return(t, EEXIST)
           /\ UNCHANGED <<directory, client, server>>
  <2>1. FInv'
    BY <1>4, ReturnTypes, NoFile DEF FInv
  <2>2. Posix!OpenFile(t)
    BY <1>4, NoFile DEF Posix!OpenFile, Posix!file, directory, Posix!directory
  <2> QED
    BY <2>1, <2>2
<1> QED
  BY <1>2, <1>3, <1>4 DEF OpenFile

\* Closing a file: a writer flushes.
LEMMA CloseFileStep ==
    ASSUME FInv, NEW t \in Threads, CloseFile(t)
    PROVE  FInv' /\ Posix!CloseFile(t)
<1> SUFFICES ASSUME NEW f, f = Step(t).f
             PROVE  FInv' /\ Posix!CloseFile(t)
  OBVIOUS
<1> USE SamePort, SameCells
<1>1. At(t, "close") \/ At(t, "close_ro")
  BY DEF CloseFile
<1>2. f \in Files
  BY <1>1, StepFormed DEF WellFormed, ControlOps, FInv
<1>3. Return(t, OK) /\ CloseOne(f)
  BY DEF CloseFile
<1>4. CASE At(t, "close")
  <2>1. Flush(f)
    BY <1>4 DEF CloseFile
  <2>2. /\ FileTypes' /\ AllSound'
        /\ csize' = csize /\ Content' = Content /\ Filled' = Filled
        /\ CleanFiles' = CleanFiles \cup {f}
    BY <1>2, <2>1, FlushStep DEF FInv
  <2>3. FInv'
    BY <1>3, <2>2, ReturnTypes DEF FInv
  <2>4. Posix!CloseFile(t)
    BY <1>3, <1>4, <2>2 DEF Posix!CloseFile, Posix!Synced, Posix!file, CloseOne, Posix!CloseOne
  <2> QED
    BY <2>3, <2>4
<1>5. CASE ~At(t, "close")
  <2>1. UNCHANGED <<client, server>>
    BY <1>5 DEF CloseFile
  <2>2. FInv'
    BY <1>3, <2>1, ReturnTypes, NoFile DEF FInv
  <2>3. Posix!CloseFile(t)
    BY <1>1, <1>3, <1>5, <2>1, NoFile DEF Posix!CloseFile, Posix!file, CloseOne, Posix!CloseOne
  <2> QED
    BY <2>2, <2>3
<1> QED
  BY <1>4, <1>5

\* Unlinking a file, path calls on a name that is not there, and calls that
\* are refused: no file changes.
LEMMA UnlinkFileStep ==
    ASSUME FInv, NEW t \in Threads, UnlinkFile(t)
    PROVE  FInv' /\ Posix!UnlinkFile(t)
<1> USE SamePort, SameCells
<1>1. /\ UNCHANGED <<client, server>>
      /\ Return(t, IF Step(t).f \in names THEN OK ELSE ENOENT)
  BY DEF UnlinkFile
<1>2. FInv'
  BY <1>1, NoFile, ReturnTypes DEF FInv
<1>3. Posix!UnlinkFile(t)
  BY <1>1, NoFile
  DEF UnlinkFile, Posix!UnlinkFile, Posix!file, DropName, Posix!DropName,
      directory, Posix!directory
<1> QED
  BY <1>2, <1>3

\* A path call on a name that is not there changes no file, at either level.
LEMMA MissingFileStep ==
    ASSUME FInv, NEW t \in Threads, MissingFile(t)
    PROVE  FInv' /\ Posix!MissingFile(t)
<1> USE SamePort, SameCells
<1>1. UNCHANGED <<client, server>> /\ Return(t, ENOENT)
  BY DEF MissingFile
<1>2. FInv'
  BY <1>1, NoFile, ReturnTypes DEF FInv
<1>3. Posix!MissingFile(t)
  BY <1>1, NoFile DEF MissingFile, Posix!MissingFile, Posix!file, directory, Posix!directory
<1> QED
  BY <1>2, <1>3

\* A refused call changes no file, at either level.
LEMMA RefuseFileStep ==
    ASSUME FInv, NEW t \in Threads, RefuseFile(t)
    PROVE  FInv' /\ Posix!RefuseFile(t)
<1> USE SamePort, SameCells
<1>1. UNCHANGED <<client, server>>
  BY DEF RefuseFile
<1>2. FInv'
  BY <1>1, NoFile, ReturnTypes DEF FInv, RefuseFile
<1>3. Posix!RefuseFile(t)
  BY <1>1, NoFile
  DEF RefuseFile, Posix!RefuseFile, Posix!file, directory, Posix!directory
<1> QED
  BY <1>2, <1>3

\* The thread remembers the size.
LEMMA TakeFileStep ==
    ASSUME FInv, NEW t \in Threads, TakeFile(t)
    PROVE  FInv' /\ Posix!TakeFile(t)
<1> USE SamePort, SameCells
<1>1. UNCHANGED <<client, server>> /\ Take(t, csize[Step(t).f])
  BY DEF TakeFile
<1>2. csize[Step(t).f] \in 0 .. Limit
  <2>1. Step(t).f \in Files
    BY StepFormed DEF TakeFile, WellFormed, ControlOps, FInv
  <2> QED
    BY <2>1 DEF FInv, FileTypes
<1>3. FInv'
  BY <1>1, <1>2, NoFile DEF FInv, ControlTypes, Take
<1>4. Posix!TakeFile(t)
  BY <1>1, NoFile
  DEF TakeFile, Posix!TakeFile, Posix!file, Take, Posix!Take, directory, Posix!directory
<1> QED
  BY <1>3, <1>4

\* A store through a mapping.
LEMMA StoreFileStep ==
    ASSUME FInv, NEW t \in Threads, StoreFile(t)
    PROVE  FInv' /\ Posix!StoreFile(t)
<1>0. PICK f, v, at, cs, C, D, new :
        /\ f = Step(t).f /\ v = Step(t).val /\ at = Step(t).at /\ cs = csize[f]
        /\ C = Extent(at, Len(v)) \cap Extent(0, cs) /\ D = dirty[f] \cup C
        /\ new = Overwrite(page[f], at, v)
  OBVIOUS
<1>1. /\ At(t, "mwrite") /\ Return(t, OK) /\ SetClient(f, cs, new, D)
      /\ UNCHANGED directory /\ UNCHANGED server
  BY <1>0 DEF StoreFile
<1>2. f \in Files /\ v \in Seq(Nat) /\ at \in Nat
  BY <1>0, <1>1, StepFormed DEF WellFormed, ControlOps, FInv
<1>3. Sound(cs, page[f], dirty[f], ssize[f], data[f])
  BY <1>0, <1>2 DEF FInv, AllSound, SoundFile
<1>4. /\ Sound(cs, new, D, ssize[f], data[f])
      /\ Seen(new, data[f]) = Overwrite(View(f), at, v)
  <2>1. View(f) = Seen(page[f], data[f])
    BY DEF View, Seen
  <2>2. Placed(at, v)
    BY <1>2 DEF Placed
  <2> QED
    BY <1>0, <1>3, <2>1, <2>2, StoreSound
<1>5. /\ FileTypes' /\ AllSound'
      /\ csize' = [csize EXCEPT ![f] = cs]
      /\ Content' = [Content EXCEPT ![f] = Seen(new, data[f])]
      /\ Filled' = [Filled EXCEPT ![f] = alloc[f] \cup D]
      /\ CleanFiles' = IF D = {} THEN CleanFiles \cup {f} ELSE CleanFiles \ {f}
  <2>1. FileTypes /\ AllSound
    BY DEF FInv
  <2>2. SetClient(f, cs, new, D) /\ UNCHANGED server
    BY <1>1
  <2>3. Sound(cs, new, D, ssize[f], data[f])
    BY <1>4
  <2> QED
    BY <1>2, <2>1, <2>2, <2>3, OneClient
<1>6. FInv'
  BY <1>1, <1>5, ReturnTypes DEF FInv
<1>7. CleanFiles' = IF C = {} THEN CleanFiles ELSE CleanFiles \ {f}
  <2>1. dirty[f] = {} <=> f \in CleanFiles
    BY <1>2 DEF CleanFiles
  <2> QED
    BY <1>0, <1>5, <2>1
<1> USE SamePort, SameCells
<1>8. Posix!StoreFile(t)
  <2>1. Content' = [Content EXCEPT ![f] = Posix!Overwrite(Content[f], at, v)]
    <3>1. Content[f] = View(f)
      BY <1>2 DEF Content
    <3> QED
      BY <1>4, <1>5, <3>1
  <2>2. Filled' = [Filled EXCEPT ![f] = Filled[f] \cup C]
    <3>1. Filled[f] \cup C = alloc[f] \cup D
      BY <1>0, <1>2 DEF Filled
    <3> QED
      BY <1>5, <3>1
  <2>3. C = Posix!Extent(at, Len(v)) \cap Posix!Extent(0, csize[f])
    BY <1>0
  <2>4. UNCHANGED Posix!directory
    BY <1>1 DEF directory, Posix!directory
  <2> QED
    BY <1>0, <1>1, <1>5, <1>7, <2>1, <2>2, <2>3, <2>4 DEF Posix!StoreFile, Posix!SetFile
<1> QED
  BY <1>6, <1>8

\* A direct write.
LEMMA DirectWriteStep ==
    ASSUME FInv, NEW t \in Threads, DirectWrite(t)
    PROVE  FInv' /\ Posix!WriteFile(t)
<1>0. PICK f, v, at, cs, C, s, none, new, da, al :
        /\ f = Step(t).f /\ v = Step(t).val /\ at = Step(t).at /\ cs = csize[f]
        /\ C = Extent(at, Len(v)) /\ s = (IF v = <<>> THEN cs ELSE Larger(cs, at + Len(v)))
        /\ none = {} /\ new = Without(page[f], C \cup PastEnd(f, s))
        /\ da = Overwrite(FlushedData(f), at, v) /\ al = FlushedAlloc(f) \cup C
  OBVIOUS
<1>1. At(t, "dwrite") /\ Return(t, OK) /\ UNCHANGED directory
  BY DEF DirectWrite
<1>2. f \in Files /\ v \in Seq(Nat) /\ at \in Nat /\ at + Len(v) <= Limit
  BY <1>0, <1>1, StepFormed DEF WellFormed, ControlOps, FInv
<1>3. /\ FlushedSize(f) = cs /\ Clean(cs, page[f], FlushedData(f))
      /\ Seen(page[f], FlushedData(f)) = Content[f]
      /\ FlushedAlloc(f) \in SUBSET Cells /\ FlushedAlloc(f) = Filled[f]
  BY <1>0, <1>2, FlushedFile DEF FInv
<1>4. SetClient(f, s, new, none) /\ SetServer(f, s, da, al)
  BY <1>0, <1>3 DEF DirectWrite, SetClient, SetServer
<1>5. Fits(cs, at, v, s)
  BY <1>0, <1>2 DEF Fits
<1>6. Clean(s, new, da) /\ Seen(new, da) = Overwrite(Zeroed(Content[f], cs, s), at, v)
  <2>1. PastEnd(f, s) = Past(cs, s)
    BY <1>0 DEF PastEnd, Past
  <2>2. /\ new = Without(page[f], Extent(at, Len(v)) \cup Past(cs, s))
        /\ da = Overwrite(FlushedData(f), at, v)
    BY <1>0, <2>1
  <2> QED
    BY <1>3, <1>5, <2>2, CleanWrite
<1>7. al \in SUBSET Cells
  BY <1>0, <1>3 DEF Extent
<1>8. /\ FileTypes' /\ AllSound'
      /\ csize' = [csize EXCEPT ![f] = s]
      /\ Content' = [Content EXCEPT ![f] = Seen(new, da)]
      /\ Filled' = [Filled EXCEPT ![f] = al]
      /\ CleanFiles' = CleanFiles \cup {f}
  <2>1. FileTypes /\ AllSound /\ none = {}
    BY <1>0 DEF FInv
  <2> QED
    BY <1>2, <1>4, <1>6, <1>7, <2>1, SyncedFile
<1>9. FInv'
  BY <1>1, <1>8, ReturnTypes DEF FInv
<1>10. Posix!WriteFile(t)
  <2>1. Zeroed(Content[f], cs, s) = Posix!Erase(Content[f], Posix!Extent(csize[f], s - csize[f]))
    BY <1>0, SameCells DEF Zeroed
  <2>2. Content' = [Content EXCEPT ![f] =
          Posix!Overwrite(Posix!Erase(Content[f], Posix!Extent(csize[f], s - csize[f])), at, v)]
    BY <1>6, <1>8, <2>1, SameCells
  <2>3. Filled' = [Filled EXCEPT ![f] = Filled[f] \cup Posix!Extent(at, Len(v))]
    BY <1>0, <1>3, <1>8, SameCells
  <2>4. ~At(t, "append") /\ ~At(t, "write_taken")
    BY <1>1 DEF At
  <2>5. /\ Posix!Step(t) = Step(t) /\ Posix!Return(t, Posix!OK) /\ Posix!At(t, "dwrite")
        /\ Posix!Offset(t, csize[Posix!Step(t).f]) = at
        /\ s = IF v = <<>> THEN csize[f] ELSE Posix!Larger(csize[f], at + Len(v))
    BY <1>0, <1>1, <2>4, SamePort, SameCells DEF Posix!Offset
  <2>6. UNCHANGED Posix!directory
    BY <1>1 DEF directory, Posix!directory
  <2> QED
    BY <1>0, <1>2, <1>8, <2>2, <2>3, <2>5, <2>6
    DEF Posix!WriteFile, Posix!SetFile, Posix!Grown, Posix!Synced
<1> QED
  BY <1>9, <1>10

\* A truncation.
LEMMA TruncFileStep ==
    ASSUME FInv, NEW t \in Threads, TruncFile(t)
    PROVE  FInv' /\ Posix!TruncFile(t)
<1>0. PICK f, n, cs, none, new, da, al :
        /\ f = Step(t).f /\ n = Step(t).n /\ cs = csize[f] /\ none = {}
        /\ new = Without(page[f], Extent(Smaller(n, cs), Limit))
        /\ da = Erase(FlushedData(f), Extent(n, Limit))
        /\ al = FlushedAlloc(f) \cap Extent(0, n)
  OBVIOUS
<1>1. At(t, "trunc") /\ f \in names /\ n <= Limit /\ Return(t, OK) /\ UNCHANGED directory
  BY <1>0 DEF TruncFile
<1>2. f \in Files /\ n \in 0 .. Limit
  <2>1. f \in Files /\ n \in Nat
    BY <1>0, <1>1, StepFormed DEF WellFormed, ControlOps, FInv
  <2> QED
    BY <1>1, <2>1, CellTypes
<1>3. /\ Clean(cs, page[f], FlushedData(f))
      /\ Seen(page[f], FlushedData(f)) = Content[f]
      /\ FlushedAlloc(f) \in SUBSET Cells /\ FlushedAlloc(f) = Filled[f]
  BY <1>0, <1>2, FlushedFile DEF FInv
<1>4. SetClient(f, n, new, none) /\ SetServer(f, n, da, al)
  BY <1>0, <1>3 DEF TruncFile, SetClient, SetServer
<1>5. /\ Clean(n, new, da)
      /\ Seen(new, da) = Erase(Content[f], Extent(Smaller(n, cs), Limit))
  BY <1>0, <1>2, <1>3, CleanTrunc
<1>6. al \in SUBSET Cells
  BY <1>0, <1>3
<1>7. /\ FileTypes' /\ AllSound'
      /\ csize' = [csize EXCEPT ![f] = n]
      /\ Content' = [Content EXCEPT ![f] = Seen(new, da)]
      /\ Filled' = [Filled EXCEPT ![f] = al]
      /\ CleanFiles' = CleanFiles \cup {f}
  <2>1. FileTypes /\ AllSound /\ none = {}
    BY <1>0 DEF FInv
  <2> QED
    BY <1>2, <1>4, <1>5, <1>6, <2>1, SyncedFile
<1>8. FInv'
  BY <1>1, <1>7, ReturnTypes DEF FInv
<1>9. Posix!TruncFile(t)
  <2>1. Content' = [Content EXCEPT ![f] =
          Posix!Erase(Content[f], Posix!Extent(Posix!Smaller(n, csize[f]), Limit))]
    BY <1>0, <1>5, <1>7, SameCells
  <2>2. Filled' = [Filled EXCEPT ![f] = Filled[f] \cap Posix!Extent(0, n)]
    BY <1>0, <1>3, <1>7, SameCells
  <2>3. Posix!Step(t) = Step(t) /\ Posix!Return(t, Posix!OK) /\ Posix!At(t, "trunc")
    BY <1>1, SamePort, SameCells
  <2>4. UNCHANGED Posix!directory
    BY <1>1 DEF directory, Posix!directory
  <2> QED
    BY <1>0, <1>1, <1>7, <2>1, <2>2, <2>3, <2>4 DEF Posix!TruncFile, Posix!SetFile, Posix!Synced
<1> QED
  BY <1>8, <1>9

\* An allocation, and one that does not fit.
LEMMA AllocFileStep ==
    ASSUME FInv, NEW t \in Threads, AllocFile(t)
    PROVE  FInv' /\ Posix!AllocFile(t)
<1>0. PICK f, end, cs, s, C, none, new, da, al :
        /\ f = Step(t).f /\ end = Step(t).at + Step(t).n /\ cs = csize[f] /\ s = Larger(cs, end)
        /\ C = Extent(Step(t).at, Step(t).n) /\ none = {}
        /\ new = Without(page[f], PastEnd(f, end))
        /\ da = FlushedData(f) /\ al = FlushedAlloc(f) \cup C
  OBVIOUS
<1>1. At(t, "alloc") /\ UNCHANGED directory
  BY DEF AllocFile
<1>2. f \in Files /\ end \in Nat
  BY <1>0, <1>1, StepFormed DEF WellFormed, ControlOps, FInv
<1>3. UNCHANGED Posix!directory
  BY <1>1 DEF directory, Posix!directory
<1>4. CASE end <= Limit
  <2>1. /\ FlushedSize(f) = cs /\ Clean(cs, page[f], da) /\ Seen(page[f], da) = Content[f]
        /\ FlushedAlloc(f) \in SUBSET Cells /\ FlushedAlloc(f) = Filled[f]
    BY <1>0, <1>2, FlushedFile DEF FInv
  <2>2. Return(t, OK) /\ SetClient(f, s, new, none) /\ SetServer(f, s, da, al)
    <3>1. ~(end > Limit)
      BY <1>2, <1>4, CellTypes
    <3> QED
      BY <1>0, <2>1, <3>1 DEF AllocFile, SetClient, SetServer
  <2>3. Clean(s, new, da) /\ Seen(new, da) = Zeroed(Content[f], cs, end)
    <3>1. PastEnd(f, end) = Past(cs, end)
      BY <1>0 DEF PastEnd, Past
    <3>2. end \in 0 .. Limit
      BY <1>2, <1>4, CellTypes
    <3>3. new = Without(page[f], Past(cs, end)) /\ s = Larger(cs, end)
      BY <1>0, <3>1
    <3> QED
      BY <2>1, <3>2, <3>3, CleanAlloc
  <2>4. al \in SUBSET Cells
    BY <1>0, <2>1 DEF Extent
  <2>5. /\ FileTypes' /\ AllSound'
        /\ csize' = [csize EXCEPT ![f] = s]
        /\ Content' = [Content EXCEPT ![f] = Seen(new, da)]
        /\ Filled' = [Filled EXCEPT ![f] = al]
        /\ CleanFiles' = CleanFiles \cup {f}
    <3>1. FileTypes /\ AllSound /\ none = {}
      BY <1>0 DEF FInv
    <3> QED
      BY <1>2, <2>2, <2>3, <2>4, <3>1, SyncedFile
  <2>6. FInv'
    BY <2>2, <2>5, ReturnTypes DEF FInv
  <2>7. Posix!AllocFile(t)
    <3>1. Content' = [Content EXCEPT ![f] =
            Posix!Erase(Content[f], Posix!Extent(csize[f], end - csize[f]))]
      BY <1>0, <2>3, <2>5, SameCells DEF Zeroed
    <3>2. Filled' = [Filled EXCEPT ![f] = Filled[f] \cup Posix!Extent(Step(t).at, Step(t).n)]
      BY <1>0, <2>1, <2>5, SameCells
    <3>3. /\ Posix!Step(t) = Step(t) /\ Posix!Return(t, Posix!OK) /\ Posix!At(t, "alloc")
          /\ s = Posix!Larger(csize[f], end)
      BY <1>0, <1>1, <2>2, SamePort, SameCells
    <3> QED
      BY <1>0, <1>3, <1>4, <2>5, <3>1, <3>2, <3>3
      DEF Posix!AllocFile, Posix!SetFile, Posix!Grown, Posix!Synced
  <2> QED
    BY <2>6, <2>7
<1>5. CASE ~(end <= Limit)
  <2>1. Return(t, ENOSPC) /\ Flush(f)
    BY <1>0, <1>5 DEF AllocFile
  <2>2. /\ FileTypes' /\ AllSound'
        /\ csize' = csize /\ Content' = Content /\ Filled' = Filled
        /\ CleanFiles' = CleanFiles \cup {f}
    BY <1>2, <2>1, FlushStep DEF FInv
  <2>3. FInv'
    BY <2>1, <2>2, ReturnTypes DEF FInv
  <2>4. Posix!AllocFile(t)
    <3>1. end > Limit
      BY <1>2, <1>5, CellTypes
    <3>2. Posix!Step(t) = Step(t) /\ Posix!Return(t, Posix!ENOSPC) /\ Posix!At(t, "alloc")
      BY <1>1, <2>1, SamePort, SameCells
    <3> QED
      BY <1>0, <1>3, <2>2, <3>1, <3>2 DEF Posix!AllocFile, Posix!file, Posix!Synced
  <2> QED
    BY <2>3, <2>4
<1> QED
  BY <1>4, <1>5

\* Punching a hole.
LEMMA PunchFileStep ==
    ASSUME FInv, NEW t \in Threads, PunchFile(t)
    PROVE  FInv' /\ Posix!PunchFile(t)
<1>0. PICK f, C, cs, none, new, da, al :
        /\ f = Step(t).f /\ C = Extent(Step(t).at, Step(t).n) /\ cs = csize[f] /\ none = {}
        /\ new = Without(page[f], C) /\ da = Erase(FlushedData(f), C)
        /\ al = FlushedAlloc(f) \ C
  OBVIOUS
<1>1. At(t, "punch") /\ Return(t, OK) /\ UNCHANGED directory
  BY DEF PunchFile
<1>2. f \in Files
  BY <1>0, <1>1, StepFormed DEF WellFormed, ControlOps, FInv
<1>3. /\ FlushedSize(f) = cs /\ Clean(cs, page[f], FlushedData(f))
      /\ Seen(page[f], FlushedData(f)) = Content[f]
      /\ FlushedAlloc(f) \in SUBSET Cells /\ FlushedAlloc(f) = Filled[f]
  BY <1>0, <1>2, FlushedFile DEF FInv
<1>4. SetClient(f, cs, new, none) /\ SetServer(f, cs, da, al)
  BY <1>0, <1>3 DEF PunchFile, SetClient, SetServer
<1>5. Clean(cs, new, da) /\ Seen(new, da) = Erase(Content[f], C)
  BY <1>0, <1>3, CleanPunch
<1>6. al \in SUBSET Cells
  BY <1>0, <1>3
<1>7. /\ FileTypes' /\ AllSound'
      /\ csize' = [csize EXCEPT ![f] = cs]
      /\ Content' = [Content EXCEPT ![f] = Seen(new, da)]
      /\ Filled' = [Filled EXCEPT ![f] = al]
      /\ CleanFiles' = CleanFiles \cup {f}
  <2>1. FileTypes /\ AllSound /\ none = {}
    BY <1>0 DEF FInv
  <2> QED
    BY <1>2, <1>4, <1>5, <1>6, <2>1, SyncedFile
<1>8. FInv'
  BY <1>1, <1>7, ReturnTypes DEF FInv
<1>9. Posix!PunchFile(t)
  <2>1. Content' = [Content EXCEPT ![f] =
          Posix!Erase(Content[f], Posix!Extent(Step(t).at, Step(t).n))]
    BY <1>0, <1>5, <1>7, SameCells
  <2>2. Filled' = [Filled EXCEPT ![f] = Filled[f] \ Posix!Extent(Step(t).at, Step(t).n)]
    BY <1>0, <1>3, <1>7, SameCells
  <2>3. Posix!Step(t) = Step(t) /\ Posix!Return(t, Posix!OK) /\ Posix!At(t, "punch")
    BY <1>1, SamePort, SameCells
  <2>4. UNCHANGED Posix!directory
    BY <1>1 DEF directory, Posix!directory
  <2> QED
    BY <1>0, <1>7, <2>1, <2>2, <2>3, <2>4 DEF Posix!PunchFile, Posix!SetFile, Posix!Synced
<1> QED
  BY <1>8, <1>9

\* fsync, the dropping of all pages, and the start of writeback.
LEMMA SyncFileStep ==
    ASSUME FInv, NEW t \in Threads, SyncFile(t)
    PROVE  FInv' /\ Posix!SyncFile(t)
<1>0. PICK f, cs, none, new, da, al :
        /\ f = Step(t).f /\ cs = csize[f] /\ none = {} /\ new = Empty
        /\ da = FlushedData(f) /\ al = FlushedAlloc(f)
  OBVIOUS
<1>1. /\ At(t, "fsync") \/ At(t, "drop") \/ At(t, "kick")
      /\ Return(t, OK) /\ UNCHANGED directory
  BY DEF SyncFile
<1>2. f \in Files
  BY <1>0, <1>1, StepFormed DEF WellFormed, ControlOps, FInv
<1>3. UNCHANGED Posix!directory
  BY <1>1 DEF directory, Posix!directory
<1>4. CASE At(t, "fsync")
  <2>1. ~At(t, "drop") /\ ~At(t, "kick")
    BY <1>4 DEF At
  <2>2. Flush(f)
    BY <1>0, <2>1 DEF SyncFile
  <2>3. /\ FileTypes' /\ AllSound'
        /\ csize' = csize /\ Content' = Content /\ Filled' = Filled
        /\ CleanFiles' = CleanFiles \cup {f}
    BY <1>2, <2>2, FlushStep DEF FInv
  <2>4. FInv'
    BY <1>1, <2>3, ReturnTypes DEF FInv
  <2>5. Posix!SyncFile(t)
    BY <1>0, <1>1, <1>3, <1>4, <2>1, <2>3, SamePort, SameCells
    DEF Posix!SyncFile, Posix!file, Posix!Synced
  <2> QED
    BY <2>4, <2>5
<1>5. CASE At(t, "kick")
  <2>1. ~At(t, "drop") /\ ~At(t, "fsync")
    BY <1>5 DEF At
  <2>2. UNCHANGED <<client, server>>
    BY <2>1 DEF SyncFile
  <2>3. FInv'
    BY <1>1, <2>2, NoFile, ReturnTypes DEF FInv
  <2>4. Posix!SyncFile(t)
    BY <1>0, <1>1, <1>3, <1>5, <2>1, <2>2, NoFile, SamePort, SameCells
    DEF Posix!SyncFile, Posix!file
  <2> QED
    BY <2>3, <2>4
<1>6. CASE At(t, "drop")
  <2>1. ~At(t, "kick") /\ ~At(t, "fsync")
    BY <1>6 DEF At
  <2>2. /\ FlushedSize(f) = cs /\ Clean(cs, page[f], da) /\ Seen(page[f], da) = Content[f]
        /\ al \in SUBSET Cells /\ al = Filled[f]
    BY <1>0, <1>2, FlushedFile DEF FInv
  <2>3. SetClient(f, cs, new, none) /\ SetServer(f, cs, da, al)
    BY <1>0, <2>1, <2>2 DEF SyncFile, ServerFlushed, SetClient, SetServer
  <2>4. Clean(cs, new, da) /\ Seen(new, da) = Erase(Content[f], Extent(cs, Limit))
    BY <1>0, <2>2, CleanDrop
  <2>5. /\ FileTypes' /\ AllSound'
        /\ csize' = [csize EXCEPT ![f] = cs]
        /\ Content' = [Content EXCEPT ![f] = Seen(new, da)]
        /\ Filled' = [Filled EXCEPT ![f] = al]
        /\ CleanFiles' = CleanFiles \cup {f}
    <3>1. FileTypes /\ AllSound /\ none = {}
      BY <1>0 DEF FInv
    <3> QED
      BY <1>2, <2>2, <2>3, <2>4, <3>1, SyncedFile
  <2>6. FInv'
    BY <1>1, <2>5, ReturnTypes DEF FInv
  <2>7. Posix!SyncFile(t)
    <3>1. Content' = [Content EXCEPT ![f] =
            Posix!Erase(Content[f], Posix!Extent(csize[f], Limit))]
      BY <1>0, <2>4, <2>5, SameCells
    <3>2. /\ Posix!Step(t) = Step(t) /\ Posix!Return(t, Posix!OK) /\ Posix!At(t, "drop")
          /\ ~Posix!At(t, "kick")
      BY <1>1, <1>6, <2>1, SamePort, SameCells
    <3> QED
      BY <1>0, <1>3, <2>2, <2>5, <3>1, <3>2
      DEF Posix!SyncFile, Posix!SetFile, Posix!Trimmed, Posix!Synced
  <2> QED
    BY <2>6, <2>7
<1> QED
  BY <1>1, <1>4, <1>5, <1>6

\* A buffered or mapped read.
LEMMA ReadFileStep ==
    ASSUME FInv, NEW t \in Threads, ReadFile(t)
    PROVE  FInv' /\ Posix!ReadFile(t)
<1>0. PICK f, C, cs, D, new :
        /\ f = Step(t).f /\ C = Extent(Step(t).at, Step(t).n) \cap Extent(0, csize[f])
        /\ cs = csize[f] /\ D = dirty[f] /\ new = Cached(f, C)
  OBVIOUS
<1>1. /\ At(t, "read") \/ (At(t, "read_range") /\ f \in names) \/ At(t, "mread")
      /\ Return(t, IF At(t, "mread") THEN Slice(View(f), Step(t).at, Step(t).n)
                   ELSE Window(View(f), cs, Step(t).at, Step(t).n))
      /\ SetClient(f, cs, new, D) /\ UNCHANGED server
      /\ IF At(t, "read_range")
         THEN fputs' = fputs \cup {f} /\ UNCHANGED <<dir, names, open, silly>>
         ELSE UNCHANGED directory
  BY <1>0 DEF ReadFile, Return
<1>2. f \in Files
  BY <1>0, <1>1, StepFormed DEF WellFormed, ControlOps, FInv
<1>3. Sound(cs, page[f], D, ssize[f], data[f])
  BY <1>0, <1>2 DEF FInv, AllSound, SoundFile
<1>4. Sound(cs, new, D, ssize[f], data[f]) /\ Seen(new, data[f]) = View(f)
  <2>1. View(f) = Seen(page[f], data[f])
    BY DEF View, Seen
  <2>2. new = [c \in Cells |-> IF c \in C THEN Seen(page[f], data[f])[c] ELSE page[f][c]]
    BY <1>0, <2>1 DEF Cached
  <2> QED
    BY <1>3, <2>1, <2>2, ReadSound
<1>5. /\ FileTypes' /\ AllSound'
      /\ csize' = [csize EXCEPT ![f] = cs]
      /\ Content' = [Content EXCEPT ![f] = Seen(new, data[f])]
      /\ Filled' = [Filled EXCEPT ![f] = alloc[f] \cup D]
      /\ CleanFiles' = IF D = {} THEN CleanFiles \cup {f} ELSE CleanFiles \ {f}
  <2>1. FileTypes /\ AllSound
    BY DEF FInv
  <2> QED
    BY <1>1, <1>2, <1>4, <2>1, OneClient
<1>6. csize' = csize /\ Content' = Content /\ Filled' = Filled /\ CleanFiles' = CleanFiles
  <2>1. /\ csize \in [Files -> 0 .. Limit]
        /\ Content = [g \in Files |-> Content[g]] /\ Filled = [g \in Files |-> Filled[g]]
        /\ Content[f] = View(f) /\ Filled[f] = alloc[f] \cup D
        /\ D = {} <=> f \in CleanFiles
    BY <1>0, <1>2 DEF FInv, FileTypes, Content, Filled, CleanFiles
  <2> QED
    BY <1>0, <1>4, <1>5, <2>1
<1>7. FInv'
  BY <1>1, <1>5, ReturnTypes DEF FInv
<1>8. Posix!ReadFile(t)
  <2>1. Content[f] = View(f) /\ ~At(t, "dread")
    BY <1>1, <1>2 DEF Content, At
  <2>2. Posix!Return(t, IF Posix!At(t, "mread")
                        THEN Posix!Slice(Content[Posix!Step(t).f], Posix!Step(t).at, Posix!Step(t).n)
                        ELSE Posix!Window(Content[Posix!Step(t).f], csize[Posix!Step(t).f],
                                          Posix!Step(t).at, Posix!Step(t).n))
    BY <1>0, <1>1, <2>1, SamePort, SameCells
  <2>3. IF Posix!At(t, "read_range")
        THEN fputs' = fputs \cup {f} /\ UNCHANGED <<dir, names, open, silly>>
        ELSE UNCHANGED Posix!directory
    BY <1>1, SamePort DEF directory, Posix!directory
  <2> QED
    BY <1>0, <1>1, <1>6, <2>1, <2>2, <2>3, SamePort DEF Posix!ReadFile, Posix!file
<1> QED
  BY <1>7, <1>8

\* A direct read.
LEMMA DirectReadStep ==
    ASSUME FInv, NEW t \in Threads, DirectRead(t)
    PROVE  FInv' /\ Posix!ReadFile(t)
<1>0. PICK f, at, n, cs, fd : /\ f = Step(t).f /\ at = Step(t).at /\ n = Step(t).n
                              /\ cs = csize[f] /\ fd = FlushedData(f)
  OBVIOUS
<1>1. /\ At(t, "dread") /\ Flush(f) /\ UNCHANGED directory
      /\ Return(t, Window(FlushedData(f), FlushedSize(f), Step(t).at, Step(t).n))
  BY <1>0 DEF DirectRead, Return
<1>2. f \in Files /\ at \in Nat /\ n \in Nat
  BY <1>0, <1>1, StepFormed DEF WellFormed, ControlOps, FInv
<1>3. /\ FlushedSize(f) = cs /\ View(f) = Content[f] /\ cs \in 0 .. Limit
      /\ \A c \in Cells : c < cs => fd[c] = View(f)[c]
  BY <1>0, <1>2, FlushedFile DEF FInv, FileTypes
<1>4. Window(fd, cs, at, n) = Window(Content[f], cs, at, n)
  BY <1>2, <1>3, WindowSame
<1>5. /\ FileTypes' /\ AllSound'
      /\ csize' = csize /\ Content' = Content /\ Filled' = Filled
      /\ CleanFiles' = CleanFiles \cup {f}
  BY <1>1, <1>2, FlushStep DEF FInv
<1>6. FInv'
  BY <1>1, <1>5, ReturnTypes DEF FInv
<1>7. Posix!ReadFile(t)
  <2>1. ~At(t, "mread") /\ ~At(t, "read_range")
    BY <1>1 DEF At
  <2>2. Posix!Return(t, IF Posix!At(t, "mread")
                        THEN Posix!Slice(Content[Posix!Step(t).f], Posix!Step(t).at, Posix!Step(t).n)
                        ELSE Posix!Window(Content[Posix!Step(t).f], csize[Posix!Step(t).f],
                                          Posix!Step(t).at, Posix!Step(t).n))
    <3>1. Window(FlushedData(f), FlushedSize(f), Step(t).at, Step(t).n)
            = Window(Content[Step(t).f], csize[Step(t).f], Step(t).at, Step(t).n)
      BY <1>0, <1>3, <1>4
    <3> QED
      BY <1>1, <2>1, <3>1, SamePort, SameCells
  <2>3. UNCHANGED Posix!directory
    BY <1>1 DEF directory, Posix!directory
  <2> QED
    BY <1>0, <1>1, <1>5, <2>1, <2>2, <2>3, SamePort DEF Posix!ReadFile, Posix!file, Posix!Synced
<1> QED
  BY <1>6, <1>7

\* stat and llseek.
LEMMA AskFileStep ==
    ASSUME FInv, NEW t \in Threads, AskFile(t)
    PROVE  FInv' /\ Posix!AskFile(t)
<1>0. PICK f : f = Step(t).f
  OBVIOUS
<1>1. /\ At(t, "size") \/ At(t, "blocks") \/ At(t, "seek_data") \/ At(t, "seek_hole")
      /\ Flush(f) /\ UNCHANGED directory
  BY <1>0 DEF AskFile
<1>2. f \in Files
  BY <1>0, <1>1, StepFormed DEF WellFormed, ControlOps, FInv
<1>3. FlushedSize(f) = csize[f] /\ FlushedAlloc(f) = Filled[f]
  BY <1>2, FlushedFile DEF FInv
<1>4. /\ FileTypes' /\ AllSound'
      /\ csize' = csize /\ Content' = Content /\ Filled' = Filled
      /\ CleanFiles' = CleanFiles \cup {f}
  BY <1>1, <1>2, FlushStep DEF FInv
<1>5. FInv'
  BY <1>4, ReturnTypes DEF FInv, AskFile
<1>6. \/ At(t, "size") /\ f \in names /\ Return(t, <<csize[f]>>)
      \/ At(t, "blocks") /\ f \in names /\ Return(t, <<Cardinality(Filled[f])>>)
      \/ At(t, "seek_data") /\ Return(t, NextData(Filled[f], csize[f], Step(t).at))
      \/ At(t, "seek_hole") /\ Return(t, NextHole(Filled[f], csize[f], Step(t).at))
  BY <1>0, <1>3 DEF AskFile
<1>7. UNCHANGED Posix!directory
  BY <1>1 DEF directory, Posix!directory
<1>8. \/ Posix!At(t, "size") /\ Posix!Step(t).f \in names
         /\ Posix!Return(t, <<csize[Posix!Step(t).f]>>)
      \/ Posix!At(t, "blocks") /\ Posix!Step(t).f \in names
         /\ Posix!Return(t, <<Posix!Cardinality(Filled[Posix!Step(t).f])>>)
      \/ Posix!At(t, "seek_data")
         /\ Posix!Return(t, Posix!NextData(Filled[Posix!Step(t).f], csize[Posix!Step(t).f],
                                          Posix!Step(t).at))
      \/ Posix!At(t, "seek_hole")
         /\ Posix!Return(t, Posix!NextHole(Filled[Posix!Step(t).f], csize[Posix!Step(t).f],
                                          Posix!Step(t).at))
  <2>0. Posix!Step(t) = Step(t) /\ \A op : Posix!At(t, op) <=> At(t, op)
    BY SamePort
  <2>1. CASE At(t, "size") /\ f \in names /\ Return(t, <<csize[f]>>)
    BY <1>0, <2>0, <2>1, SamePort
  <2>2. CASE At(t, "blocks") /\ f \in names /\ Return(t, <<Cardinality(Filled[f])>>)
    BY <1>0, <2>0, <2>2, SameCount, SamePort
  <2>3. CASE At(t, "seek_data") /\ Return(t, NextData(Filled[f], csize[f], Step(t).at))
    BY <1>0, <2>0, <2>3, SameCells, SamePort
  <2>4. CASE At(t, "seek_hole") /\ Return(t, NextHole(Filled[f], csize[f], Step(t).at))
    BY <1>0, <2>0, <2>4, SameCells, SamePort
  <2> QED
    BY <1>6, <2>1, <2>2, <2>3, <2>4
<1>9. Posix!AskFile(t)
  <2>1. Posix!Synced(Posix!Step(t).f)
    BY <1>0, <1>4, SamePort DEF Posix!Synced
  <2>2. UNCHANGED <<Posix!directory, Posix!file>>
    BY <1>4, <1>7 DEF Posix!file
  <2> QED
    BY <1>8, <2>1, <2>2 DEF Posix!AskFile
<1> QED
  BY <1>5, <1>9

\* The server's own path: it agrees with a file that is clean.
LEMMA ServerFileStep ==
    ASSUME FInv, NEW t \in Threads, ServerFile(t)
    PROVE  FInv' /\ Posix!ServerFile(t)
<1>0. PICK f, at, n, cs, da : /\ f = Step(t).f /\ at = Step(t).at /\ n = Step(t).n
                              /\ cs = csize[f] /\ da = data[f]
  OBVIOUS
<1>1. /\ At(t, "sread") \/ (At(t, "ssize") /\ f \in names)
      /\ UNCHANGED directory /\ UNCHANGED <<client, server>>
  BY <1>0 DEF ServerFile
<1>2. f \in Files /\ at \in Nat /\ n \in Nat
  BY <1>0, <1>1, StepFormed DEF WellFormed, ControlOps, FInv
<1>3. FInv'
  BY <1>1, NoFile, ReturnTypes DEF FInv, ServerFile
<1>4. csize' = csize /\ Content' = Content /\ Filled' = Filled /\ CleanFiles' = CleanFiles
  BY <1>1, NoFile
<1>5. UNCHANGED Posix!directory
  BY <1>1 DEF directory, Posix!directory
<1>6. CASE f \in CleanFiles
  <2>1. Sound(cs, page[f], {}, ssize[f], da)
    BY <1>0, <1>2, <1>6 DEF CleanFiles, FInv, AllSound, SoundFile
  <2>2. ssize[f] = cs /\ cs \in 0 .. Limit
    BY <2>1, CellTypes DEF Sound
  <2>3. \A c \in Cells : c < cs => da[c] = View(f)[c]
    BY <1>0, <2>1, CellTypes DEF Sound, View
  <2>4. Content[f] = View(f)
    BY <1>2 DEF Content
  <2>5. Window(da, cs, at, n) = Window(Content[f], cs, at, n)
    BY <1>2, <2>2, <2>3, <2>4, WindowSame
  <2>6. \/ At(t, "sread") /\ Return(t, Window(Content[f], csize[f], Step(t).at, Step(t).n))
        \/ At(t, "ssize") /\ f \in names /\ Return(t, <<csize[f]>>)
    <3>1. Window(data[f], ssize[f], Step(t).at, Step(t).n)
            = Window(Content[f], csize[f], Step(t).at, Step(t).n)
      BY <1>0, <2>2, <2>5
    <3>2. ssize[f] = csize[f]
      BY <1>0, <2>2
    <3> QED
      BY <1>0, <3>1, <3>2 DEF ServerFile
  <2>7. Posix!Return(t, IF Posix!At(t, "ssize") THEN <<csize[Posix!Step(t).f]>>
                        ELSE Posix!Window(Content[Posix!Step(t).f], csize[Posix!Step(t).f],
                                          Posix!Step(t).at, Posix!Step(t).n))
    <3>1. ~(At(t, "sread") /\ At(t, "ssize"))
      BY DEF At
    <3> QED
      BY <1>0, <2>6, <3>1, SamePort, SameCells
  <2>8. Posix!ServerFile(t)
    BY <1>0, <1>1, <1>4, <1>5, <1>6, <2>7, SamePort DEF Posix!ServerFile, Posix!file
  <2> QED
    BY <1>3, <2>8
<1>7. CASE f \notin CleanFiles
  <2>1. \E fine \in BOOLEAN : Posix!Follow(t, fine)
    <3>1. PICK got : Return(t, got)
      BY DEF ServerFile
    <3>2. Follow(t, got \in Step(t).want) /\ (got \in Step(t).want) \in BOOLEAN
      BY <3>1 DEF Return
    <3> QED
      BY <3>2, SamePort
  <2>2. Posix!ServerFile(t)
    BY <1>0, <1>1, <1>4, <1>5, <1>7, <2>1, SamePort DEF Posix!ServerFile, Posix!file
  <2> QED
    BY <1>3, <2>2
<1> QED
  BY <1>6, <1>7

\* The writeback of one cell, and the reclaiming of the clean pages.
LEMMA WritebackStep ==
    ASSUME FInv, NEW f \in Files, Writeback(f)
    PROVE  FInv' /\ (Posix!CatchUp(f) \/ UNCHANGED Posix!vars)
<1>1. PICK c \in dirty[f] :
        /\ SetClient(f, csize[f], page[f], dirty[f] \ {c})
        /\ SetServer(f, Larger(ssize[f], c + 1), [data[f] EXCEPT ![c] = page[f][c]], alloc[f] \cup {c})
        /\ UNCHANGED <<control, directory>>
  BY DEF Writeback
<1>0. PICK cs, pg, D, ss, da, al :
        /\ cs = csize[f] /\ pg = page[f] /\ D = dirty[f] \ {c}
        /\ ss = Larger(ssize[f], c + 1) /\ da = [data[f] EXCEPT ![c] = page[f][c]]
        /\ al = alloc[f] \cup {c}
  OBVIOUS
<1>2. SetClient(f, cs, pg, D) /\ SetServer(f, ss, da, al)
  BY <1>0, <1>1 DEF SetClient, SetServer
<1>3. Sound(cs, pg, dirty[f], ssize[f], data[f])
  BY <1>0 DEF FInv, AllSound, SoundFile
<1>4. Sound(cs, pg, D, ss, da) /\ Seen(pg, da) = Seen(pg, data[f])
  BY <1>0, <1>1, <1>3, WritebackSound
<1>5. al \in SUBSET Cells /\ al \cup D = alloc[f] \cup dirty[f]
  BY <1>0 DEF FInv, FileTypes
<1>6. /\ FileTypes' /\ AllSound'
      /\ csize' = [csize EXCEPT ![f] = cs]
      /\ Content' = [Content EXCEPT ![f] = Seen(pg, da)]
      /\ Filled' = [Filled EXCEPT ![f] = al \cup D]
      /\ CleanFiles' = IF D = {} THEN CleanFiles \cup {f} ELSE CleanFiles \ {f}
  <2>1. FileTypes /\ AllSound
    BY DEF FInv
  <2> QED
    BY <1>2, <1>4, <1>5, <2>1, OneFile
<1>7. csize' = csize /\ Content' = Content /\ Filled' = Filled
  <2>1. /\ csize \in [Files -> 0 .. Limit]
        /\ Content = [g \in Files |-> Content[g]] /\ Filled = [g \in Files |-> Filled[g]]
        /\ Content[f] = Seen(page[f], data[f]) /\ Filled[f] = alloc[f] \cup dirty[f]
    BY DEF FInv, FileTypes, Content, Filled, View, Seen
  <2> QED
    BY <1>0, <1>4, <1>5, <1>6, <2>1
<1>8. CleanFiles' = CleanFiles \cup {f} \/ CleanFiles' = CleanFiles
  <2>1. f \notin CleanFiles
    BY DEF CleanFiles
  <2> QED
    BY <1>6, <2>1
<1>9. FInv'
  BY <1>1, <1>6 DEF FInv, ControlTypes, control
<1>10. UNCHANGED Posix!control /\ UNCHANGED Posix!directory
  BY <1>1 DEF control, directory, Posix!control, Posix!directory
<1> QED
  BY <1>7, <1>8, <1>9, <1>10 DEF Posix!CatchUp, Posix!file, Posix!vars

\* Reclaiming clean pages loses at most what a mapping stored past the end.
LEMMA ReclaimStep ==
    ASSUME FInv, NEW f \in Files, Reclaim(f)
    PROVE  FInv' /\ Posix!Reclaim(f)
<1>0. PICK cs, D, new : cs = csize[f] /\ D = dirty[f] /\ new = Without(page[f], Cells \ D)
  OBVIOUS
<1>1. SetClient(f, cs, new, D) /\ UNCHANGED <<control, directory>> /\ UNCHANGED server
  BY <1>0 DEF Reclaim
<1>2. Sound(cs, page[f], D, ssize[f], data[f])
  BY <1>0 DEF FInv, AllSound, SoundFile
<1>3. /\ Sound(cs, new, D, ssize[f], data[f])
      /\ Seen(new, data[f]) = Erase(Seen(page[f], data[f]), Extent(cs, Limit))
  BY <1>0, <1>2, ReclaimSound
<1>4. /\ FileTypes' /\ AllSound'
      /\ csize' = [csize EXCEPT ![f] = cs]
      /\ Content' = [Content EXCEPT ![f] = Seen(new, data[f])]
      /\ Filled' = [Filled EXCEPT ![f] = alloc[f] \cup D]
      /\ CleanFiles' = IF D = {} THEN CleanFiles \cup {f} ELSE CleanFiles \ {f}
  <2>1. FileTypes /\ AllSound
    BY DEF FInv
  <2> QED
    BY <1>1, <1>3, <2>1, OneClient
<1>5. FInv'
  BY <1>1, <1>4 DEF FInv, ControlTypes, control
<1>6. Posix!Reclaim(f)
  <2>1. /\ Content[f] = Seen(page[f], data[f]) /\ Filled[f] = alloc[f] \cup D
        /\ D = {} <=> f \in CleanFiles
    BY <1>0 DEF Content, View, Seen, Filled, CleanFiles
  <2>2. Content' = [Content EXCEPT ![f] = Posix!Erase(Content[f], Posix!Extent(csize[f], Limit))]
    BY <1>0, <1>3, <1>4, <2>1, SameCells
  <2>3. UNCHANGED Posix!control /\ UNCHANGED Posix!directory
    BY <1>1 DEF control, directory, Posix!control, Posix!directory
  <2>4. CleanFiles' = CleanFiles
    BY <1>4, <2>1
  <2> QED
    BY <1>0, <1>4, <2>1, <2>2, <2>3, <2>4 DEF Posix!Reclaim, Posix!SetFile, Posix!Trimmed
<1> QED
  BY <1>5, <1>6

\* Every file has the given state after the step.
LEMMA EachFile ==
    ASSUME NEW cs, NEW pg, NEW dt, NEW ss, NEW da, NEW al,
           csize' = cs, page' = pg, dirty' = dt, ssize' = ss, data' = da, alloc' = al,
           cs \in [Files -> 0 .. Limit], ss \in [Files -> 0 .. Limit],
           pg \in [Files -> [Cells -> Cell]], da \in [Files -> [Cells -> Nat]],
           dt \in [Files -> SUBSET Cells], al \in [Files -> SUBSET Cells],
           \A h \in Files : Sound(cs[h], pg[h], dt[h], ss[h], da[h])
    PROVE  /\ FileTypes' /\ AllSound'
           /\ Content' = [h \in Files |-> Seen(pg[h], da[h])]
           /\ Filled' = [h \in Files |-> al[h] \cup dt[h]]
           /\ CleanFiles' = {h \in Files : dt[h] = {}}
<1>1. FileTypes'
  BY DEF FileTypes
<1>2. AllSound'
  BY DEF AllSound, SoundFile
<1>3. Content' = [h \in Files |-> Seen(pg[h], da[h])]
  <2>1. \A h \in Files : View(h)' = Seen(pg[h], da[h])
    BY DEF View, Seen
  <2> QED
    BY <2>1 DEF Content
<1>4. Filled' = [h \in Files |-> al[h] \cup dt[h]] /\ CleanFiles' = {h \in Files : dt[h] = {}}
  BY DEF Filled, CleanFiles
<1> QED
  BY <1>1, <1>2, <1>3, <1>4

\* A rename moves everything that is cached along.
LEMMA RenameFileStep ==
    ASSUME FInv, NEW t \in Threads, RenameFile(t)
    PROVE  FInv' /\ Posix!RenameFile(t)
<1>0. PICK f, g : f = Step(t).f /\ g = Step(t).g
  OBVIOUS
<1>1. /\ At(t, "rename") /\ f \in names /\ open[f] = 0 /\ open[g] = 0
      /\ Return(t, OK) /\ MoveName(f, g)
      /\ csize' = [csize EXCEPT ![g] = csize[f], ![f] = 0]
      /\ page' = [page EXCEPT ![g] = page[f], ![f] = Empty]
      /\ dirty' = [dirty EXCEPT ![g] = dirty[f], ![f] = {}]
      /\ ssize' = [ssize EXCEPT ![g] = ssize[f], ![f] = 0]
      /\ data' = [data EXCEPT ![g] = data[f], ![f] = Zeros]
      /\ alloc' = [alloc EXCEPT ![g] = alloc[f], ![f] = {}]
  BY <1>0 DEF RenameFile
<1>2. f \in Files /\ g \in Files
  BY <1>0, <1>1, StepFormed DEF WellFormed, ControlOps, FInv
<1>3. PICK cs, pg, dt, ss, da, al :
        /\ cs = [csize EXCEPT ![g] = csize[f], ![f] = 0]
        /\ pg = [page EXCEPT ![g] = page[f], ![f] = Empty]
        /\ dt = [dirty EXCEPT ![g] = dirty[f], ![f] = {}]
        /\ ss = [ssize EXCEPT ![g] = ssize[f], ![f] = 0]
        /\ da = [data EXCEPT ![g] = data[f], ![f] = Zeros]
        /\ al = [alloc EXCEPT ![g] = alloc[f], ![f] = {}]
  OBVIOUS
<1>4. /\ Clean(0, Empty, Zeros) /\ Seen(Empty, Zeros) = Zeros
      /\ Empty \in [Cells -> Cell] /\ Zeros \in [Cells -> Nat]
  BY CleanNew DEF Clean, Sound
<1>5. /\ cs \in [Files -> 0 .. Limit] /\ ss \in [Files -> 0 .. Limit]
      /\ pg \in [Files -> [Cells -> Cell]] /\ da \in [Files -> [Cells -> Nat]]
      /\ dt \in [Files -> SUBSET Cells] /\ al \in [Files -> SUBSET Cells]
  <2>1. /\ csize \in [Files -> 0 .. Limit] /\ ssize \in [Files -> 0 .. Limit]
        /\ page \in [Files -> [Cells -> Cell]] /\ data \in [Files -> [Cells -> Nat]]
        /\ dirty \in [Files -> SUBSET Cells] /\ alloc \in [Files -> SUBSET Cells]
    BY DEF FInv, FileTypes
  <2>2. 0 \in 0 .. Limit
    BY CellTypes
  <2>3. cs \in [Files -> 0 .. Limit] /\ ss \in [Files -> 0 .. Limit]
    BY <1>2, <1>3, <2>1, <2>2
  <2>4. pg \in [Files -> [Cells -> Cell]] /\ da \in [Files -> [Cells -> Nat]]
    BY <1>2, <1>3, <1>4, <2>1
  <2>5. dt \in [Files -> SUBSET Cells] /\ al \in [Files -> SUBSET Cells]
    BY <1>2, <1>3, <2>1
  <2> QED
    BY <2>3, <2>4, <2>5
<1>6. /\ cs[f] = 0 /\ pg[f] = Empty /\ dt[f] = {} /\ ss[f] = 0 /\ da[f] = Zeros /\ al[f] = {}
      /\ g # f => /\ cs[g] = csize[f] /\ pg[g] = page[f] /\ dt[g] = dirty[f]
                  /\ ss[g] = ssize[f] /\ da[g] = data[f] /\ al[g] = alloc[f]
      /\ \A h \in Files \ {f, g} :
           /\ cs[h] = csize[h] /\ pg[h] = page[h] /\ dt[h] = dirty[h]
           /\ ss[h] = ssize[h] /\ da[h] = data[h] /\ al[h] = alloc[h]
  BY <1>2, <1>3 DEF FInv, FileTypes
<1>7. ASSUME NEW h \in Files PROVE Sound(cs[h], pg[h], dt[h], ss[h], da[h])
  <2>1. CASE h = f
    BY <1>4, <1>6, <2>1 DEF Clean
  <2>2. CASE h = g /\ g # f
    BY <1>2, <1>6, <2>2 DEF FInv, AllSound, SoundFile
  <2>3. CASE h \notin {f, g}
    BY <1>6, <2>3 DEF FInv, AllSound, SoundFile
  <2> QED
    BY <2>1, <2>2, <2>3
<1>8. /\ FileTypes' /\ AllSound'
      /\ Content' = [h \in Files |-> Seen(pg[h], da[h])]
      /\ Filled' = [h \in Files |-> al[h] \cup dt[h]]
      /\ CleanFiles' = {h \in Files : dt[h] = {}}
  <2>1. csize' = cs /\ page' = pg /\ dirty' = dt /\ ssize' = ss /\ data' = da /\ alloc' = al
    BY <1>1, <1>3
  <2> QED
    BY <1>5, <1>7, <2>1, EachFile
<1>9. FInv'
  BY <1>1, <1>8, ReturnTypes DEF FInv
<1>10. Posix!RenameFile(t)
  <2>1. Content' = [Content EXCEPT ![g] = Content[f], ![f] = Posix!Zeros]
    <3>1. \A h \in Files : Content[h] = Seen(page[h], data[h])
      BY DEF Content, View, Seen
    <3>2. \A h \in Files : Seen(pg[h], da[h]) = IF h = f THEN Zeros
                                                ELSE IF h = g THEN Content[f] ELSE Content[h]
      BY <1>2, <1>4, <1>6, <3>1
    <3>3. Content = [h \in Files |-> Content[h]]
      BY DEF Content
    <3> QED
      BY <1>2, <1>8, <3>2, <3>3, SameCells
  <2>2. Filled' = [Filled EXCEPT ![g] = Filled[f], ![f] = {}]
    <3>1. \A h \in Files : Filled[h] = alloc[h] \cup dirty[h]
      BY DEF Filled
    <3>2. \A h \in Files : al[h] \cup dt[h] = IF h = f THEN {}
                                              ELSE IF h = g THEN Filled[f] ELSE Filled[h]
      BY <1>2, <1>6, <3>1
    <3>3. Filled = [h \in Files |-> Filled[h]]
      BY DEF Filled
    <3> QED
      BY <1>2, <1>8, <3>2, <3>3
  <2>3. CleanFiles' = (IF f \in CleanFiles THEN CleanFiles \cup {g} ELSE CleanFiles \ {g}) \cup {f}
    BY <1>2, <1>6, <1>8 DEF CleanFiles
  <2>4. csize' = [csize EXCEPT ![g] = csize[f], ![f] = 0]
    BY <1>1
  <2>5. /\ Posix!Step(t) = Step(t) /\ Posix!At(t, "rename") /\ Posix!Return(t, Posix!OK)
    BY <1>1, SamePort, SameCells
  <2>6. Posix!MoveName(f, g)
    BY <1>1 DEF MoveName, Posix!MoveName
  <2> QED
    BY <1>0, <1>1, <2>1, <2>2, <2>3, <2>4, <2>5, <2>6 DEF Posix!RenameFile, Posix!MoveName
<1> QED
  BY <1>9, <1>10

\* A copy flushes both files and writes the second on the server.
LEMMA CopyFileStep ==
    ASSUME FInv, NEW t \in Threads, CopyFile(t)
    PROVE  FInv' /\ Posix!CopyFile(t)
<1>0. PICK f, g, at, to, n, v, C, s, fd, new, nda :
        /\ f = Step(t).f /\ g = Step(t).g /\ at = Step(t).at /\ to = Step(t).to /\ n = Step(t).n
        /\ fd = FlushedData(f) /\ v = Window(fd, FlushedSize(f), at, n)
        /\ C = Extent(to, Len(v))
        /\ s = (IF v = <<>> THEN csize[g] ELSE Larger(csize[g], to + Len(v)))
        /\ new = Without(page[g], C \cup PastEnd(g, s))
        /\ nda = Overwrite(FlushedData(g), to, v)
  OBVIOUS
<1>1. At(t, "copy") /\ UNCHANGED directory /\ Return(t, <<Len(v)>>)
  BY <1>0 DEF CopyFile, Return
<1>2. /\ f \in Files /\ g \in Files /\ at \in Nat /\ to \in Nat /\ n \in Nat /\ to + n <= Limit
  BY <1>0, <1>1, StepFormed DEF WellFormed, ControlOps, FInv
<1>3. ASSUME NEW h \in Files
      PROVE  /\ FlushedSize(h) = csize[h] /\ Clean(csize[h], page[h], FlushedData(h))
             /\ Seen(page[h], FlushedData(h)) = Content[h]
             /\ FlushedData(h) \in [Cells -> Nat]
             /\ FlushedAlloc(h) \in SUBSET Cells /\ FlushedAlloc(h) = Filled[h]
             /\ \A c \in Cells : c < csize[h] => FlushedData(h)[c] = Content[h][c]
             /\ csize[h] \in 0 .. Limit
  <2>1. FileTypes /\ AllSound /\ csize[h] \in 0 .. Limit
    BY DEF FInv, FileTypes
  <2> QED
    BY <2>1, FlushedFile
<1>4. /\ v = Window(Content[f], csize[f], at, n)
      /\ v \in Seq(Nat) /\ Len(v) <= n
  <2>1. PICK cs : cs = csize[f]
    OBVIOUS
  <2>2. /\ FlushedSize(f) = cs /\ cs \in 0 .. Limit /\ fd \in [Cells -> Nat]
        /\ \A c \in Cells : c < cs => fd[c] = Content[f][c]
    BY <1>0, <1>2, <1>3, <2>1
  <2>3. Window(fd, cs, at, n) = Window(Content[f], cs, at, n)
    BY <1>2, <2>2, WindowSame
  <2>4. Window(fd, cs, at, n) \in Seq(Nat) /\ Len(Window(fd, cs, at, n)) <= n
    BY <1>2, <2>2, WindowCells
  <2>5. v = Window(fd, cs, at, n)
    BY <1>0, <2>2
  <2> QED
    BY <2>1, <2>3, <2>4, <2>5
<1>5. Fits(csize[g], to, v, s)
  <2>1. to + Len(v) <= Limit
    <3>1. Len(v) \in Nat
      BY <1>4, LenProperties
    <3> QED
      BY <1>2, <1>4, <3>1, CellTypes
  <2> QED
    BY <1>0, <1>2, <1>4, <2>1 DEF Fits
<1>6. /\ Clean(s, new, nda) /\ Seen(new, nda) = Overwrite(Zeroed(Content[g], csize[g], s), to, v)
  <2>1. PastEnd(g, s) = Past(csize[g], s)
    BY DEF PastEnd, Past
  <2>2. new = Without(page[g], Extent(to, Len(v)) \cup Past(csize[g], s))
    BY <1>0, <2>1
  <2>3. nda = Overwrite(FlushedData(g), to, v)
    BY <1>0
  <2>4. Clean(csize[g], page[g], FlushedData(g)) /\ Seen(page[g], FlushedData(g)) = Content[g]
    BY <1>2, <1>3
  <2> QED
    BY <1>5, <2>2, <2>3, <2>4, CleanWrite
<1>7. PICK cs, pg, dt, ss, da, al :
        /\ cs = [csize EXCEPT ![g] = s]
        /\ pg = [page EXCEPT ![g] = new]
        /\ dt = [dirty EXCEPT ![f] = {}, ![g] = {}]
        /\ ss = [ssize EXCEPT ![f] = csize[f], ![g] = s]
        /\ da = [data EXCEPT ![f] = fd, ![g] = nda]
        /\ al = [alloc EXCEPT ![f] = Filled[f], ![g] = Filled[g] \cup C]
  OBVIOUS
<1>8. csize' = cs /\ page' = pg /\ dirty' = dt /\ ssize' = ss /\ data' = da /\ alloc' = al
  <2>1. FlushedSize(g) = csize[g] /\ FlushedAlloc(g) = Filled[g] /\ FlushedSize(f) = csize[f]
        /\ FlushedAlloc(f) = Filled[f]
    BY <1>2, <1>3
  <2>2. page' = pg
    BY <1>0, <1>7 DEF CopyFile
  <2>3. csize' = cs /\ dirty' = dt
    BY <1>0, <1>7 DEF CopyFile
  <2>4. ssize' = ss
    BY <1>0, <1>7, <2>1 DEF CopyFile
  <2>5. data' = da
    BY <1>0, <1>7 DEF CopyFile
  <2>6. alloc' = al
    BY <1>0, <1>7, <2>1 DEF CopyFile
  <2> QED
    BY <2>2, <2>3, <2>4, <2>5, <2>6
<1>9. /\ s \in 0 .. Limit /\ new \in [Cells -> Cell] /\ nda \in [Cells -> Nat]
      /\ fd \in [Cells -> Nat] /\ csize[f] \in 0 .. Limit
      /\ Filled[f] \in SUBSET Cells /\ Filled[g] \cup C \in SUBSET Cells
  <2>1. s \in 0 .. Limit /\ new \in [Cells -> Cell] /\ nda \in [Cells -> Nat]
    BY <1>6 DEF Clean, Sound
  <2>2. C \in SUBSET Cells
    BY <1>0 DEF Extent
  <2>3. Filled[f] \in SUBSET Cells /\ Filled[g] \in SUBSET Cells
    BY <1>2, <1>3
  <2> QED
    BY <1>0, <1>2, <1>3, <2>1, <2>2, <2>3
<1>10. /\ cs \in [Files -> 0 .. Limit] /\ ss \in [Files -> 0 .. Limit]
       /\ pg \in [Files -> [Cells -> Cell]] /\ da \in [Files -> [Cells -> Nat]]
       /\ dt \in [Files -> SUBSET Cells] /\ al \in [Files -> SUBSET Cells]
  BY <1>2, <1>7, <1>9 DEF FInv, FileTypes
<1>11. /\ cs[g] = s /\ pg[g] = new /\ dt[g] = {} /\ ss[g] = s /\ da[g] = nda
       /\ al[g] = Filled[g] \cup C
       /\ f # g => /\ cs[f] = csize[f] /\ pg[f] = page[f] /\ dt[f] = {} /\ ss[f] = csize[f]
                   /\ da[f] = fd /\ al[f] = Filled[f]
       /\ \A h \in Files \ {f, g} :
            /\ cs[h] = csize[h] /\ pg[h] = page[h] /\ dt[h] = dirty[h]
            /\ ss[h] = ssize[h] /\ da[h] = data[h] /\ al[h] = alloc[h]
  BY <1>2, <1>7 DEF FInv, FileTypes
<1>12. Clean(csize[f], page[f], fd) /\ Seen(page[f], fd) = Content[f]
  BY <1>0, <1>2, <1>3
<1>13. ASSUME NEW h \in Files PROVE Sound(cs[h], pg[h], dt[h], ss[h], da[h])
  <2>1. CASE h = g
    BY <1>6, <1>11, <2>1 DEF Clean
  <2>2. CASE h = f /\ f # g
    BY <1>11, <1>12, <2>2 DEF Clean
  <2>3. CASE h \notin {f, g}
    BY <1>11, <2>3 DEF FInv, AllSound, SoundFile
  <2> QED
    BY <2>1, <2>2, <2>3
<1>14. /\ FileTypes' /\ AllSound'
       /\ Content' = [h \in Files |-> Seen(pg[h], da[h])]
       /\ Filled' = [h \in Files |-> al[h] \cup dt[h]]
       /\ CleanFiles' = {h \in Files : dt[h] = {}}
  BY <1>8, <1>10, <1>13, EachFile
<1>15. FInv'
  BY <1>1, <1>14, ReturnTypes DEF FInv
<1>16. Posix!CopyFile(t)
  <2>1. Content' = [Content EXCEPT ![g] = Seen(new, nda)]
    <3>1. \A h \in Files : Content[h] = Seen(page[h], data[h])
      BY DEF Content, View, Seen
    <3>2. \A h \in Files : Seen(pg[h], da[h]) = IF h = g THEN Seen(new, nda) ELSE Content[h]
      BY <1>2, <1>11, <1>12, <3>1
    <3>3. Content = [h \in Files |-> Content[h]]
      BY DEF Content
    <3> QED
      BY <1>2, <1>14, <3>2, <3>3
  <2>2. Filled' = [Filled EXCEPT ![g] = Filled[g] \cup C]
    <3>1. \A h \in Files : Filled[h] = alloc[h] \cup dirty[h]
      BY DEF Filled
    <3>2. \A h \in Files : al[h] \cup dt[h] = IF h = g THEN Filled[g] \cup C ELSE Filled[h]
      BY <1>2, <1>11, <3>1
    <3>3. Filled = [h \in Files |-> Filled[h]]
      BY DEF Filled
    <3> QED
      BY <1>2, <1>14, <3>2, <3>3
  <2>3. CleanFiles' = CleanFiles \cup {f, g}
    BY <1>2, <1>11, <1>14 DEF CleanFiles
  <2>4. csize' = [csize EXCEPT ![g] = s]
    BY <1>7, <1>8
  <2>5. Seen(new, nda) =
          Posix!Overwrite(Posix!Erase(Content[g], Posix!Extent(csize[g], s - csize[g])), to, v)
    BY <1>6, SameCells DEF Zeroed
  <2>6. /\ Posix!Step(t) = Step(t) /\ Posix!At(t, "copy") /\ Posix!Return(t, <<Len(v)>>)
        /\ v = Posix!Window(Content[f], csize[f], at, n) /\ C = Posix!Extent(to, Len(v))
        /\ s = IF v = <<>> THEN csize[g] ELSE Posix!Larger(csize[g], to + Len(v))
    BY <1>0, <1>1, <1>4, SamePort, SameCells
  <2>7. UNCHANGED Posix!directory
    BY <1>1 DEF directory, Posix!directory
  <2> QED
    BY <1>0, <2>1, <2>2, <2>3, <2>4, <2>5, <2>6, <2>7
    DEF Posix!CopyFile, Posix!SetFile, Posix!Grown, Posix!Return
<1> QED
  BY <1>15, <1>16

\* The calls on the directory, the steps of the port's control flow and a
\* delayed fput touch no file.
LEMMA DirSteps ==
    ASSUME FInv, NEW t \in Threads, DirStep(t), UNCHANGED <<client, server>>
    PROVE  FInv' /\ Posix!DirStep(t) /\ UNCHANGED <<Posix!file, CleanFiles>>
<1> USE SamePort, SameCells
<1>1. CASE MakeDir(t)
  BY <1>1, NoFile, ReturnTypes
  DEF MakeDir, FInv, Posix!DirStep, Posix!MakeDir, Posix!file
<1>2. CASE MakeNode(t)
  BY <1>2, NoFile, ReturnTypes
  DEF MakeNode, FInv, Posix!DirStep, Posix!MakeNode, Posix!file
<1>3. CASE RemoveDir(t)
  BY <1>3, NoFile, ReturnTypes
  DEF RemoveDir, FInv, Posix!DirStep, Posix!RemoveDir,
      Posix!file, ENOTEMPTY, Posix!ENOTEMPTY
<1>4. CASE RemoveDirSettled(t)
  BY <1>4, NoFile, ReturnTypes
  DEF RemoveDirSettled, FInv, Posix!DirStep,
      Posix!RemoveDirSettled, Posix!file, ENOTEMPTY, Posix!ENOTEMPTY
<1>5. CASE SettleFput(t)
  BY <1>5, NoFile, ReturnTypes
  DEF SettleFput, FInv, Posix!DirStep, Posix!SettleFput,
      Posix!file
<1> QED
  BY <1>1, <1>2, <1>3, <1>4, <1>5 DEF DirStep

\* Starting, joining and stopping threads touches no file.
LEMMA ControlSteps ==
    ASSUME FInv, NEW t \in Threads, ControlStep(t), UNCHANGED <<client, server>>
    PROVE  FInv' /\ Posix!ControlStep(t) /\ UNCHANGED <<Posix!file, CleanFiles>>
<1> USE SamePort DEF directory, Posix!directory
<1>1. CASE StartThread(t)
  BY <1>1, NoFile
  DEF StartThread, FInv, ControlTypes, Posix!ControlStep, Posix!StartThread, Posix!file
<1>2. CASE JoinThread(t)
  BY <1>2, NoFile
  DEF JoinThread, FInv, ControlTypes, Jump, Posix!Jump, Ended, Posix!Ended, Code, Posix!Code,
      Posix!ControlStep, Posix!JoinThread, Posix!file
<1>3. CASE RaiseStop(t)
  BY <1>3, NoFile
  DEF RaiseStop, FInv, ControlTypes, Posix!ControlStep, Posix!RaiseStop, Posix!file
<1>4. CASE LoopHead(t)
  BY <1>4, NoFile
  DEF LoopHead, FInv, ControlTypes, Jump, Posix!Jump, Ended, Posix!Ended, Code, Posix!Code,
      Posix!ControlStep, Posix!LoopHead, Posix!file
<1>5. CASE LoopBack(t)
  BY <1>5, NoFile
  DEF LoopBack, FInv, ControlTypes, Jump, Posix!Jump, Posix!ControlStep, Posix!LoopBack, Posix!file
<1>6. CASE CheckEntered(t)
  BY <1>6, NoFile
  DEF CheckEntered, FInv, ControlTypes, Jump, Posix!Jump, Posix!ControlStep, Posix!CheckEntered,
      Posix!file
<1>7. CASE Abort(t)
  BY <1>7, NoFile
  DEF Abort, FInv, ControlTypes, Posix!ControlStep, Posix!Abort, Posix!file
<1> QED
  BY <1>1, <1>2, <1>3, <1>4, <1>5, <1>6, <1>7 DEF ControlStep

\* The delayed-fput worker touches no file's contents.
LEMMA DelayedFputStep ==
    ASSUME FInv, DelayedFput, UNCHANGED <<client, server>>
    PROVE  FInv' /\ Posix!DelayedFput /\ UNCHANGED <<Posix!file, CleanFiles>>
BY NoFile
DEF DelayedFput, FInv, ControlTypes, control, Posix!DelayedFput, Posix!control, Posix!file

-----------------------------------------------------------------------------
\* A new case has coherent files, and none of them has anything in it.
LEMMA InitFiles ==
    ASSUME Init
    PROVE  FInv /\ Posix!Init
<1>1. Clean(0, Empty, Zeros) /\ Seen(Empty, Zeros) = Zeros
  BY CleanNew
<1>2. Empty \in [Cells -> Cell] /\ Zeros \in [Cells -> Nat] /\ 0 \in 0 .. Limit
  BY <1>1 DEF Clean, Sound
<1>3. FileTypes
  BY <1>2 DEF Init, FileTypes
<1>4. AllSound
  BY <1>1 DEF Init, AllSound, SoundFile, Clean
<1>5. ControlTypes
  BY <1>2 DEF Init, PortInit, ControlTypes
<1>6. Content = [f \in Files |-> Zeros]
  <2>1. \A f \in Files : View(f) = Seen(Empty, Zeros)
    BY DEF Init, View, Seen
  <2> QED
    BY <1>1, <2>1 DEF Content
<1>7. Filled = [f \in Files |-> {}] /\ CleanFiles = Files
  BY DEF Init, Filled, CleanFiles
<1>8. Posix!Init
  BY <1>6, <1>7, SameCells DEF Init, Posix!Init, PortInit, Posix!PortInit, Posix!Threads, Threads
<1> QED
  BY <1>3, <1>4, <1>5, <1>8 DEF FInv

\* Every step keeps the files coherent, and is a step of PosixFile or changes
\* nothing there.
LEMMA NextFiles ==
    ASSUME FInv, [Next]_vars
    PROVE  FInv' /\ [Posix!Next]_(Posix!vars)
<1>1. ASSUME NEW t \in Threads, FileStep(t)
      PROVE  FInv' /\ Posix!FileStep(t)
  <2> USE DEF Posix!FileStep
  <2>1. CASE OpenFile(t)
    BY <2>1, OpenFileStep
  <2>2. CASE CloseFile(t)
    BY <2>2, CloseFileStep
  <2>3. CASE UnlinkFile(t)
    BY <2>3, UnlinkFileStep
  <2>4. CASE RenameFile(t)
    BY <2>4, RenameFileStep
  <2>5. CASE MissingFile(t)
    BY <2>5, MissingFileStep
  <2>6. CASE WriteFile(t)
    BY <2>6, WriteFileStep
  <2>7. CASE RefuseFile(t)
    BY <2>7, RefuseFileStep
  <2>8. CASE TakeFile(t)
    BY <2>8, TakeFileStep
  <2>9. CASE StoreFile(t)
    BY <2>9, StoreFileStep
  <2>10. CASE DirectWrite(t)
    BY <2>10, DirectWriteStep
  <2>11. CASE TruncFile(t)
    BY <2>11, TruncFileStep
  <2>12. CASE AllocFile(t)
    BY <2>12, AllocFileStep
  <2>13. CASE PunchFile(t)
    BY <2>13, PunchFileStep
  <2>14. CASE SyncFile(t)
    BY <2>14, SyncFileStep
  <2>15. CASE ReadFile(t)
    BY <2>15, ReadFileStep
  <2>16. CASE DirectRead(t)
    BY <2>16, DirectReadStep
  <2>17. CASE AskFile(t)
    BY <2>17, AskFileStep
  <2>18. CASE ServerFile(t)
    BY <2>18, ServerFileStep
  <2>19. CASE CopyFile(t)
    BY <2>19, CopyFileStep
  <2> QED
    BY <1>1, <2>1, <2>2, <2>3, <2>4, <2>5, <2>6, <2>7, <2>8, <2>9, <2>10, <2>11, <2>12, <2>13,
       <2>14, <2>15, <2>16, <2>17, <2>18, <2>19 DEF FileStep
<1>2. Posix!Threads = Threads
  BY DEF Posix!Threads, Threads
<1>3. CASE \E t \in Threads : ThreadStep(t)
  <2>1. PICK t \in Threads : ThreadStep(t)
    BY <1>3
  <2>2. CASE FileStep(t)
    BY <1>1, <1>2, <2>2 DEF Posix!Next
  <2>3. CASE DirStep(t) /\ UNCHANGED <<client, server>>
    BY <1>2, <2>3, DirSteps DEF Posix!Next
  <2>4. CASE ControlStep(t) /\ UNCHANGED <<client, server>>
    BY <1>2, <2>4, ControlSteps DEF Posix!Next
  <2> QED
    BY <2>1, <2>2, <2>3, <2>4 DEF ThreadStep
<1>4. CASE DelayedFput /\ UNCHANGED <<client, server>>
  BY <1>4, DelayedFputStep DEF Posix!Next
<1>5. CASE \E f \in Files : Writeback(f) \/ Reclaim(f)
  <2>1. PICK f \in Files : Writeback(f) \/ Reclaim(f)
    BY <1>5
  <2> QED
    BY <2>1, WritebackStep, ReclaimStep DEF Posix!Next
<1>6. CASE UNCHANGED vars
  <2>1. UNCHANGED <<client, server>> /\ UNCHANGED control /\ UNCHANGED directory
    BY <1>6 DEF vars
  <2>2. FInv'
    BY <2>1, NoFile DEF FInv, ControlTypes, control
  <2>3. UNCHANGED Posix!vars
    BY <2>1, NoFile
    DEF Posix!vars, Posix!file, Posix!control, Posix!directory, control, directory
  <2> QED
    BY <2>2, <2>3
<1> QED
  BY <1>3, <1>4, <1>5, <1>6 DEF Next

\* The inductive invariant holds in every reachable state.
THEOREM FilesAlwaysSound == Spec => []FInv
<1>1. Init => FInv
  BY InitFiles
<1>2. FInv /\ [Next]_vars => FInv'
  BY NextFiles
<1> QED
  BY <1>1, <1>2, PTL DEF Spec

\* The page cache is always coherent with the server's file (CacheCoherent of
\* FileClient), for every well-formed program of calls and not only for the
\* ports': no order of writes, mapped stores, truncations, direct I/O, copies,
\* writeback and reclaim makes a clean cell stale.
THEOREM AlwaysCoherent == Spec => []CacheCoherent
<1>1. ASSUME FInv PROVE CacheCoherent
  <2> SUFFICES ASSUME NEW f \in Files
               PROVE  /\ ssize[f] <= csize[f]
                      /\ dirty[f] \subseteq Extent(0, csize[f])
                      /\ ssize[f] < csize[f] => csize[f] - 1 \in dirty[f]
                      /\ \A c \in Extent(0, csize[f]) \ dirty[f] : page[f][c] \in {Absent, data[f][c]}
                      /\ \A c \in Extent(ssize[f], Limit) : data[f][c] = 0
    BY DEF CacheCoherent
  <2>1. Sound(csize[f], page[f], dirty[f], ssize[f], data[f])
    BY <1>1 DEF FInv, AllSound, SoundFile
  <2>2. csize[f] \in Nat /\ ssize[f] \in Nat
    BY <2>1, CellTypes DEF Sound
  <2>3. \A c : c \in Extent(0, csize[f]) <=> c \in Cells /\ c < csize[f]
    BY <2>2, CellTypes DEF Extent
  <2>4. \A c \in Extent(ssize[f], Limit) : c \in Cells /\ ssize[f] <= c
    BY DEF Extent
  <2> QED
    BY <2>1, <2>3, <2>4 DEF Sound
<1> QED
  BY <1>1, FilesAlwaysSound, PTL

\* The cached mount implements files without a cache (ImplementsPosix of
\* FileClient), for every well-formed program of calls: every result a port
\* sees could have come from a file every call of which takes effect at once.
THEOREM CacheInvisible == Spec => ImplementsPosix
<1>1. Init => Posix!Init
  BY InitFiles
<1>2. FInv /\ [Next]_vars => [Posix!Next]_(Posix!vars)
  BY NextFiles
<1> QED
  BY <1>1, <1>2, FilesAlwaysSound, PTL DEF Spec, ImplementsPosix, Posix!Spec
=============================================================================
