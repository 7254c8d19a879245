---------------------------- MODULE MuxFileProofs ----------------------------
(***************************************************************************)
(* For every header size, reserved space, sample and older file: the data  *)
(* file keeps its type, no write of the muxer or of its recovery goes over *)
(* a sample, and what mp4_mux_close, mp4_mux_sync and the recovery leave   *)
(* on the disk is what mp4_demux_open finds.                               *)
(*                                                                         *)
(* For the last: what mp4_box_children_read makes of boxes that are there, *)
(* then what each write leaves of the boxes before it, then the theorems.  *)
(***************************************************************************)
EXTENDS MuxFile, Recursion, FiniteSetTheorems

(* The cells that are written.                                             *)

LEMMA CellType ==
  ASSUME NEW kind \in Kinds, NEW number \in Int
  PROVE  Cell(kind, number) \in Cells
  BY DEF Cell, Cells, Types

LEMMA CopiesType ==
  ASSUME NEW S, NEW e \in S, NEW count \in Nat
  PROVE  Copies(e, count) \in Seq(S) /\ Len(Copies(e, count)) = count
  BY DEF Copies

LEMMA JoinType ==
  ASSUME NEW S, NEW s \in Seq(S), NEW t \in Seq(S)
  PROVE  s \o t \in Seq(S) /\ Len(s \o t) = Len(s) + Len(t)
  OBVIOUS

LEMMA OneType ==
  ASSUME NEW S, NEW e \in S PROVE <<e>> \in Seq(S) /\ Len(<<e>>) = 1
  OBVIOUS

LEMMA FirstType ==
  ASSUME NEW S, NEW s \in Seq(S), NEW m \in Nat, m <= Len(s)
  PROVE  /\ SubSeq(s, 1, m) \in Seq(S) /\ Len(SubSeq(s, 1, m)) = m
         /\ \A i \in 1 .. m : SubSeq(s, 1, m)[i] = s[i]
  OBVIOUS

LEMMA ElementType ==
  ASSUME NEW S, NEW s \in Seq(S), NEW i \in 1 .. Len(s) PROVE s[i] \in S
  OBVIOUS

LEMMA HeaderType ==
  ASSUME NEW type \in Types, NEW size \in Int
  PROVE  BoxHeader(type, size) \in Seq(Cells) /\ Len(BoxHeader(type, size)) = Header
<1> DEFINE c == [kind |-> "box", type |-> type, number |-> size]
           rest == Copies(Cell("rest", 0), Header - 1)
<1>1. <<c>> \in Seq(Cells) /\ Len(<<c>>) = 1
  <2>1. c \in Cells
    BY DEF Cells, Kinds
  <2> HIDE DEF c
  <2> QED  BY <2>1, OneType
<1>2. Header \in Nat /\ Header - 1 \in Nat
  BY LayoutAssumption DEF LayoutAssumption
<1>3. rest \in Seq(Cells) /\ Len(rest) = Header - 1
  <2>1. Cell("rest", 0) \in Cells
    BY CellType DEF Kinds
  <2> QED  BY <1>2, <2>1, CopiesType
<1>4. BoxHeader(type, size) = <<c>> \o rest
  BY DEF BoxHeader
<1> HIDE DEF c, rest
<1>5. <<c>> \o rest \in Seq(Cells) /\ Len(<<c>> \o rest) = 1 + (Header - 1)
  BY <1>1, <1>3, JoinType
<1> QED  BY <1>2, <1>4, <1>5

LEMMA MdatType ==
  ASSUME NEW size \in Int
  PROVE  MdatHeader(size) \in Seq(Cells) /\ Len(MdatHeader(size)) = 2 * Header
<1>0. Header \in Nat /\ "free" \in Types /\ "mdat" \in Types
  BY LayoutAssumption DEF LayoutAssumption, Types
<1>1. CASE 0 <= size /\ size <= Narrow
  <2>1. MdatHeader(size) = BoxHeader("free", Header) \o BoxHeader("mdat", size)
    BY <1>1 DEF MdatHeader
  <2>2. /\ BoxHeader("free", Header) \in Seq(Cells)
        /\ Len(BoxHeader("free", Header)) = Header
        /\ BoxHeader("mdat", size) \in Seq(Cells)
        /\ Len(BoxHeader("mdat", size)) = Header
    BY <1>0, HeaderType
  <2> DEFINE a == BoxHeader("free", Header)
             b == BoxHeader("mdat", size)
  <2>3. a \o b \in Seq(Cells) /\ Len(a \o b) = Len(a) + Len(b)
    BY <2>2, JoinType
  <2>4. MdatHeader(size) = a \o b /\ Len(a) = Header /\ Len(b) = Header
    BY <2>1, <2>2
  <2> HIDE DEF a, b
  <2> QED  BY <1>0, <2>3, <2>4
<1>2. CASE ~(0 <= size /\ size <= Narrow)
  <2>1. MdatHeader(size)
          = BoxHeader("mdat", size + Header) \o Copies(Cell("rest", 0), Header)
    BY <1>2 DEF MdatHeader
  <2>2. /\ BoxHeader("mdat", size + Header) \in Seq(Cells)
        /\ Len(BoxHeader("mdat", size + Header)) = Header
    BY <1>0, HeaderType
  <2>3. /\ Copies(Cell("rest", 0), Header) \in Seq(Cells)
        /\ Len(Copies(Cell("rest", 0), Header)) = Header
    BY <1>0, CellType, CopiesType DEF Kinds
  <2> DEFINE a == BoxHeader("mdat", size + Header)
             b == Copies(Cell("rest", 0), Header)
  <2>4. a \o b \in Seq(Cells) /\ Len(a \o b) = Len(a) + Len(b)
    BY <2>2, <2>3, JoinType
  <2>5. MdatHeader(size) = a \o b /\ Len(a) = Header /\ Len(b) = Header
    BY <2>1, <2>2, <2>3
  <2> HIDE DEF a, b
  <2> QED  BY <1>0, <2>4, <2>5
<1> QED  BY <1>1, <1>2

(* A write changes the cells it covers, and may make the file longer.      *)
LEMMA PutType ==
  ASSUME NEW f \in Seq(Cells), NEW at \in Nat, NEW cells \in Seq(Cells)
  PROVE  /\ Put(f, at, cells) \in Seq(Cells)
         /\ Len(f) <= Len(Put(f, at, cells))
         /\ cells # <<>> => at + Len(cells) <= Len(Put(f, at, cells))
         /\ Len(Put(f, at, cells)) \in Nat
         /\ \A c \in 1 .. Len(f) : c <= at \/ at + Len(cells) < c =>
              Put(f, at, cells)[c] = f[c]
         /\ \A c \in at + 1 .. at + Len(cells) :
              Put(f, at, cells)[c] = cells[c - at]
<1> DEFINE m == IF cells = <<>> THEN Len(f) ELSE Larger(Len(f), at + Len(cells))
           e(i) == IF at < i /\ i <= at + Len(cells) THEN cells[i - at]
                   ELSE IF i <= Len(f) THEN f[i] ELSE Cell("zero", 0)
<1>1. /\ Len(f) \in Nat /\ Len(cells) \in Nat
      /\ cells = <<>> <=> Len(cells) = 0
  OBVIOUS
<1>2. /\ m \in Nat /\ Len(f) <= m
      /\ cells # <<>> => at + Len(cells) <= m
  BY <1>1 DEF Larger
<1>3. Put(f, at, cells) = [i \in 1 .. m |-> e(i)]
  BY DEF Put
<1>4. \A i \in 1 .. m : e(i) \in Cells
  <2> SUFFICES ASSUME NEW i \in 1 .. m PROVE e(i) \in Cells
    OBVIOUS
  <2>1. CASE at < i /\ i <= at + Len(cells)
    <3>1. i - at \in 1 .. Len(cells)
      BY <1>1, <2>1
    <3> QED  BY <2>1, <3>1, ElementType
  <2>2. CASE ~(at < i /\ i <= at + Len(cells)) /\ i <= Len(f)
    <3>1. i \in 1 .. Len(f)
      BY <1>1, <2>2
    <3> QED  BY <2>2, <3>1, ElementType
  <2>3. CASE ~(at < i /\ i <= at + Len(cells)) /\ ~(i <= Len(f))
    <3>1. Cell("zero", 0) \in Cells
      BY CellType DEF Kinds
    <3> QED  BY <2>3, <3>1
  <2> QED  BY <2>1, <2>2, <2>3
<1> HIDE DEF m, e
<1>5. /\ [i \in 1 .. m |-> e(i)] \in Seq(Cells)
      /\ Len([i \in 1 .. m |-> e(i)]) = m
  BY <1>2, <1>4
<1>6. \A c \in 1 .. m : Put(f, at, cells)[c] = e(c)
  BY <1>3
<1>7. ASSUME NEW c \in 1 .. Len(f), c <= at \/ at + Len(cells) < c
      PROVE  Put(f, at, cells)[c] = f[c]
  <2>1. c \in 1 .. m /\ c <= Len(f)
    BY <1>1, <1>2
  <2>2. ~(at < c /\ c <= at + Len(cells))
    BY <1>1, <1>7
  <2> QED  BY <1>6, <2>1, <2>2 DEF e
<1>8. ASSUME NEW c \in at + 1 .. at + Len(cells)
      PROVE  Put(f, at, cells)[c] = cells[c - at]
  <2>1. cells # <<>>
    BY <1>1
  <2>2. c \in 1 .. m /\ at < c /\ c <= at + Len(cells)
    BY <1>1, <1>2, <2>1
  <2> QED  BY <1>6, <2>2 DEF e
<1> QED  BY <1>2, <1>3, <1>5, <1>7, <1>8

LEMMA CountSyncs ==
  ASSUME TypeOK
  PROVE  Cardinality({i \in 1 .. n : samples[i].sync}) \in Nat
<1>1. n \in Nat
  BY DEF TypeOK
<1>2. IsFiniteSet(1 .. n)
  BY <1>1, FS_Interval
<1>3. {i \in 1 .. n : samples[i].sync} \in SUBSET (1 .. n)
  OBVIOUS
<1>4. IsFiniteSet({i \in 1 .. n : samples[i].sync})
  BY <1>2, <1>3, FS_Subset
<1> QED  BY <1>4, FS_CardinalityType

LEMMA MoovType ==
  ASSUME TypeOK
  PROVE  /\ MoovSize \in Nat /\ Header < MoovSize
         /\ MoovCells \in Seq(Cells) /\ Len(MoovCells) = MoovSize
<1> DEFINE c == Cardinality({i \in 1 .. n : samples[i].sync})
           a == BoxHeader("moov", MoovSize)
           b == Copies(Cell("tables", n), MoovSize - Header)
<1>1. n \in Nat /\ Header \in Nat /\ MoovBase \in Nat \ {0} /\ c \in Nat
  BY CountSyncs, LayoutAssumption DEF LayoutAssumption, TypeOK
<1>2. MoovSize \in Nat /\ Header < MoovSize /\ MoovSize - Header \in Nat
  <2>1. MoovSize = Header + MoovBase + 2 * n + c
    BY DEF MoovSize
  <2> HIDE DEF c
  <2> QED  BY <1>1, <2>1
<1>3. a \in Seq(Cells) /\ Len(a) = Header
  BY <1>2, HeaderType DEF Types
<1>4. b \in Seq(Cells) /\ Len(b) = MoovSize - Header
  <2>1. Cell("tables", n) \in Cells
    BY <1>1, CellType DEF Kinds
  <2> QED  BY <1>2, <2>1, CopiesType
<1>5. MoovCells = a \o b
  BY DEF MoovCells
<1>6. a \o b \in Seq(Cells) /\ Len(a \o b) = Len(a) + Len(b)
  BY <1>3, <1>4, JoinType
<1> HIDE DEF a, b
<1>7. ASSUME NEW k \in Nat, NEW m \in Nat, k < m, Len(a) = k, Len(b) = m - k
      PROVE  Len(a) + Len(b) = m
  BY <1>7
<1>8. Len(MoovCells) = MoovSize
  BY <1>1, <1>2, <1>3, <1>4, <1>5, <1>6, <1>7
<1> QED  BY <1>2, <1>5, <1>6, <1>8

(* What a step writes ends before the first sample, or begins behind the   *)
(* last cell of the file.                                                  *)
LEMMA PendingType ==
  ASSUME TypeOK
  PROVE  /\ Pending.at \in Nat /\ Pending.cells \in Seq(Cells)
         /\ Len(Pending.cells) \in Nat
         /\ \/ Pending.at + Len(Pending.cells) <= reserve + 2 * Header
            \/ Pending.at = Len(file)
            \/ Pending.cells = <<>>
<1>0. /\ Header \in Nat \ {0} /\ reserve \in Nat /\ 2 * Header <= reserve
      /\ BoxesOffset = Header /\ file \in Seq(Cells) /\ Len(file) \in Nat
  BY LayoutAssumption DEF LayoutAssumption, BoxesOffset, TypeOK
<1>1. ASSUME NEW at \in Nat, NEW cells \in Seq(Cells),
             Pending = [at |-> at, cells |-> cells],
             \/ at + Len(cells) <= reserve + 2 * Header
             \/ at = Len(file)
             \/ cells = <<>>
      PROVE  /\ Pending.at \in Nat /\ Pending.cells \in Seq(Cells)
             /\ Len(Pending.cells) \in Nat
             /\ \/ Pending.at + Len(Pending.cells) <= reserve + 2 * Header
                \/ Pending.at = Len(file)
                \/ Pending.cells = <<>>
  <2>1. Pending.at = at /\ Pending.cells = cells /\ Len(cells) \in Nat
    BY <1>1
  <2> QED  BY <1>1, <2>1
<1>2. CASE pc = "mdat"
  <2>1. Pending = [at |-> reserve, cells |-> MdatHeader(MdatSize)]
    BY <1>2 DEF Pending
  <2>2. MdatSize \in Int
    BY <1>0 DEF MdatSize
  <2>3. /\ MdatHeader(MdatSize) \in Seq(Cells)
        /\ Len(MdatHeader(MdatSize)) = 2 * Header
    BY <2>2, MdatType
  <2> QED  BY <1>0, <1>1, <2>1, <2>3
<1>3. CASE pc = "moov" /\ Fits
  <2>1. Pending = [at |-> BoxesOffset, cells |-> MoovCells]
    BY <1>3 DEF Pending
  <2>2. BoxesOffset + Len(MoovCells) <= reserve + 2 * Header
    BY <1>0, <1>3, MoovType DEF Fits
  <2> QED  BY <1>0, <1>1, <2>1, <2>2, MoovType
<1>4. CASE pc = "moov" /\ ~Fits /\ closing
  <2>1. Pending = [at |-> BoxesOffset,
                   cells |-> BoxHeader("free", reserve - BoxesOffset)]
    BY <1>4 DEF Pending
  <2>2. /\ BoxHeader("free", reserve - BoxesOffset) \in Seq(Cells)
        /\ Len(BoxHeader("free", reserve - BoxesOffset)) = Header
    BY <1>0, HeaderType DEF Types
  <2> QED  BY <1>0, <1>1, <2>1, <2>2
<1>5. CASE pc = "pad"
  <2>1. Pending = [at |-> BoxesOffset + MoovSize, cells |-> Padding]
    BY <1>5 DEF Pending
  <2>2. BoxesOffset + MoovSize \in Nat /\ MoovSize \in Nat
    BY <1>0, MoovType
  <2>3. CASE Left < Header
    <3>1. Padding = <<>> /\ <<>> \in Seq(Cells)
      BY <2>3 DEF Padding
    <3> QED  BY <1>1, <2>1, <2>2, <3>1
  <2>4. CASE ~(Left < Header)
    <3>1. Padding = BoxHeader("free", Left) /\ Left = reserve - BoxesOffset - MoovSize
      BY <2>4 DEF Padding, Left
    <3>2. Left \in Int
      BY <1>0, <2>2, <3>1
    <3>3. Padding \in Seq(Cells) /\ Len(Padding) = Header
      BY <3>1, <3>2, HeaderType DEF Types
    <3>4. BoxesOffset + MoovSize + Header <= reserve
      BY <1>0, <2>2, <2>4, <3>1
    <3> QED  BY <1>0, <1>1, <2>1, <2>2, <3>3, <3>4
  <2> QED  BY <2>3, <2>4
<1>6. CASE pc = "tail"
  <2>1. Pending = [at |-> Len(file), cells |-> MoovCells]
    BY <1>6 DEF Pending
  <2> QED  BY <1>0, <1>1, <2>1, MoovType
<1>7. CASE /\ pc \notin {"mdat", "pad", "tail"}
           /\ pc = "moov" => ~Fits /\ ~closing
  <2>1. Pending = [at |-> 0, cells |-> <<>>]
    BY <1>7 DEF Pending
  <2>2. <<>> \in Seq(Cells) /\ Len(<<>>) = 0
    OBVIOUS
  <2> QED  BY <1>0, <1>1, <2>1, <2>2
<1> QED  BY <1>2, <1>3, <1>4, <1>5, <1>6, <1>7

LEMMA WriteType ==
  ASSUME TypeOK, NEW done \in 0 .. Len(Pending.cells), Write(done)
  PROVE  /\ file' \in Seq(Cells) /\ Len(file) <= Len(file')
         /\ \A c \in 1 .. Len(file) :
              reserve + 2 * Header < c => file'[c] = file[c]
<1> DEFINE at == Pending.at
           all == Pending.cells
           cells == SubSeq(Pending.cells, 1, done)
<1>1. /\ at \in Nat /\ all \in Seq(Cells) /\ Len(all) \in Nat
      /\ \/ at + Len(all) <= reserve + 2 * Header
         \/ at = Len(file)
         \/ all = <<>>
  BY PendingType
<1>2. /\ Header \in Nat /\ reserve \in Nat
      /\ file \in Seq(Cells) /\ Len(file) \in Nat
  BY LayoutAssumption DEF LayoutAssumption, TypeOK
<1>3. file' = Put(file, at, cells)
  BY DEF Write
<1>4. done \in Nat /\ done <= Len(all)
  BY <1>1
<1>5. cells = SubSeq(all, 1, done)
  OBVIOUS
<1>6. all = <<>> => Len(all) = 0
  OBVIOUS
<1> HIDE DEF at, all, cells
<1>7. cells \in Seq(Cells) /\ Len(cells) = done
  BY <1>1, <1>4, <1>5, FirstType
<1>8. ASSUME NEW c \in 1 .. Len(file), reserve + 2 * Header < c
      PROVE  c <= at \/ at + Len(cells) < c
  BY <1>1, <1>2, <1>4, <1>6, <1>7, <1>8
<1>9. /\ Put(file, at, cells) \in Seq(Cells)
      /\ Len(file) <= Len(Put(file, at, cells))
      /\ \A c \in 1 .. Len(file) : c <= at \/ at + Len(cells) < c =>
           Put(file, at, cells)[c] = file[c]
  <2>1. file \in Seq(Cells) /\ at \in Nat /\ cells \in Seq(Cells)
    BY <1>1, <1>2, <1>7
  <2> QED  BY <2>1, PutType
<1> QED  BY <1>3, <1>8, <1>9

LEMMA OpenedType ==
  ASSUME NEW f \in Seq(Cells), NEW r \in {Reserve, DefaultReserve}
  PROVE  /\ Opened(f, r) \in Seq(Cells)
         /\ Len(f) <= Len(Opened(f, r))
         /\ r + 2 * Header <= Len(Opened(f, r))
         /\ \A c \in 1 .. Len(f) :
              r + 2 * Header < c => Opened(f, r)[c] = f[c]
<1> DEFINE ftyp == BoxHeader("ftyp", Header)
           free == BoxHeader("free", r - BoxesOffset)
           mdat == MdatHeader(0)
           f1 == Put(f, 0, ftyp)
           f2 == Put(f1, BoxesOffset, free)
           f3 == Put(f2, r, mdat)
<1>1. /\ Header \in Nat \ {0} /\ r \in Nat /\ 2 * Header <= r
      /\ BoxesOffset = Header /\ r - BoxesOffset \in Int
  BY LayoutAssumption DEF LayoutAssumption, BoxesOffset
<1>2. /\ ftyp \in Seq(Cells) /\ Len(ftyp) = Header
      /\ free \in Seq(Cells) /\ Len(free) = Header
  BY <1>1, HeaderType DEF Types
<1>3. mdat \in Seq(Cells) /\ Len(mdat) = 2 * Header
  BY MdatType
<1>4. Opened(f, r) = f3
  BY DEF Opened
<1>5. Len(f) \in Nat /\ mdat # <<>>
  BY <1>1, <1>3
<1> HIDE DEF ftyp, free, mdat
<1>6. /\ f1 \in Seq(Cells) /\ Len(f1) \in Nat /\ Len(f) <= Len(f1)
      /\ \A c \in 1 .. Len(f) : c <= 0 \/ 0 + Header < c => f1[c] = f[c]
  BY <1>2, PutType
<1> HIDE DEF f1
<1>7. /\ f2 \in Seq(Cells) /\ Len(f2) \in Nat /\ Len(f1) <= Len(f2)
      /\ \A c \in 1 .. Len(f1) :
           c <= BoxesOffset \/ BoxesOffset + Header < c => f2[c] = f1[c]
  BY <1>1, <1>2, <1>6, PutType
<1> HIDE DEF f2
<1>8. /\ f3 \in Seq(Cells) /\ Len(f3) \in Nat /\ Len(f2) <= Len(f3)
      /\ r + 2 * Header <= Len(f3)
      /\ \A c \in 1 .. Len(f2) :
           c <= r \/ r + 2 * Header < c => f3[c] = f2[c]
  BY <1>1, <1>3, <1>5, <1>7, PutType
<1> HIDE DEF f3
<1>9. ASSUME NEW c \in 1 .. Len(f), r + 2 * Header < c
      PROVE  f3[c] = f[c]
  <2>1. /\ c \in 1 .. Len(f1) /\ c \in 1 .. Len(f2)
        /\ 0 + Header < c /\ BoxesOffset + Header < c
    BY <1>1, <1>5, <1>6, <1>7, <1>9
  <2> QED  BY <1>6, <1>7, <1>8, <1>9, <2>1
<1>10. Len(f) <= Len(f3)
  BY <1>5, <1>6, <1>7, <1>8
<1> QED  BY <1>4, <1>8, <1>9, <1>10

-----------------------------------------------------------------------------
(* The inductive invariant, action by action.                              *)

LEMMA SampleType ==
  ASSUME TypeOK, NEW i \in 1 .. Len(samples)
  PROVE  /\ samples[i].off \in Nat /\ samples[i].size \in Nat
         /\ End(i) \in Nat /\ samples[i].off <= End(i)
<1>1. samples[i] \in Sample
  BY ElementType DEF TypeOK
<1> QED  BY <1>1 DEF Sample, End

LEMMA LayoutInit == Init => LayoutInv
<1> SUFFICES ASSUME Init PROVE LayoutInv
  OBVIOUS
<1>1. PICK size \in OldCells : file = Opened(OldFile(size), Reserve)
  BY DEF Init
<1>2. /\ size \in Nat /\ Header \in Nat /\ Reserve \in Nat
  BY LayoutAssumption DEF LayoutAssumption
<1>3. OldFile(size) \in Seq(Cells)
  <2>1. Cell("zero", 0) \in Cells /\ Cell("old", 0) \in Cells
    BY CellType DEF Kinds
  <2> QED  BY <1>2, <2>1 DEF OldFile
<1>4. file \in Seq(Cells) /\ Reserve + 2 * Header <= Len(file)
  BY <1>1, <1>3, OpenedType
<1>5. <<>> \in Seq(Sample) /\ Len(<<>>) = 0
  OBVIOUS
<1>6. TypeOK
  <2>1. /\ pc \in Pcs /\ full \in BOOLEAN /\ closing \in BOOLEAN
        /\ refused \in BOOLEAN
    BY DEF Init, Pcs
  <2>2. samples \in Seq(Sample) /\ Len(samples) = 0
    BY <1>5 DEF Init
  <2>3. /\ n \in 0 .. Len(samples) /\ logged \in 0 .. Len(samples)
        /\ promised \in 0 .. Len(samples) /\ nsyncs \in Nat /\ starts \in Nat
    BY <2>2 DEF Init
  <2>4. pos \in Nat /\ reserve \in {Reserve, DefaultReserve}
    BY <1>2 DEF Init
  <2> QED  BY <1>4, <2>1, <2>2, <2>3, <2>4 DEF TypeOK
<1>7. RecordsBehind /\ CutWhenClosing /\ SamplesInFile
  BY <1>2, <1>4, <1>5 DEF Init, RecordsBehind, Recording, CutWhenClosing,
    SamplesInFile, SamplesOffset
<1> QED  BY <1>6, <1>7 DEF LayoutInv

LEMMA LayoutAdd ==
  ASSUME LayoutInv, NEW size \in Sizes, NEW sync \in BOOLEAN,
         NEW done \in 0 .. size, AddSample(size, sync, done)
  PROVE  LayoutInv'
<1> DEFINE cells == Copies(Cell("data", n + 1), done)
           new == [off |-> pos, size |-> size, sync |-> sync]
<1> USE DEF LayoutInv
<1>1. /\ size \in Nat \ {0} /\ done \in Nat /\ pos \in Nat /\ n \in Nat
      /\ Header \in Nat /\ Reserve \in Nat /\ Len(samples) \in Nat
      /\ file \in Seq(Cells) /\ Len(file) \in Nat /\ samples \in Seq(Sample)
  BY LayoutAssumption DEF LayoutAssumption, TypeOK
<1>2. /\ pc = "open" /\ Recording /\ n = Len(samples) /\ reserve = Reserve
      /\ SamplesOffset <= Len(file) /\ SamplesOffset <= pos
      /\ SamplesOffset \in Nat
      /\ \A i \in 1 .. n : End(i) <= pos
  BY <1>1 DEF AddSample, RecordsBehind, SamplesOffset
<1>3. cells \in Seq(Cells) /\ Len(cells) = done
  <2>1. Cell("data", n + 1) \in Cells
    BY <1>1, CellType DEF Kinds
  <2> QED  BY <1>1, <2>1, CopiesType
<1>4. file' = Put(file, pos, cells)
  BY DEF AddSample
<1>5. cells # <<>> <=> done # 0
  BY <1>1, <1>3
<1> HIDE DEF cells
<1>6. /\ file' \in Seq(Cells) /\ Len(file) <= Len(file') /\ Len(file') \in Nat
      /\ done # 0 => pos + done <= Len(file')
  BY <1>1, <1>3, <1>4, <1>5, PutType
<1>7. CASE done = size
  <2>1. /\ samples' = Append(samples, new) /\ n' = n + 1 /\ pos' = pos + size
        /\ UNCHANGED <<pc, reserve, full, closing, nsyncs, starts, logged, promised,
                       refused>>
    BY <1>7 DEF AddSample
  <2>2. new \in Sample
    BY <1>1 DEF Sample
  <2>3. new.off = pos /\ new.size = size
    OBVIOUS
  <2> HIDE DEF new
  <2>4. /\ samples' \in Seq(Sample) /\ Len(samples') = Len(samples) + 1
        /\ samples'[n + 1] = new
        /\ \A i \in 1 .. n : samples'[i] = samples[i]
    BY <1>1, <1>2, <2>1, <2>2
  <2>5. TypeOK'
    <3>1. /\ pos' \in Nat /\ n' \in Nat /\ n' = Len(samples')
          /\ pc' = pc /\ reserve' = reserve
      BY <1>1, <1>2, <2>1, <2>4
    <3> QED  BY <1>6, <2>1, <2>4, <3>1 DEF TypeOK
  <2>6. \A i \in 1 .. n' : i = n + 1 \/ i \in 1 .. n
    BY <1>1, <2>1
  <2>7. ASSUME NEW i \in 1 .. n'
        PROVE  /\ SamplesOffset <= samples'[i].off
               /\ End(i)' <= pos' /\ End(i)' <= Len(file')
    <3>1. CASE i = n + 1
      BY <1>1, <1>2, <1>6, <1>7, <2>1, <2>3, <2>4, <3>1 DEF End
    <3>2. CASE i \in 1 .. n
      <4>1. samples'[i] = samples[i] /\ End(i)' = End(i)
        BY <2>4, <3>2 DEF End
      <4>2. End(i) \in Nat /\ End(i) <= pos /\ End(i) <= Len(file)
        BY <1>2, <3>2, SampleType DEF SamplesInFile
      <4>3. SamplesOffset <= samples[i].off
        BY <3>2 DEF SamplesInFile
      <4> QED  BY <1>1, <1>6, <2>1, <4>1, <4>2, <4>3
    <3> QED  BY <2>6, <3>1, <3>2
  <2>8. SamplesInFile'
    <3>1. logged' <= n'
      BY <1>1, <2>1 DEF SamplesInFile, TypeOK
    <3> QED  BY <2>7, <3>1 DEF SamplesInFile, SamplesOffset
  <2>9. RecordsBehind'
    BY <1>1, <1>2, <1>6, <2>1, <2>4, <2>7
      DEF RecordsBehind, Recording, SamplesOffset
  <2>10. CutWhenClosing'
    BY <1>2, <2>1 DEF CutWhenClosing
  <2> QED  BY <2>5, <2>8, <2>9, <2>10
<1>8. CASE done # size
  <2>1. UNCHANGED <<pc, reserve, pos, samples, n, full, closing, nsyncs,
                    starts, logged, promised, refused>>
    BY <1>8 DEF AddSample
  <2>2. TypeOK'
    BY <1>6, <2>1 DEF TypeOK
  <2>3. \A i \in 1 .. n : End(i)' = End(i) /\ End(i) \in Nat
    BY <1>2, <2>1, SampleType DEF End
  <2>4. RecordsBehind' /\ CutWhenClosing'
    BY <1>1, <1>2, <1>6, <2>1, <2>3
      DEF RecordsBehind, Recording, SamplesOffset, CutWhenClosing
  <2>5. SamplesInFile'
    BY <1>1, <1>6, <2>1, <2>3 DEF SamplesInFile, SamplesOffset
  <2> QED  BY <2>2, <2>4, <2>5
<1> QED  BY <1>7, <1>8

LEMMA LayoutSync ==
  ASSUME LayoutInv, NEW write_tables \in BOOLEAN, BeginSync(write_tables)
  PROVE  LayoutInv'
<1> USE DEF LayoutInv
<1>1. /\ pc = "open" /\ Recording /\ nsyncs' = nsyncs + 1 /\ logged' = n
      /\ n \in Nat /\ n <= Len(samples) /\ Len(samples) \in Nat
      /\ pc' \in {"open", "mdat"} /\ promised' \in {promised, n, 0}
      /\ UNCHANGED <<file, reserve, pos, samples, n, full, closing, starts, refused>>
  BY DEF BeginSync, RecordsBehind, TypeOK
<1>2. \A i \in 1 .. n : End(i)' = End(i)
  BY <1>1 DEF End
<1>3. TypeOK'
  <2>1. pc' \in Pcs
    BY <1>1 DEF Pcs
  <2>2. promised' \in 0 .. Len(samples)
    BY <1>1 DEF TypeOK
  <2> QED  BY <1>1, <2>1, <2>2 DEF TypeOK
<1>4. RecordsBehind' /\ CutWhenClosing'
  BY <1>1, <1>2 DEF RecordsBehind, Recording, SamplesOffset, CutWhenClosing
<1>5. SamplesInFile'
  BY <1>1, <1>2 DEF SamplesInFile, SamplesOffset
<1> QED  BY <1>3, <1>4, <1>5

LEMMA LayoutClose ==
  ASSUME LayoutInv, BeginClose
  PROVE  LayoutInv'
<1> USE DEF LayoutInv
<1>1. /\ pc = "open" /\ pc' = "mdat" /\ closing' = TRUE /\ promised' = 0
      /\ Len(samples) \in Nat
      /\ UNCHANGED <<file, reserve, pos, samples, n, full, nsyncs, starts,
                     logged, refused>>
  BY DEF BeginClose, TypeOK
<1>2. \A i \in 1 .. n : End(i)' = End(i)
  BY <1>1 DEF End
<1>3. TypeOK'
  BY <1>1 DEF TypeOK, Pcs
<1>4. RecordsBehind' /\ CutWhenClosing'
  BY <1>1 DEF RecordsBehind, Recording, CutWhenClosing
<1>5. SamplesInFile'
  BY <1>1, <1>2 DEF SamplesInFile, SamplesOffset
<1> QED  BY <1>3, <1>4, <1>5

(* What the steps of mp4_mux_sync_internal have in common. *)
LEMMA LayoutWritten ==
  ASSUME LayoutInv,
         file' \in Seq(Cells), Len(file) <= Len(file'),
         UNCHANGED <<muxVars, closing>>, full' \in BOOLEAN,
         pc # "dead", pc' \in Pcs \ {"dead"},
         pc' = "open" => ~closing,
         pc' \in {"trim", "closed", "failed"} => closing,
         promised' \in 0 .. Len(samples), refused' \in BOOLEAN,
         pos' \in {pos, Len(file')}, pc' = "open" => pos' = Len(file')
  PROVE  LayoutInv'
<1> USE DEF LayoutInv
<1>1. /\ UNCHANGED <<reserve, samples, n, nsyncs, starts, logged, closing>>
      /\ n \in Nat /\ n <= Len(samples) /\ Len(samples) \in Nat
      /\ Len(file) \in Nat /\ Len(file') \in Nat
      /\ Reserve \in Nat /\ Header \in Nat /\ SamplesOffset \in Nat
  BY LayoutAssumption DEF LayoutAssumption, muxVars, TypeOK, SamplesOffset
<1>2. \A i \in 1 .. n : /\ End(i)' = End(i) /\ End(i) \in Nat
                        /\ End(i) <= Len(file')
  BY <1>1, SampleType DEF End, SamplesInFile
<1>3. TypeOK'
  BY <1>1 DEF TypeOK
<1>4. RecordsBehind' /\ CutWhenClosing'
  BY <1>1, <1>2 DEF RecordsBehind, Recording, SamplesOffset, CutWhenClosing
<1>5. SamplesInFile'
  BY <1>1, <1>2 DEF SamplesInFile, SamplesOffset
<1> QED  BY <1>3, <1>4, <1>5

LEMMA LayoutWrite ==
  ASSUME LayoutInv,
         \/ WriteMdat \/ WriteMoov \/ MoovTooLarge \/ MoovRefused
         \/ \E done \in 0 .. Len(Pending.cells) : Finish(done) \/ WriteFails(done)
  PROVE  LayoutInv'
<1>1. /\ TypeOK /\ n \in 0 .. Len(samples) /\ promised \in 0 .. Len(samples)
      /\ 0 \in 0 .. Len(samples) /\ full \in BOOLEAN /\ closing \in BOOLEAN
      /\ refused \in BOOLEAN
      /\ file \in Seq(Cells) /\ Len(file) <= Len(file)
      /\ Len(Pending.cells) \in 0 .. Len(Pending.cells)
  BY PendingType DEF LayoutInv, TypeOK
<1>2. CASE WriteMdat
  <2>1. file' \in Seq(Cells) /\ Len(file) <= Len(file')
    BY <1>1, <1>2, WriteType DEF WriteMdat, WriteAll
  <2>2. /\ pc = "mdat" /\ pc' = "moov" /\ UNCHANGED <<muxVars, closing>>
        /\ full' = full /\ promised' = promised /\ pos' = pos
        /\ refused' = refused
    BY <1>2 DEF WriteMdat
  <2> QED  BY <1>1, <2>1, <2>2, LayoutWritten DEF Pcs
<1>3. CASE WriteMoov
  <2>1. file' \in Seq(Cells) /\ Len(file) <= Len(file')
    BY <1>1, <1>3, WriteType DEF WriteMoov, WriteAll
  <2>2. /\ pc = "moov" /\ pc' \in {"pad", "tail"}
        /\ UNCHANGED <<muxVars, closing>>
        /\ full' = full /\ promised' = promised /\ pos' = pos
        /\ refused' = FALSE
    BY <1>3 DEF WriteMoov
  <2> QED  BY <1>1, <2>1, <2>2, LayoutWritten DEF Pcs
<1>4. CASE MoovTooLarge
  <2>1. /\ pc = "moov" /\ pc' = "open" /\ UNCHANGED <<muxVars, closing>>
        /\ ~closing /\ full' = TRUE /\ promised' = promised
        /\ file' = file /\ pos' = Len(file) /\ refused' = refused
    BY <1>4 DEF MoovTooLarge
  <2> QED  BY <1>1, <2>1, LayoutWritten DEF Pcs
<1>7. CASE MoovRefused
  <2>1. /\ pc = "moov" /\ pc' = IF closing THEN "closed" ELSE "open"
        /\ promised' = IF closing THEN 0 ELSE n
        /\ file' = file /\ pos' = Len(file) /\ refused' = TRUE
        /\ UNCHANGED <<muxVars, closing>> /\ full' = full
    BY <1>7 DEF MoovRefused
  <2>2. promised' \in 0 .. Len(samples) /\ Len(file') = Len(file)
    BY <1>1, <2>1
  <2> QED  BY <1>1, <2>1, <2>2, LayoutWritten DEF Pcs
<1>5. ASSUME NEW done \in 0 .. Len(Pending.cells), Finish(done)
      PROVE  LayoutInv'
  <2>1. file' \in Seq(Cells) /\ Len(file) <= Len(file')
    BY <1>1, <1>5, WriteType DEF Finish
  <2>2. /\ pc \in {"pad", "tail"} /\ UNCHANGED <<muxVars, closing>>
        /\ pc' = IF closing THEN "closed" ELSE "open"
        /\ promised' = IF closing THEN 0 ELSE n
        /\ full' = full /\ pos' = Len(file') /\ refused' = refused
    BY <1>5 DEF Finish
  <2>3. promised' \in 0 .. Len(samples)
    BY <1>1, <2>2
  <2> QED  BY <1>1, <2>1, <2>2, <2>3, LayoutWritten DEF Pcs
<1>6. ASSUME NEW done \in 0 .. Len(Pending.cells), WriteFails(done)
      PROVE  LayoutInv'
  <2>1. file' \in Seq(Cells) /\ Len(file) <= Len(file')
    BY <1>1, <1>6, WriteType DEF WriteFails
  <2>2. /\ pc \in {"mdat", "moov", "tail"} /\ UNCHANGED <<muxVars, closing>>
        /\ pc' = IF closing THEN "failed" ELSE "open"
        /\ promised' = promised /\ full' = full /\ pos' = Len(file')
        /\ refused' = refused
    BY <1>6 DEF WriteFails
  <2> QED  BY <1>1, <2>1, <2>2, LayoutWritten DEF Pcs
<1> QED  BY <1>2, <1>3, <1>4, <1>5, <1>6, <1>7

LEMMA LayoutCrash ==
  ASSUME LayoutInv, NEW done \in 0 .. Len(Pending.cells), Crash(done)
  PROVE  LayoutInv'
<1> USE DEF LayoutInv
<1>1. /\ file' \in Seq(Cells) /\ Len(file) <= Len(file')
      /\ Len(file) \in Nat /\ Len(file') \in Nat
  BY WriteType DEF Crash, TypeOK
<1>2. /\ pc' = "dead" /\ n' = logged /\ full' = FALSE /\ closing' = FALSE
      /\ promised' = 0 /\ logged \in Nat /\ n \in Nat /\ logged <= n
      /\ n <= Len(samples) /\ Len(samples) \in Nat
      /\ UNCHANGED <<reserve, pos, samples, nsyncs, starts, logged, refused>>
  BY DEF Crash, TypeOK, SamplesInFile
<1>3. \A i \in 1 .. n' : /\ i \in 1 .. n /\ End(i)' = End(i) /\ End(i) \in Nat
                         /\ End(i) <= Len(file')
  BY <1>1, <1>2, SampleType DEF End, SamplesInFile
<1>4. TypeOK'
  <2>1. pc' \in Pcs /\ full' \in BOOLEAN /\ closing' \in BOOLEAN
    BY <1>2 DEF Pcs
  <2>2. n' \in 0 .. Len(samples') /\ logged' \in 0 .. Len(samples')
    BY <1>2
  <2>3. promised' \in 0 .. Len(samples') /\ samples' \in Seq(Sample)
    BY <1>2 DEF TypeOK
  <2>4. /\ pos' \in Nat /\ reserve' \in {Reserve, DefaultReserve}
        /\ nsyncs' \in Nat /\ starts' \in Nat /\ refused' \in BOOLEAN
    BY <1>2 DEF TypeOK
  <2> QED  BY <1>1, <2>1, <2>2, <2>3, <2>4 DEF TypeOK
<1>5. RecordsBehind' /\ CutWhenClosing'
  BY <1>2 DEF RecordsBehind, Recording, CutWhenClosing
<1>6. SamplesInFile'
  BY <1>1, <1>2, <1>3 DEF SamplesInFile, SamplesOffset
<1> QED  BY <1>4, <1>5, <1>6

LEMMA LayoutRecover ==
  ASSUME LayoutInv, Recover
  PROVE  LayoutInv'
<1> USE DEF LayoutInv
<1>1. /\ file' \in Seq(Cells) /\ Len(file) <= Len(file')
      /\ Len(file) \in Nat /\ Len(file') \in Nat
  BY OpenedType DEF Recover, TypeOK
<1>2. /\ pc' = "trim" /\ starts' = starts + 1 /\ reserve' = DefaultReserve
      /\ n' = logged /\ full' = FALSE /\ closing' = TRUE
      /\ pos' = DefaultReserve + 2 * Header /\ pos' \in Nat
      /\ logged \in Nat /\ n \in Nat /\ logged <= n
      /\ n <= Len(samples) /\ Len(samples) \in Nat
      /\ UNCHANGED <<samples, nsyncs, logged, promised, refused>>
  BY LayoutAssumption DEF LayoutAssumption, Recover, TypeOK, SamplesInFile
<1>3. \A i \in 1 .. n' : /\ i \in 1 .. n /\ End(i)' = End(i) /\ End(i) \in Nat
                         /\ End(i) <= Len(file')
  BY <1>1, <1>2, SampleType DEF End, SamplesInFile
<1>4. TypeOK'
  <2>1. pc' \in Pcs /\ full' \in BOOLEAN /\ closing' \in BOOLEAN
    BY <1>2 DEF Pcs
  <2>2. n' \in 0 .. Len(samples') /\ logged' \in 0 .. Len(samples')
    BY <1>2
  <2>3. promised' \in 0 .. Len(samples') /\ samples' \in Seq(Sample)
    BY <1>2 DEF TypeOK
  <2>4. /\ pos' \in Nat /\ reserve' \in {Reserve, DefaultReserve}
        /\ nsyncs' \in Nat /\ starts' \in Nat /\ refused' \in BOOLEAN
    BY <1>2 DEF TypeOK
  <2> QED  BY <1>1, <2>1, <2>2, <2>3, <2>4 DEF TypeOK
<1>5. RecordsBehind' /\ CutWhenClosing'
  BY <1>2 DEF RecordsBehind, Recording, CutWhenClosing
<1>6. SamplesInFile'
  BY <1>1, <1>2, <1>3 DEF SamplesInFile, SamplesOffset
<1> QED  BY <1>4, <1>5, <1>6

LEMMA LayoutTrim ==
  ASSUME LayoutInv, Trim
  PROVE  LayoutInv'
<1> USE DEF LayoutInv
<1>1. /\ pc = "trim" /\ pc' = "mdat" /\ closing /\ closing' = closing
      /\ n \in Nat /\ n <= Len(samples) /\ Len(samples) \in Nat
      /\ file \in Seq(Cells) /\ Len(file) \in Nat
      /\ UNCHANGED <<reserve, samples, n, nsyncs, starts, logged, pos, full,
                     promised, refused>>
  BY DEF Trim, muxVars, TypeOK, CutWhenClosing
<1>2. PICK last \in {0} \cup {End(i) : i \in 1 .. n} :
        /\ \A i \in 1 .. n : End(i) <= last
        /\ file' = SubSeq(file, 1, last)
  BY DEF Trim
<1>3. last \in Nat /\ last <= Len(file)
  BY <1>1, <1>2, SampleType DEF SamplesInFile
<1>4. file' \in Seq(Cells) /\ Len(file') = last
  BY <1>1, <1>2, <1>3, FirstType
<1>5. \A i \in 1 .. n : End(i)' = End(i) /\ End(i) <= Len(file')
  BY <1>1, <1>2, <1>4 DEF End
<1>6. TypeOK'
  BY <1>1, <1>4 DEF TypeOK, Pcs
<1>7. RecordsBehind' /\ CutWhenClosing'
  BY <1>1 DEF RecordsBehind, Recording, CutWhenClosing
<1>8. SamplesInFile'
  BY <1>1, <1>5 DEF SamplesInFile, SamplesOffset
<1> QED  BY <1>6, <1>7, <1>8

LEMMA LayoutStutter ==
  ASSUME LayoutInv, UNCHANGED vars
  PROVE  LayoutInv'
<1>1. /\ UNCHANGED <<pc, file, reserve, pos, samples, n, full, closing, nsyncs,
                     starts, logged, promised, refused>>
      /\ \A i \in 1 .. n : End(i)' = End(i)
  BY DEF vars, End
<1> QED  BY <1>1 DEF LayoutInv, TypeOK, RecordsBehind, Recording,
  CutWhenClosing, SamplesInFile, SamplesOffset

LEMMA LayoutStep == LayoutInv /\ [Next]_vars => LayoutInv'
<1> SUFFICES ASSUME LayoutInv, [Next]_vars PROVE LayoutInv'
  OBVIOUS
<1> QED  BY LayoutAdd, LayoutSync, LayoutClose, LayoutWrite, LayoutCrash,
  LayoutRecover, LayoutTrim, LayoutStutter DEF Next

(* In every behaviour the samples that the tables in memory or in the log  *)
(* list are behind the reserved space and inside the file: mp4_mux_open,   *)
(* the writes, short ones too, of mp4_mux_track_add_sample, mp4_mux_sync   *)
(* and mp4_mux_close, a crash in the middle of one, and the recovery's     *)
(* ftruncate never leave the tables with a sample that is not there.       *)
THEOREM Layout == Spec => []LayoutInv
<1>1. Init => LayoutInv
  BY LayoutInit
<1>2. LayoutInv /\ [Next]_vars => LayoutInv'
  BY LayoutStep
<1> QED  BY <1>1, <1>2, PTL DEF Spec

(* Every variable keeps its type: the file is a sequence of cells also     *)
(* after mp4_mux_fill_from_file has cut it, which needs the cut to be      *)
(* inside the file, hence Layout.                                          *)
THEOREM TypeCorrect == Spec => []TypeOK
<1>1. LayoutInv => TypeOK
  BY DEF LayoutInv
<1> QED  BY <1>1, Layout, PTL

-----------------------------------------------------------------------------
(* No box over a sample.                                                   *)

(* A step that keeps what is behind the reserved space of the muxer.       *)
LEMMA KeptBehind ==
  ASSUME LayoutInv, SamplesIntact, DefaultReserve <= Reserve,
         NEW limit \in {Reserve, DefaultReserve},
         n' \in Nat, n' <= n, samples' = samples,
         Len(file') \in Nat, Len(file) <= Len(file'),
         \A c \in 1 .. Len(file) :
           limit + 2 * Header < c => file'[c] = file[c]
  PROVE  SamplesIntact'
<1>1. /\ Header \in Nat /\ Reserve \in Nat /\ DefaultReserve \in Nat
      /\ Len(file) \in Nat /\ n \in Nat /\ n <= Len(samples)
      /\ Len(samples) \in Nat
  BY LayoutAssumption DEF LayoutAssumption, LayoutInv, TypeOK
<1> SUFFICES ASSUME NEW i \in 1 .. n', NEW c \in samples[i].off + 1 .. End(i)
             PROVE  c <= Len(file') /\ file'[c] = Cell("data", i)
  BY DEF SamplesIntact, Intact, End
<1>2. i \in 1 .. n /\ i \in 1 .. Len(samples)
  BY <1>1
<1>3. /\ samples[i].off \in Nat /\ End(i) \in Nat
      /\ SamplesOffset <= samples[i].off /\ End(i) <= Len(file)
  BY <1>2, SampleType DEF LayoutInv, SamplesInFile
<1>4. /\ c \in 1 .. Len(file) /\ limit + 2 * Header < c
  <2>1. limit \in Nat /\ limit <= Reserve
    BY <1>1
  <2>2. Reserve + 2 * Header <= samples[i].off
    BY <1>3 DEF SamplesOffset
  <2>3. c \in Nat /\ samples[i].off < c /\ c <= End(i)
    BY <1>3
  <2> QED  BY <1>1, <1>3, <2>1, <2>2, <2>3
<1>5. file[c] = Cell("data", i)
  BY <1>2 DEF SamplesIntact, Intact
<1> QED  BY <1>1, <1>4, <1>5

LEMMA IntactAdd ==
  ASSUME LayoutInv, SamplesIntact,
         NEW size \in Sizes, NEW sync \in BOOLEAN, NEW done \in 0 .. size,
         AddSample(size, sync, done)
  PROVE  SamplesIntact'
<1> DEFINE cells == Copies(Cell("data", n + 1), done)
           new == [off |-> pos, size |-> size, sync |-> sync]
<1>1. /\ size \in Nat \ {0} /\ done \in Nat /\ pos \in Nat /\ n \in Nat
      /\ Len(samples) \in Nat /\ n = Len(samples) /\ samples \in Seq(Sample)
      /\ file \in Seq(Cells) /\ Len(file) \in Nat
      /\ \A i \in 1 .. n : End(i) <= pos
  BY LayoutAssumption
    DEF LayoutAssumption, LayoutInv, TypeOK, AddSample, RecordsBehind
<1>2. /\ cells \in Seq(Cells) /\ Len(cells) = done
      /\ \A j \in 1 .. done : cells[j] = Cell("data", n + 1)
  <2>1. Cell("data", n + 1) \in Cells
    BY <1>1, CellType DEF Kinds
  <2>2. cells \in Seq(Cells) /\ Len(cells) = done
    BY <1>1, <2>1, CopiesType
  <2> QED  BY <1>1, <2>2 DEF Copies
<1>3. file' = Put(file, pos, cells)
  BY DEF AddSample
<1>4. cells # <<>> <=> done # 0
  BY <1>1, <1>2
<1> HIDE DEF cells
<1>5. /\ Len(file) <= Len(file') /\ Len(file') \in Nat
      /\ done # 0 => pos + done <= Len(file')
      /\ \A c \in 1 .. Len(file) : c <= pos => file'[c] = file[c]
      /\ \A c \in pos + 1 .. pos + done : file'[c] = cells[c - pos]
  <2>1. /\ Len(file) <= Len(Put(file, pos, cells))
        /\ Len(Put(file, pos, cells)) \in Nat
        /\ done # 0 => pos + done <= Len(Put(file, pos, cells))
        /\ \A c \in 1 .. Len(file) : c <= pos \/ pos + Len(cells) < c =>
             Put(file, pos, cells)[c] = file[c]
        /\ \A c \in pos + 1 .. pos + Len(cells) :
             Put(file, pos, cells)[c] = cells[c - pos]
    <3>1. file \in Seq(Cells) /\ pos \in Nat /\ cells \in Seq(Cells)
      BY <1>1, <1>2
    <3>2. done # 0 => cells # <<>>
      BY <1>4
    <3> QED  BY <1>2, <3>1, <3>2, PutType
  <2> QED  BY <1>2, <1>3, <2>1
<1>6. ASSUME NEW i \in 1 .. n, NEW c \in samples[i].off + 1 .. End(i)
      PROVE  c <= Len(file') /\ file'[c] = Cell("data", i)
  <2>1. /\ samples[i].off \in Nat /\ End(i) \in Nat
        /\ End(i) <= Len(file) /\ End(i) <= pos
    BY <1>1, SampleType DEF LayoutInv, SamplesInFile
  <2>2. c \in 1 .. Len(file) /\ c <= pos
    BY <1>1, <2>1
  <2>3. file[c] = Cell("data", i)
    BY DEF SamplesIntact, Intact
  <2>4. c <= Len(file') /\ file'[c] = file[c]
    BY <1>1, <1>5, <2>2
  <2> QED  BY <2>3, <2>4
<1>7. CASE done = size
  <2>1. samples' = Append(samples, new) /\ n' = n + 1
    BY <1>7 DEF AddSample
  <2>2. new \in Sample /\ new.off = pos /\ new.size = size
    BY <1>1 DEF Sample
  <2> HIDE DEF new
  <2>3. samples'[n + 1] = new /\ \A i \in 1 .. n : samples'[i] = samples[i]
    BY <1>1, <2>1, <2>2
  <2> SUFFICES ASSUME NEW i \in 1 .. n',
                      NEW c \in samples'[i].off + 1 .. End(i)'
               PROVE  c <= Len(file') /\ file'[c] = Cell("data", i)
    BY DEF SamplesIntact, Intact
  <2>4. CASE i = n + 1
    <3>1. c \in pos + 1 .. pos + done
      BY <1>1, <1>7, <2>2, <2>3, <2>4 DEF End
    <3>2. c - pos \in 1 .. done /\ c <= Len(file')
      BY <1>1, <1>5, <1>7, <3>1
    <3> QED  BY <1>2, <1>5, <2>4, <3>1, <3>2
  <2>5. CASE i \in 1 .. n
    <3>1. c \in samples[i].off + 1 .. End(i)
      BY <2>3, <2>5 DEF End
    <3> QED  BY <1>6, <2>5, <3>1
  <2> QED  BY <1>1, <2>1, <2>4, <2>5
<1>8. CASE done # size
  <2>1. samples' = samples /\ n' = n
    BY <1>8 DEF AddSample
  <2> SUFFICES ASSUME NEW i \in 1 .. n, NEW c \in samples[i].off + 1 .. End(i)
               PROVE  c <= Len(file') /\ file'[c] = Cell("data", i)
    BY <2>1 DEF SamplesIntact, Intact, End
  <2> QED  BY <1>6
<1> QED  BY <1>7, <1>8

LEMMA IntactTrim ==
  ASSUME LayoutInv, SamplesIntact, Trim
  PROVE  SamplesIntact'
<1>1. /\ samples' = samples /\ n' = n /\ n \in Nat /\ n <= Len(samples)
      /\ Len(samples) \in Nat /\ file \in Seq(Cells) /\ Len(file) \in Nat
  BY DEF Trim, muxVars, LayoutInv, TypeOK
<1>2. PICK last \in {0} \cup {End(i) : i \in 1 .. n} :
        /\ \A i \in 1 .. n : End(i) <= last
        /\ file' = SubSeq(file, 1, last)
  BY DEF Trim
<1>3. last \in Nat /\ last <= Len(file)
  BY <1>1, <1>2, SampleType DEF LayoutInv, SamplesInFile
<1>4. Len(file') = last /\ \A c \in 1 .. last : file'[c] = file[c]
  BY <1>1, <1>2, <1>3, FirstType
<1> SUFFICES ASSUME NEW i \in 1 .. n, NEW c \in samples[i].off + 1 .. End(i)
             PROVE  c <= Len(file') /\ file'[c] = Cell("data", i)
  BY <1>1 DEF SamplesIntact, Intact, End
<1>5. samples[i].off \in Nat /\ End(i) \in Nat /\ End(i) <= last
  BY <1>1, <1>2, SampleType DEF LayoutInv
<1>6. c \in 1 .. last
  BY <1>3, <1>5
<1>7. file[c] = Cell("data", i)
  BY DEF SamplesIntact, Intact
<1> QED  BY <1>3, <1>4, <1>6, <1>7

LEMMA IntactStep ==
  ASSUME LayoutInv, SamplesIntact, DefaultReserve <= Reserve, [Next]_vars
  PROVE  SamplesIntact'
<1>1. /\ TypeOK /\ n \in Nat /\ logged \in Nat /\ logged <= n
      /\ reserve \in {Reserve, DefaultReserve}
      /\ file \in Seq(Cells) /\ Len(file) \in Nat
      /\ Len(Pending.cells) \in 0 .. Len(Pending.cells)
  BY PendingType DEF LayoutInv, TypeOK, SamplesInFile
<1>2. ASSUME UNCHANGED <<file, samples, n>> PROVE SamplesIntact'
  BY <1>2 DEF SamplesIntact, Intact, End
<1>3. ASSUME NEW done \in 0 .. Len(Pending.cells), Write(done),
             n' \in {n, logged}, samples' = samples
      PROVE  SamplesIntact'
  <2>1. /\ file' \in Seq(Cells) /\ Len(file) <= Len(file')
        /\ \A c \in 1 .. Len(file) :
             reserve + 2 * Header < c => file'[c] = file[c]
    BY <1>1, <1>3, WriteType
  <2>2. n' \in Nat /\ n' <= n /\ Len(file') \in Nat
    BY <1>1, <1>3, <2>1
  <2> QED  BY <1>1, <1>3, <2>1, <2>2, KeptBehind
<1>4. CASE Recover
  <2>1. n' = logged /\ samples' = samples /\ file' = Opened(file, DefaultReserve)
    BY <1>4 DEF Recover
  <2>2. /\ file' \in Seq(Cells) /\ Len(file) <= Len(file')
        /\ \A c \in 1 .. Len(file) :
             DefaultReserve + 2 * Header < c => file'[c] = file[c]
    BY <1>1, <2>1, OpenedType
  <2>3. n' \in Nat /\ n' <= n /\ Len(file') \in Nat
    BY <1>1, <2>1, <2>2
  <2> QED  BY <1>1, <2>1, <2>2, <2>3, KeptBehind
<1>5. ASSUME NEW write_tables \in BOOLEAN, BeginSync(write_tables)
      PROVE  SamplesIntact'
  BY <1>2, <1>5 DEF BeginSync
<1>6. CASE BeginClose
  BY <1>2, <1>6 DEF BeginClose
<1>7. CASE WriteMdat
  BY <1>1, <1>3, <1>7 DEF WriteMdat, WriteAll, muxVars
<1>8. CASE WriteMoov
  BY <1>1, <1>3, <1>8 DEF WriteMoov, WriteAll, muxVars
<1>9. CASE MoovTooLarge \/ MoovRefused
  BY <1>2, <1>9 DEF MoovTooLarge, MoovRefused, muxVars
<1>10. ASSUME NEW done \in 0 .. Len(Pending.cells),
              Finish(done) \/ WriteFails(done) \/ Crash(done)
       PROVE  SamplesIntact'
  BY <1>3, <1>10 DEF Finish, WriteFails, Crash, muxVars
<1>11. CASE UNCHANGED vars
  BY <1>2, <1>11 DEF vars
<1> QED  BY <1>4, <1>5, <1>6, <1>7, <1>8, <1>9, <1>10, <1>11, IntactAdd,
  IntactTrim DEF Next

(* No box is written over the bytes of a sample in the tables, whatever    *)
(* the sizes of the header, the reserved space and the samples and however *)
(* long the file that mp4_mux_open found: at a mp4_mux_sync, whether the   *)
(* moov fits or not, at a close that puts it behind the samples, and at a  *)
(* recovery, as long as the space that mp4_recovery_mux_open reserves      *)
(* (MP4_MUX_DEFAULT_TABLE_SIZE_MB) is no larger than the space the muxer   *)
(* had: with tables_size_mbytes = 1 the headers of the recovery are        *)
(* written over the first samples, and the premise cannot be dropped.      *)
THEOREM SamplesKept ==
  ASSUME DefaultReserve <= Reserve
  PROVE  Spec => []SamplesIntact
<1>1. Init => SamplesIntact
  BY DEF Init, SamplesIntact
<1>2. LayoutInv /\ SamplesIntact /\ [Next]_vars => SamplesIntact'
  BY IntactStep
<1> QED  BY <1>1, <1>2, Layout, PTL DEF Spec

-----------------------------------------------------------------------------
(* The reader of the boxes: Scan is defined at every offset of the file.   *)

(* The call of mp4_box_children_read at offset o, given what the calls for *)
(* the later boxes return.                                                 *)
ReadAt(scan, o) ==
  IF Ends(o) THEN [ok |-> TRUE, moovs |-> <<>>]
  ELSE IF ~IsBox(o) THEN [ok |-> FALSE, moovs |-> <<>>]
  ELSE LET rest == scan[o + file[o + 1].number]
       IN IF file[o + 1].type = "moov"
          THEN [ok |-> rest.ok /\ IsWhole(o),
                moovs |-> <<file[o + Header + 1].number>> \o rest.moovs]
          ELSE rest

(* It only looks at boxes behind its own. *)
LEMMA ReadsAhead ==
  ASSUME file \in Seq(Cells), NEW o \in 0 .. Len(file),
         NEW f, NEW g, \A p \in o + 1 .. Len(file) : f[p] = g[p]
  PROVE  ReadAt(f, o) = ReadAt(g, o)
<1>1. Len(file) \in Nat /\ Header \in Nat \ {0}
  BY LayoutAssumption DEF LayoutAssumption
<1>2. CASE Ends(o) \/ ~IsBox(o)
  BY <1>2 DEF ReadAt
<1>3. CASE ~Ends(o) /\ IsBox(o)
  <2>1. o + 1 \in 1 .. Len(file)
    BY <1>1, <1>3 DEF Ends
  <2>2. file[o + 1].number \in Int
    <3>1. file[o + 1] \in Cells
      BY <2>1, ElementType
    <3> QED  BY <3>1 DEF Cells
  <2>3. o + file[o + 1].number \in o + 1 .. Len(file)
    BY <1>1, <1>3, <2>2 DEF Ends, IsBox
  <2>4. f[o + file[o + 1].number] = g[o + file[o + 1].number]
    BY <2>3
  <2> QED  BY <1>3, <2>4 DEF ReadAt
<1> QED  BY <1>2, <1>3

LEMMA ScanExists ==
  ASSUME file \in Seq(Cells)
  PROVE  \E scan : scan = [o \in 0 .. Len(file) |-> ReadAt(scan, o)]
<1> DEFINE last == Len(file)
           Defined(k) == \E f : f = [o \in last - k .. last |-> ReadAt(f, o)]
           Bad == {k \in 0 .. last : ~Defined(k)}
<1>1. last \in Nat
  OBVIOUS
<1>2. ASSUME Bad # {} PROVE FALSE
  <2>1. PICK k \in Bad : \A j \in Bad : k <= j
    <3>1. Bad \in SUBSET Nat
      OBVIOUS
    <3> HIDE DEF Bad
    <3> QED  BY <1>2, <3>1, LeastNumber
  <2>2. k \in 0 .. last /\ ~Defined(k)
    BY <2>1
  <2>3. CASE k = 0
    <3> DEFINE f == [o \in last - 0 .. last |-> ReadAt([x \in {} |-> x], o)]
    <3>1. \A o \in last - 0 .. last : o = last /\ o \in 0 .. last
      BY <1>1
    <3>2. \A o \in last - 0 .. last : ReadAt([x \in {} |-> x], o) = ReadAt(f, o)
      BY <1>1, <3>1, ReadsAhead
    <3>3. f = [o \in last - 0 .. last |-> ReadAt(f, o)]
      BY <3>2
    <3> QED  BY <2>2, <2>3, <3>3
  <2>4. CASE k # 0
    <3>1. k - 1 \in 0 .. last /\ k - 1 < k
      BY <1>1, <2>2, <2>4
    <3>2. Defined(k - 1)
      <4>1. k - 1 \notin Bad
        <5>1. k \in Nat /\ \A j \in Bad : k <= j
          BY <1>1, <2>1, <2>2
        <5> HIDE DEF Bad
        <5> QED  BY <3>1, <5>1
      <4> QED  BY <3>1, <4>1
    <3>3. PICK g : g = [o \in last - (k - 1) .. last |-> ReadAt(g, o)]
      BY <3>2
    <3> DEFINE f == [o \in last - k .. last |-> ReadAt(g, o)]
    <3>4. \A o \in last - (k - 1) .. last : f[o] = g[o]
      <4>1. \A o \in last - (k - 1) .. last : o \in last - k .. last
        BY <1>1, <2>2
      <4>2. \A o \in last - (k - 1) .. last : f[o] = ReadAt(g, o)
        BY <4>1
      <4>3. \A o \in last - (k - 1) .. last : g[o] = ReadAt(g, o)
        BY <3>3
      <4> QED  BY <4>2, <4>3
    <3>5. ASSUME NEW o \in last - k .. last PROVE ReadAt(g, o) = ReadAt(f, o)
      <4>1. o \in 0 .. last /\ \A p \in o + 1 .. last : p \in last - (k - 1) .. last
        BY <1>1, <2>2
      <4>2. \A p \in o + 1 .. last : g[p] = f[p]
        BY <3>4, <4>1
      <4> HIDE DEF f
      <4> QED  BY <4>1, <4>2, ReadsAhead
    <3>6. f = [o \in last - k .. last |-> ReadAt(f, o)]
      BY <3>5
    <3> QED  BY <2>2, <3>6
  <2> QED  BY <2>3, <2>4
<1>3. Defined(last)
  BY <1>1, <1>2
<1>4. last - last .. last = 0 .. last
  BY <1>1
<1> QED  BY <1>3, <1>4

LEMMA ScanUnfolds ==
  ASSUME file \in Seq(Cells), NEW o \in 0 .. Len(file)
  PROVE  Scan[o] = ReadAt(Scan, o)
<1>1. Scan = CHOOSE scan : scan = [p \in 0 .. Len(file) |-> ReadAt(scan, p)]
  BY DEF Scan, ReadAt
<1>2. Scan = [p \in 0 .. Len(file) |-> ReadAt(Scan, p)]
  BY <1>1, ScanExists
<1> QED  BY <1>2

(* The cells of the headers. *)
LEMMA HeaderCells ==
  ASSUME NEW type \in Types, NEW size \in Int
  PROVE  /\ BoxHeader(type, size)[1]
              = [kind |-> "box", type |-> type, number |-> size]
         /\ \A j \in 2 .. Header : BoxHeader(type, size)[j] = Cell("rest", 0)
<1> DEFINE c == [kind |-> "box", type |-> type, number |-> size]
           rest == Copies(Cell("rest", 0), Header - 1)
<1>1. Header \in Nat \ {0}
  BY LayoutAssumption DEF LayoutAssumption
<1>2. Cell("rest", 0) \in Cells /\ c \in Cells
  BY CellType DEF Kinds, Cells
<1>3. /\ rest \in Seq(Cells) /\ Len(rest) = Header - 1
      /\ \A j \in 1 .. Header - 1 : rest[j] = Cell("rest", 0)
  <2>1. rest \in Seq(Cells) /\ Len(rest) = Header - 1
    <3>1. Header - 1 \in Nat
      BY <1>1
    <3> QED  BY <1>2, <3>1, CopiesType
  <2> QED  BY <1>1, <2>1 DEF Copies
<1>4. BoxHeader(type, size) = <<c>> \o rest
  BY DEF BoxHeader
<1> HIDE DEF c, rest
<1>5. /\ (<<c>> \o rest)[1] = c
      /\ \A j \in 2 .. Header : (<<c>> \o rest)[j] = rest[j - 1]
  BY <1>1, <1>2, <1>3
<1>6. \A j \in 2 .. Header : j - 1 \in 1 .. Header - 1
  BY <1>1
<1> QED  BY <1>3, <1>4, <1>5, <1>6 DEF c

LEMMA JoinHolds ==
  ASSUME NEW at \in Nat, NEW s \in Seq(Cells), NEW t \in Seq(Cells),
         file \in Seq(Cells), Holds(file, at, s \o t)
  PROVE  Holds(file, at, s) /\ Holds(file, at + Len(s), t)
<1>1. /\ Len(s) \in Nat /\ Len(t) \in Nat /\ Len(s \o t) = Len(s) + Len(t)
      /\ \A j \in 1 .. Len(s) : (s \o t)[j] = s[j]
      /\ \A j \in 1 .. Len(t) : (s \o t)[Len(s) + j] = t[j]
      /\ Len(file) \in Nat
  OBVIOUS
<1>2. /\ at + Len(s \o t) <= Len(file)
      /\ \A j \in 1 .. Len(s \o t) : file[at + j] = (s \o t)[j]
  BY DEF Holds
<1> DEFINE u == s \o t
<1>3. /\ Len(u) = Len(s) + Len(t)
      /\ \A j \in 1 .. Len(s) : u[j] = s[j]
      /\ \A j \in 1 .. Len(t) : u[Len(s) + j] = t[j]
      /\ at + Len(u) <= Len(file)
      /\ \A j \in 1 .. Len(u) : file[at + j] = u[j]
  BY <1>1, <1>2
<1> HIDE DEF u
<1>4. at + Len(s) <= Len(file) /\ at + Len(s) + Len(t) <= Len(file)
  BY <1>1, <1>3
<1>5. \A j \in 1 .. Len(s) : file[at + j] = s[j]
  BY <1>1, <1>3
<1>6. ASSUME NEW j \in 1 .. Len(t) PROVE file[at + Len(s) + j] = t[j]
  <2>1. Len(s) + j \in 1 .. Len(u) /\ at + (Len(s) + j) = at + Len(s) + j
    BY <1>1, <1>3
  <2> QED  BY <1>3, <2>1
<1> QED  BY <1>4, <1>5, <1>6 DEF Holds

Nothing == [ok |-> TRUE, moovs |-> <<>>]

LEMMA ScanEnds ==
  ASSUME file \in Seq(Cells), NEW o \in 0 .. Len(file), Ends(o)
  PROVE  Scan[o] = Nothing
  BY ScanUnfolds DEF ReadAt, Nothing

(* A box that is no moov is passed over. *)
LEMMA ScanBox ==
  ASSUME file \in Seq(Cells), NEW o \in Nat,
         NEW type \in Types \ {"moov"}, NEW size \in Int,
         Header <= size, o + size <= Len(file), Holds(file, o, BoxHeader(type, size))
  PROVE  Scan[o] = Scan[o + size]
<1>1. Header \in Nat \ {0} /\ Len(file) \in Nat
  BY LayoutAssumption DEF LayoutAssumption
<1>2. o \in 0 .. Len(file) /\ o + size \in 0 .. Len(file)
  BY <1>1
<1>3. file[o + 1] = [kind |-> "box", type |-> type, number |-> size]
  <2>1. Len(BoxHeader(type, size)) = Header /\ 1 \in 1 .. Header
    BY <1>1, HeaderType
  <2> QED  BY <2>1, HeaderCells DEF Holds
<1>4. CASE o + Header >= Len(file)
  <2>1. o + size = Len(file) /\ Len(file) + Header >= Len(file)
    BY <1>1, <1>4
  <2> QED  BY <1>1, <1>2, <1>4, <2>1, ScanEnds DEF Ends
<1>5. CASE ~(o + Header >= Len(file))
  <2>1. /\ file[o + 1].kind = "box" /\ file[o + 1].type = type
        /\ file[o + 1].number = size
    BY <1>3
  <2>2. ~Ends(o) /\ IsBox(o)
    BY <1>1, <1>5, <2>1 DEF Ends, IsBox
  <2> QED  BY <1>2, <2>1, <2>2, ScanUnfolds DEF ReadAt
<1> QED  BY <1>4, <1>5

(* So are the free box before the mdat, if any, and the mdat itself. *)
LEMMA ScanMdat ==
  ASSUME file \in Seq(Cells), NEW o \in Nat, NEW size \in Int,
         Header <= size, o + Header + size <= Len(file),
         Holds(file, o, MdatHeader(size))
  PROVE  Scan[o] = Scan[o + Header + size]
<1>1. Header \in Nat \ {0} /\ Len(file) \in Nat
  BY LayoutAssumption DEF LayoutAssumption
<1>2. CASE 0 <= size /\ size <= Narrow
  <2> DEFINE a == BoxHeader("free", Header)
             b == BoxHeader("mdat", size)
  <2>1. /\ a \in Seq(Cells) /\ Len(a) = Header /\ b \in Seq(Cells)
        /\ MdatHeader(size) = a \o b
    BY <1>1, <1>2, HeaderType DEF Types, MdatHeader
  <2> HIDE DEF a, b
  <2>2. Holds(file, o, a) /\ Holds(file, o + Header, b)
    <3>1. Holds(file, o, a \o b)
      BY <2>1
    <3>2. Holds(file, o, a) /\ Holds(file, o + Len(a), b)
      BY <2>1, <3>1, JoinHolds
    <3> QED  BY <2>1, <3>2
  <2>3. Scan[o] = Scan[o + Header]
    <3>1. o + Header <= Len(file)
      BY <1>1
    <3> QED  BY <1>1, <2>2, <3>1, ScanBox DEF a, Types
  <2>4. Scan[o + Header] = Scan[o + Header + size]
    <3>1. o + Header \in Nat
      BY <1>1
    <3> QED  BY <2>2, <3>1, ScanBox DEF b, Types
  <2> QED  BY <2>3, <2>4
<1>3. CASE ~(0 <= size /\ size <= Narrow)
  <2> DEFINE a == BoxHeader("mdat", size + Header)
             b == Copies(Cell("rest", 0), Header)
  <2>1. a \in Seq(Cells) /\ b \in Seq(Cells) /\ MdatHeader(size) = a \o b
    <3>1. Cell("rest", 0) \in Cells
      BY CellType DEF Kinds
    <3>2. b \in Seq(Cells)
      BY <1>1, <3>1, CopiesType
    <3> QED  BY <1>1, <1>3, <3>2, HeaderType DEF Types, MdatHeader
  <2> HIDE DEF a, b
  <2>2. Holds(file, o, a)
    BY <2>1, JoinHolds
  <2>3. /\ size + Header \in Int /\ Header <= size + Header
        /\ o + (size + Header) <= Len(file)
        /\ o + (size + Header) = o + Header + size
    BY <1>1
  <2>4. Scan[o] = Scan[o + (size + Header)]
    BY <2>2, <2>3, ScanBox DEF a, Types
  <2> QED  BY <2>3, <2>4
<1> QED  BY <1>2, <1>3

(* Of a whole moov, the number of its samples is found. *)
LEMMA ScanMoov ==
  ASSUME TypeOK, NEW o \in Nat, Holds(file, o, MoovCells), Scan[o + MoovSize] = Nothing
  PROVE  Scan[o] = [ok |-> TRUE, moovs |-> <<n>>]
<1> DEFINE a == BoxHeader("moov", MoovSize)
           b == Copies(Cell("tables", n), MoovSize - Header)
<1>1. /\ Header \in Nat \ {0} /\ Len(file) \in Nat /\ file \in Seq(Cells)
      /\ n \in Nat /\ MoovSize \in Nat /\ Header < MoovSize
      /\ MoovSize - Header \in Nat
  BY MoovType, LayoutAssumption DEF LayoutAssumption, TypeOK
<1>2. Cell("tables", n) \in Cells
  BY <1>1, CellType DEF Kinds
<1>3. /\ a \in Seq(Cells) /\ Len(a) = Header
      /\ b \in Seq(Cells) /\ Len(b) = MoovSize - Header
      /\ \A j \in 1 .. MoovSize - Header : b[j] = Cell("tables", n)
      /\ a[1] = [kind |-> "box", type |-> "moov", number |-> MoovSize]
      /\ MoovCells = a \o b
  <2>1. b \in Seq(Cells) /\ Len(b) = MoovSize - Header
    BY <1>1, <1>2, CopiesType
  <2>2. \A j \in 1 .. MoovSize - Header : b[j] = Cell("tables", n)
    BY DEF Copies
  <2>3. a \in Seq(Cells) /\ Len(a) = Header
    BY <1>1, HeaderType DEF Types
  <2>4. a[1] = [kind |-> "box", type |-> "moov", number |-> MoovSize]
    BY <1>1, HeaderCells DEF Types
  <2>5. MoovCells = a \o b
    BY DEF MoovCells
  <2> QED  BY <2>1, <2>2, <2>3, <2>4, <2>5
<1> HIDE DEF a, b
<1>4. Holds(file, o, a) /\ Holds(file, o + Header, b)
  BY <1>1, <1>3, JoinHolds
<1>5. file[o + 1] = [kind |-> "box", type |-> "moov", number |-> MoovSize]
  <2>1. 1 \in 1 .. Len(a)
    BY <1>1, <1>3
  <2> QED  BY <1>3, <1>4, <2>1 DEF Holds
<1>6. /\ o + MoovSize <= Len(file)
      /\ \A j \in 1 .. MoovSize - Header :
           file[o + Header + j] = Cell("tables", n)
  <2>1. o + Header + (MoovSize - Header) <= Len(file)
    BY <1>3, <1>4 DEF Holds
  <2>2. \A j \in 1 .. MoovSize - Header : file[o + Header + j] = b[j]
    BY <1>3, <1>4 DEF Holds
  <2>3. o + Header + (MoovSize - Header) = o + MoovSize
    BY <1>1
  <2> QED  BY <1>3, <2>1, <2>2, <2>3
<1>7. file[o + Header + 1] = Cell("tables", n)
  BY <1>1, <1>6
<1>8. /\ file[o + 1].kind = "box" /\ file[o + 1].type = "moov"
      /\ file[o + 1].number = MoovSize
  BY <1>5
<1>9. IsWhole(o)
  <2>1. ASSUME NEW i \in o + Header + 1 .. o + MoovSize
        PROVE  file[i] = Cell("tables", n)
    <3>1. /\ i - (o + Header) \in 1 .. MoovSize - Header
          /\ o + Header + (i - (o + Header)) = i
      BY <1>1
    <3> QED  BY <1>6, <3>1
  <2> QED  BY <1>7, <1>8, <2>1 DEF IsWhole
<1>10. ~Ends(o) /\ IsBox(o)
  BY <1>1, <1>6, <1>8 DEF Ends, IsBox
<1>11. o \in 0 .. Len(file)
  BY <1>1, <1>6
<1>12. Scan[o] = [ok |-> Nothing.ok /\ IsWhole(o),
                  moovs |-> <<file[o + Header + 1].number>> \o Nothing.moovs]
  BY <1>1, <1>8, <1>10, <1>11, ScanUnfolds DEF ReadAt
<1>13. file[o + Header + 1].number = n
  BY <1>7 DEF Cell
<1>14. Nothing.ok = TRUE /\ Nothing.moovs = <<>> /\ <<n>> \o <<>> = <<n>>
  BY DEF Nothing
<1> QED  BY <1>9, <1>12, <1>13, <1>14

-----------------------------------------------------------------------------
(* What the boxes that were written are read as.                           *)

LEMMA Places ==
  ASSUME TypeOK
  PROVE  /\ Header \in Nat \ {0} /\ reserve \in Nat /\ 2 * Header <= reserve
         /\ Reserve \in Nat /\ DefaultReserve \in Nat
         /\ BoxesOffset = Header /\ file \in Seq(Cells) /\ Len(file) \in Nat
         /\ MoovSize \in Nat /\ Header < MoovSize
         /\ MoovCells \in Seq(Cells) /\ Len(MoovCells) = MoovSize
         /\ Left = reserve - Header - MoovSize /\ Left \in Int
         /\ Fits <=> 0 <= Left
         /\ n \in Nat
<1>1. /\ Header \in Nat \ {0} /\ reserve \in Nat /\ 2 * Header <= reserve
      /\ Reserve \in Nat /\ DefaultReserve \in Nat
      /\ BoxesOffset = Header /\ file \in Seq(Cells) /\ Len(file) \in Nat
      /\ n \in Nat
  BY LayoutAssumption DEF LayoutAssumption, BoxesOffset, TypeOK
<1>2. /\ MoovSize \in Nat /\ Header < MoovSize
      /\ MoovCells \in Seq(Cells) /\ Len(MoovCells) = MoovSize
  BY MoovType
<1>3. Left = reserve - Header - MoovSize /\ Left \in Int
  BY <1>1, <1>2 DEF Left
<1>4. Fits <=> 0 <= Left
  BY <1>1, <1>2, <1>3 DEF Fits
<1> QED  BY <1>1, <1>2, <1>3, <1>4

LEMMA FtypReads ==
  ASSUME TypeOK, Holds(file, 0, BoxHeader("ftyp", Header))
  PROVE  Demuxed = Scan[Header]
<1>1. Header \in Nat \ {0} /\ Len(file) \in Nat /\ file \in Seq(Cells)
  BY Places
<1>2. Len(BoxHeader("ftyp", Header)) = Header
  BY <1>1, HeaderType DEF Types
<1>3. /\ 0 + Header <= Len(file)
      /\ file[0 + 1] = BoxHeader("ftyp", Header)[1]
  BY <1>1, <1>2 DEF Holds
<1>4. file # <<>> /\ file[1].type = "ftyp"
  <2>1. BoxHeader("ftyp", Header)[1].type = "ftyp"
    <3>1. "ftyp" \in Types /\ Header \in Int
      BY <1>1 DEF Types
    <3>2. BoxHeader("ftyp", Header)[1]
            = [kind |-> "box", type |-> "ftyp", number |-> Header]
      BY <3>1, HeaderCells
    <3> QED  BY <3>2
  <2>2. 0 + 1 = 1 /\ Len(file) # 0
    BY <1>1, <1>3
  <2> QED  BY <1>3, <2>1, <2>2
<1>5. Scan[0] = Scan[0 + Header]
  BY <1>1, <1>3, ScanBox DEF Types
<1> QED  BY <1>1, <1>4, <1>5 DEF Demuxed

LEMMA FrontReads ==
  ASSUME TypeOK, GapQuiet, pc # "dead", starts = 0 \/ ~Leftover,
         Holds(file, 0, BoxHeader("ftyp", Header)), PaddedInFront
  PROVE  Demuxed = [ok |-> TRUE, moovs |-> <<n>>]
<1> USE DEF PaddedInFront, MoovInFront
<1>1. /\ Header \in Nat \ {0} /\ reserve \in Nat /\ 2 * Header <= reserve
      /\ BoxesOffset = Header /\ file \in Seq(Cells) /\ Len(file) \in Nat
      /\ MoovSize \in Nat /\ Header < MoovSize
      /\ Left = reserve - Header - MoovSize /\ Left \in Int /\ 0 <= Left
  BY Places
<1>2. MdatSize \in Int /\ MdatSize = Len(file) - reserve - Header
  BY <1>1 DEF MdatSize
<1>3. reserve + 2 * Header <= Len(file)
  BY <1>2, MdatType DEF Holds
<1>4. Scan[reserve] = Nothing
  <2>1. /\ Header <= MdatSize /\ reserve + Header + MdatSize = Len(file)
        /\ Len(file) + Header >= Len(file)
    BY <1>1, <1>2, <1>3
  <2>2. Scan[reserve] = Scan[Len(file)]
    BY <1>1, <1>2, <2>1, ScanMdat
  <2> QED  BY <1>1, <2>1, <2>2, ScanEnds DEF Ends
<1>5. Scan[Header + MoovSize] = Nothing
  <2>1. CASE Left = 0
    <3>1. Header + MoovSize = reserve
      BY <1>1, <2>1
    <3> QED  BY <1>4, <3>1
  <2>2. CASE Left >= Header
    <3>1. /\ Header + MoovSize \in Nat /\ Header + MoovSize + Left = reserve
          /\ Header + MoovSize + Left <= Len(file)
      BY <1>1, <1>3, <2>2
    <3>2. Holds(file, Header + MoovSize, BoxHeader("free", Left))
      BY <1>1, <2>2
    <3>3. Scan[Header + MoovSize] = Scan[Header + MoovSize + Left]
      BY <1>1, <2>2, <3>1, <3>2, ScanBox DEF Types
    <3> QED  BY <1>4, <3>1, <3>3
  <2>3. CASE Left # 0 /\ ~(Left >= Header)
    <3>1. Leftover
      BY <1>1, <2>3 DEF Leftover
    <3>2. /\ Header + MoovSize + 1 \in Header + MoovSize + 1 .. reserve
          /\ Header + MoovSize \in 0 .. Len(file)
      BY <1>1, <1>3, <2>3
    <3>3. file[Header + MoovSize + 1].kind \in {"zero", "rest"}
      BY <1>1, <2>3, <3>1, <3>2 DEF GapQuiet
    <3>4. Ends(Header + MoovSize)
      BY <3>3 DEF Ends
    <3> QED  BY <1>1, <3>2, <3>4, ScanEnds
  <2> QED  BY <2>1, <2>2, <2>3
<1>6. Scan[Header] = [ok |-> TRUE, moovs |-> <<n>>]
  BY <1>1, <1>5, ScanMoov
<1> QED  BY <1>6, FtypReads

LEMMA BehindReads ==
  ASSUME TypeOK, Holds(file, 0, BoxHeader("ftyp", Header)), MoovBehind
  PROVE  Demuxed = [ok |-> TRUE, moovs |-> <<n>>]
<1> USE DEF MoovBehind, FreeInFront
<1>1. /\ Header \in Nat \ {0} /\ reserve \in Nat /\ 2 * Header <= reserve
      /\ BoxesOffset = Header /\ file \in Seq(Cells) /\ Len(file) \in Nat
      /\ MoovSize \in Nat /\ Header < MoovSize
  BY Places
<1> DEFINE size == MdatSize - MoovSize
           behind == Len(file) - MoovSize
<1>2. /\ size \in Int /\ behind \in Nat /\ reserve + Header + size = behind
      /\ behind <= Len(file) /\ Header <= size /\ reserve + 2 * Header <= behind
      /\ behind + MoovSize = Len(file)
  BY <1>1 DEF MdatSize
<1>3. Holds(file, behind, MoovCells) /\ Holds(file, reserve, MdatHeader(size))
  OBVIOUS
<1> HIDE DEF size, behind
<1>4. Scan[Len(file)] = Nothing
  <2>1. Len(file) \in 0 .. Len(file) /\ Len(file) + Header >= Len(file)
    BY <1>1
  <2> QED  BY <1>1, <2>1, ScanEnds DEF Ends
<1>5. Scan[behind] = [ok |-> TRUE, moovs |-> <<n>>]
  BY <1>2, <1>3, <1>4, ScanMoov
<1>6. Scan[reserve] = Scan[behind]
  BY <1>1, <1>2, <1>3, ScanMdat
<1>7. Scan[Header] = Scan[reserve]
  <2>1. /\ Header \in Nat /\ reserve - Header \in Int
        /\ Header <= reserve - Header
        /\ Header + (reserve - Header) = reserve
        /\ Header + (reserve - Header) <= Len(file)
    BY <1>1, <1>2
  <2>2. Holds(file, Header, BoxHeader("free", reserve - Header))
    BY <1>1
  <2>3. Scan[Header] = Scan[Header + (reserve - Header)]
    BY <1>1, <2>1, <2>2, ScanBox DEF Types
  <2> QED  BY <2>1, <2>3
<1> QED  BY <1>5, <1>6, <1>7, FtypReads

LEMMA ReadInvShows ==
  ASSUME ReadInv
  PROVE  ClosedReadable /\ SyncedReadable
<1> USE DEF ReadInv, LayoutInv
<1>1. ASSUME pc = "closed", ~refused, starts = 0 \/ (n > 0 /\ ~Leftover)
      PROVE  Shows(n)
  <2>1. Holds(file, 0, BoxHeader("ftyp", Header)) /\ (PaddedInFront \/ MoovBehind)
    BY <1>1 DEF Shown, BoxesWritten, Synced
  <2>2. Demuxed = [ok |-> TRUE, moovs |-> <<n>>]
    BY <1>1, <2>1, FrontReads, BehindReads
  <2> QED  BY <2>2 DEF Shows, SamplesIntact
<1>2. ASSUME Synced PROVE Shows(n)
  <2>1. starts = 0 /\ pc = "open"
    <3>1. ~closing /\ starts \in Nat /\ pc = "open"
      BY <1>2 DEF Synced, RecordsBehind, Recording, TypeOK
    <3> QED  BY <3>1 DEF CallsInv
  <2>2. Holds(file, 0, BoxHeader("ftyp", Header)) /\ PaddedInFront
    BY <1>2, <2>1 DEF Shown, BoxesWritten, Synced
  <2>3. Demuxed = [ok |-> TRUE, moovs |-> <<n>>]
    BY <1>2, <2>1, <2>2, FrontReads
  <2> QED  BY <2>3 DEF Shows, SamplesIntact
<1> QED  BY <1>1, <1>2 DEF ClosedReadable, SyncedReadable

-----------------------------------------------------------------------------
(* Writes and what they leave.                                             *)

LEMMA PutExact ==
  ASSUME NEW f \in Seq(Cells), NEW at \in Nat, NEW cells \in Seq(Cells)
  PROVE  /\ at + Len(cells) <= Len(f) => Len(Put(f, at, cells)) = Len(f)
         /\ at = Len(f) => Len(Put(f, at, cells)) = Len(f) + Len(cells)
         /\ \A c \in 1 .. Len(Put(f, at, cells)) :
              Len(f) < c /\ (c <= at \/ at + Len(cells) < c) =>
                Put(f, at, cells)[c] = Cell("zero", 0)
<1> DEFINE m == IF cells = <<>> THEN Len(f) ELSE Larger(Len(f), at + Len(cells))
           e(i) == IF at < i /\ i <= at + Len(cells) THEN cells[i - at]
                   ELSE IF i <= Len(f) THEN f[i] ELSE Cell("zero", 0)
<1>1. /\ Len(f) \in Nat /\ Len(cells) \in Nat
      /\ cells = <<>> <=> Len(cells) = 0
  OBVIOUS
<1>2. /\ m \in Nat
      /\ at + Len(cells) <= Len(f) => m = Len(f)
      /\ at = Len(f) => m = Len(f) + Len(cells)
  BY <1>1 DEF Larger
<1>3. Put(f, at, cells) = [i \in 1 .. m |-> e(i)]
  BY DEF Put
<1> HIDE DEF m
<1>4. Len(Put(f, at, cells)) = m
  BY <1>2, <1>3
<1>5. ASSUME NEW c \in 1 .. m, Len(f) < c, c <= at \/ at + Len(cells) < c
      PROVE  Put(f, at, cells)[c] = Cell("zero", 0)
  <2>1. ~(at < c /\ c <= at + Len(cells)) /\ ~(c <= Len(f))
    BY <1>1, <1>2, <1>5
  <2> QED  BY <1>3, <2>1
<1> QED  BY <1>2, <1>4, <1>5

LEMMA PutNothing ==
  ASSUME NEW f \in Seq(Cells), NEW at \in Nat
  PROVE  Put(f, at, <<>>) = f
<1>1. /\ Len(f) \in Nat /\ f = [i \in 1 .. Len(f) |-> f[i]]
      /\ Len(<<>>) = 0
  OBVIOUS
<1>2. \A i \in 1 .. Len(f) : ~(at < i /\ i <= at + Len(<<>>)) /\ i <= Len(f)
  BY <1>1
<1> QED  BY <1>1, <1>2 DEF Put

LEMMA HoldsKept ==
  ASSUME NEW f \in Seq(Cells), NEW g \in Seq(Cells), NEW a \in Nat,
         NEW s \in Seq(Cells), Holds(f, a, s), Len(f) <= Len(g),
         \A c \in 1 .. Len(f) : a < c /\ c <= a + Len(s) => g[c] = f[c]
  PROVE  Holds(g, a, s)
<1>1. Len(f) \in Nat /\ Len(g) \in Nat /\ Len(s) \in Nat
  OBVIOUS
<1>2. /\ a + Len(s) <= Len(f)
      /\ \A j \in 1 .. Len(s) : f[a + j] = s[j]
  BY DEF Holds
<1>3. ASSUME NEW j \in 1 .. Len(s) PROVE g[a + j] = s[j]
  <2>1. a + j \in 1 .. Len(f) /\ a < a + j /\ a + j <= a + Len(s)
    BY <1>1, <1>2
  <2> QED  BY <1>2, <2>1
<1>4. a + Len(s) <= Len(g)
  BY <1>1, <1>2
<1> QED  BY <1>3, <1>4 DEF Holds

LEMMA PutHolds ==
  ASSUME NEW f \in Seq(Cells), NEW at \in Nat, NEW cells \in Seq(Cells),
         cells # <<>>
  PROVE  Holds(Put(f, at, cells), at, cells)
<1>1. /\ at + Len(cells) <= Len(Put(f, at, cells))
      /\ \A c \in at + 1 .. at + Len(cells) : Put(f, at, cells)[c] = cells[c - at]
  BY PutType
<1>2. ASSUME NEW j \in 1 .. Len(cells) PROVE Put(f, at, cells)[at + j] = cells[j]
  <2>1. at + j \in at + 1 .. at + Len(cells) /\ (at + j) - at = j
    OBVIOUS
  <2> QED  BY <1>1, <2>1
<1> QED  BY <1>1, <1>2 DEF Holds

LEMMA PutKeeps ==
  ASSUME NEW f \in Seq(Cells), NEW at \in Nat, NEW cells \in Seq(Cells),
         NEW a \in Nat, NEW s \in Seq(Cells), Holds(f, a, s),
         a + Len(s) <= at \/ at + Len(cells) <= a
  PROVE  Holds(Put(f, at, cells), a, s)
<1>1. /\ Put(f, at, cells) \in Seq(Cells) /\ Len(f) <= Len(Put(f, at, cells))
      /\ \A c \in 1 .. Len(f) : c <= at \/ at + Len(cells) < c =>
           Put(f, at, cells)[c] = f[c]
  BY PutType
<1>2. ASSUME NEW c \in 1 .. Len(f), a < c, c <= a + Len(s)
      PROVE  c <= at \/ at + Len(cells) < c
  BY <1>2
<1> QED  BY <1>1, <1>2, HoldsKept

(* A complete write is the write of all cells. *)
LEMMA WriteWhole ==
  ASSUME TypeOK, Write(Len(Pending.cells))
  PROVE  file' = Put(file, Pending.at, Pending.cells)
<1>1. Pending.cells \in Seq(Cells)
  BY PendingType
<1>2. SubSeq(Pending.cells, 1, Len(Pending.cells)) = Pending.cells
  <2> DEFINE s == Pending.cells
  <2>1. s \in Seq(Cells)
    BY <1>1
  <2> HIDE DEF s
  <2>2. SubSeq(s, 1, Len(s)) = s
    BY <2>1
  <2> QED  BY <2>2 DEF s
<1> QED  BY <1>2 DEF Write

(* No write makes the file shorter. *)
LEMMA LengthKept ==
  ASSUME LayoutInv, [Next]_vars, ~Trim
  PROVE  Len(file) <= Len(file')
<1>1. /\ TypeOK /\ file \in Seq(Cells) /\ Len(file) \in Nat
      /\ Len(Pending.cells) \in 0 .. Len(Pending.cells)
  BY PendingType DEF LayoutInv, TypeOK
<1>2. ASSUME UNCHANGED file PROVE Len(file) <= Len(file')
  BY <1>1, <1>2
<1>3. ASSUME NEW done \in 0 .. Len(Pending.cells), Write(done)
      PROVE  Len(file) <= Len(file')
  BY <1>1, <1>3, WriteType
<1>4. ASSUME NEW size \in Sizes, NEW sync \in BOOLEAN, NEW done \in 0 .. size,
             AddSample(size, sync, done)
      PROVE  Len(file) <= Len(file')
  <2>1. pos \in Nat /\ n \in Nat /\ done \in Nat
    BY LayoutAssumption DEF LayoutAssumption, LayoutInv, TypeOK
  <2>2. Cell("data", n + 1) \in Cells
    BY <2>1, CellType DEF Kinds
  <2>3. Copies(Cell("data", n + 1), done) \in Seq(Cells)
    BY <2>1, <2>2, CopiesType
  <2> QED  BY <1>1, <1>4, <2>1, <2>3, PutType DEF AddSample
<1>5. CASE Recover
  BY <1>1, <1>5, OpenedType DEF Recover
<1>6. CASE \E write_tables \in BOOLEAN : BeginSync(write_tables)
  BY <1>2, <1>6 DEF BeginSync
<1>7. CASE BeginClose
  BY <1>2, <1>7 DEF BeginClose
<1>8. CASE WriteMdat
  BY <1>1, <1>3, <1>8 DEF WriteMdat, WriteAll
<1>9. CASE WriteMoov
  BY <1>1, <1>3, <1>9 DEF WriteMoov, WriteAll
<1>10. CASE MoovTooLarge \/ MoovRefused
  BY <1>2, <1>10 DEF MoovTooLarge, MoovRefused
<1>11. ASSUME NEW done \in 0 .. Len(Pending.cells),
              Finish(done) \/ WriteFails(done) \/ Crash(done)
       PROVE  Len(file) <= Len(file')
  BY <1>3, <1>11 DEF Finish, WriteFails, Crash
<1>12. CASE UNCHANGED vars
  BY <1>2, <1>12 DEF vars
<1> QED  BY <1>4, <1>5, <1>6, <1>7, <1>8, <1>9, <1>10, <1>11, <1>12 DEF Next

LEMMA CallsStep ==
  ASSUME LayoutInv, CallsInv, [Next]_vars
  PROVE  CallsInv'
<1>1. /\ starts \in Nat /\ promised \in Nat /\ Len(file) \in Nat
      /\ SamplesOffset \in Int /\ Len(file') \in Nat
      /\ closing \in BOOLEAN
  <2>1. TypeOK'
    BY LayoutStep DEF LayoutInv
  <2>2. file' \in Seq(Cells)
    BY <2>1 DEF TypeOK
  <2>3. promised \in Nat /\ starts \in Nat /\ closing \in BOOLEAN
    BY DEF LayoutInv, TypeOK
  <2>4. file \in Seq(Cells)
    BY DEF LayoutInv, TypeOK
  <2>5. SamplesOffset \in Int
    BY LayoutAssumption DEF LayoutAssumption, SamplesOffset
  <2> QED  BY <2>2, <2>3, <2>4, <2>5
<1>2. SamplesOffset' = SamplesOffset
  BY DEF SamplesOffset
<1>3. CASE UNCHANGED vars
  BY <1>3 DEF vars, CallsInv, SamplesOffset
<1>4. CASE Trim
  BY <1>1, <1>4 DEF Trim, muxVars, CallsInv
<1>5. CASE Recover
  BY <1>1, <1>5 DEF Recover, CallsInv
<1>6. CASE ~Trim /\ ~Recover /\ ~(UNCHANGED vars)
  <2>1. Len(file) <= Len(file')
    BY LengthKept, <1>6
  <2>2. /\ starts' = starts /\ reserve' = reserve /\ pc' # "trim"
        /\ pc # "dead" /\ (closing => closing' \/ pc' = "dead")
        /\ pc' = "tail" => closing'
        /\ pc' # "open" => promised' = 0
    <3>1. ASSUME NEW size \in Sizes, NEW sync \in BOOLEAN, NEW done \in 0 .. size,
                 AddSample(size, sync, done)
          PROVE  <2>2!:
      BY <3>1 DEF AddSample
    <3>2. ASSUME NEW write_tables \in BOOLEAN, BeginSync(write_tables)
          PROVE  <2>2!:
      BY <3>2 DEF BeginSync
    <3>3. CASE BeginClose
      BY <3>3 DEF BeginClose
    <3>4. CASE WriteMdat
      BY <3>4 DEF WriteMdat, muxVars, CallsInv
    <3>5. CASE WriteMoov
      BY <3>5 DEF WriteMoov, muxVars, CallsInv
    <3>6. CASE MoovTooLarge
      BY <3>6 DEF MoovTooLarge, muxVars, CallsInv
    <3>10. CASE MoovRefused
      BY <3>10 DEF MoovRefused, muxVars, CallsInv
    <3>7. ASSUME NEW done \in 0 .. Len(Pending.cells), Finish(done)
          PROVE  <2>2!:
      BY <3>7 DEF Finish, muxVars, CallsInv
    <3>8. ASSUME NEW done \in 0 .. Len(Pending.cells), WriteFails(done)
          PROVE  <2>2!:
      BY <3>8 DEF WriteFails, muxVars, CallsInv
    <3>9. ASSUME NEW done \in 0 .. Len(Pending.cells), Crash(done)
          PROVE  <2>2!:
      BY <3>9 DEF Crash, CallsInv
    <3> QED  BY <1>6, <3>1, <3>2, <3>3, <3>4, <3>5, <3>6, <3>7, <3>8, <3>9, <3>10
      DEF Next
  <2>3. starts = 0 => SamplesOffset <= Len(file')
    BY <1>1, <2>1 DEF CallsInv
  <2> QED  BY <1>2, <2>2, <2>3 DEF CallsInv
<1> QED  BY <1>3, <1>4, <1>5, <1>6

(* The moov grows with every sample. *)
LEMMA MoovGrows ==
  ASSUME TypeOK, n = Len(samples), n' = n + 1,
         NEW new \in Sample, samples' = Append(samples, new)
  PROVE  MoovSize < MoovSize' /\ MoovSize' \in Nat
<1> DEFINE syncs == {i \in 1 .. n : samples[i].sync}
           more  == {i \in 1 .. n + 1 : samples'[i].sync}
<1>1. /\ n \in Nat /\ Header \in Nat /\ MoovBase \in Nat
      /\ samples \in Seq(Sample)
  BY LayoutAssumption DEF LayoutAssumption, TypeOK
<1>2. \A i \in 1 .. n : samples'[i] = samples[i] /\ i \in 1 .. n + 1
  BY <1>1
<1>3. syncs \in SUBSET more /\ more \in SUBSET (1 .. n + 1)
  BY <1>2
<1>4. IsFiniteSet(more)
  <2>1. 1 \in Int /\ n + 1 \in Int
    BY <1>1
  <2>2. IsFiniteSet(1 .. n + 1)
    BY <2>1, FS_Interval
  <2> QED  BY <1>3, <2>2, FS_Subset
<1>5. MoovSize = Header + MoovBase + 2 * n + Cardinality(syncs)
  BY DEF MoovSize
<1>6. MoovSize' = Header + MoovBase + 2 * (n + 1) + Cardinality(more)
  BY DEF MoovSize
<1> HIDE DEF syncs, more
<1>7. /\ Cardinality(syncs) \in Nat /\ Cardinality(more) \in Nat
      /\ Cardinality(syncs) <= Cardinality(more)
  <2>1. IsFiniteSet(syncs) /\ Cardinality(syncs) <= Cardinality(more)
    BY <1>3, <1>4, FS_Subset
  <2> QED  BY <1>4, <2>1, FS_CardinalityType
<1> QED  BY <1>1, <1>5, <1>6, <1>7

(* A hole in the file stays one, if nothing is written there. *)
Quiet(f, lo, hi) ==
  \A c \in 1 .. Len(f) : lo < c /\ c <= hi => f[c] = Cell("zero", 0)

LEMMA PutQuiet ==
  ASSUME NEW f \in Seq(Cells), NEW at \in Nat, NEW cells \in Seq(Cells),
         NEW lo \in Nat, NEW hi \in Nat,
         at + Len(cells) <= lo \/ hi <= at,
         Quiet(f, lo, hi)
  PROVE  /\ Put(f, at, cells) \in Seq(Cells)
         /\ Quiet(Put(f, at, cells), lo, hi)
<1> DEFINE g == Put(f, at, cells)
           zero == Cell("zero", 0)
<1>1. /\ g \in Seq(Cells)
      /\ \A c \in 1 .. Len(f) : c <= at \/ at + Len(cells) < c => g[c] = f[c]
  BY PutType
<1>2. \A c \in 1 .. Len(g) :
        Len(f) < c /\ (c <= at \/ at + Len(cells) < c) => g[c] = zero
  BY PutExact
<1>3. Len(f) \in Nat /\ Len(cells) \in Nat /\ Len(g) \in Nat
  BY <1>1
<1> HIDE DEF g
<1>4. ASSUME NEW c \in 1 .. Len(g), lo < c, c <= hi PROVE g[c] = zero
  <2>1. c <= at \/ at + Len(cells) < c
    BY <1>3, <1>4
  <2>2. CASE Len(f) < c
    BY <1>2, <2>1, <2>2
  <2>3. CASE ~(Len(f) < c)
    <3>1. c \in 1 .. Len(f)
      BY <1>3, <2>3
    <3> QED  BY <1>1, <1>4, <2>1, <3>1 DEF Quiet
  <2> QED  BY <2>2, <2>3
<1> QED  BY <1>1, <1>4 DEF g, Quiet

LEMMA GapInit == Init => GapQuiet
<1> SUFFICES ASSUME Init PROVE GapQuiet
  OBVIOUS
<1>1. PICK size \in OldCells : file = Opened(OldFile(size), Reserve)
  BY DEF Init
<1>2. /\ size \in Nat /\ Header \in Nat \ {0} /\ Reserve \in Nat
      /\ BoxesOffset = Header /\ 2 * Header <= Reserve
  BY LayoutAssumption DEF LayoutAssumption, BoxesOffset
<1>3. /\ reserve = Reserve /\ LayoutInv
  BY LayoutInit DEF Init
<1> DEFINE f0 == OldFile(size)
           ftyp == BoxHeader("ftyp", Header)
           free == BoxHeader("free", Reserve - BoxesOffset)
           mdat == MdatHeader(0)
           f1 == Put(f0, 0, ftyp)
           f2 == Put(f1, BoxesOffset, free)
           f3 == Put(f2, Reserve, mdat)
           lo == 2 * Header
<1>4. f0 \in Seq(Cells) /\ Quiet(f0, lo, Reserve)
  <2>1. Cell("zero", 0) \in Cells /\ Cell("old", 0) \in Cells
    BY CellType DEF Kinds
  <2> QED  BY <1>2, <2>1 DEF OldFile, Quiet
<1>5. /\ ftyp \in Seq(Cells) /\ Len(ftyp) = Header
      /\ free \in Seq(Cells) /\ Len(free) = Header
      /\ mdat \in Seq(Cells)
  BY <1>2, HeaderType, MdatType DEF Types
<1>6. file = f3
  BY <1>1 DEF Opened
<1> HIDE DEF f0, ftyp, free, mdat, f1, f2, f3
<1>7. f1 \in Seq(Cells) /\ Quiet(f1, lo, Reserve)
  <2>1. 0 + Len(ftyp) <= lo /\ lo \in Nat
    BY <1>2, <1>5
  <2> HIDE DEF lo
  <2> QED  BY <1>2, <1>4, <1>5, <2>1, PutQuiet DEF f1
<1>8. f2 \in Seq(Cells) /\ Quiet(f2, lo, Reserve)
  <2>1. BoxesOffset + Len(free) <= lo /\ lo \in Nat
    BY <1>2, <1>5
  <2>2. BoxesOffset \in Nat
    BY <1>2
  <2> HIDE DEF lo
  <2> QED  BY <1>2, <1>5, <1>7, <2>1, <2>2, PutQuiet DEF f2
<1>9. f3 \in Seq(Cells) /\ Quiet(f3, lo, Reserve)
  <2>1. Reserve <= Reserve /\ lo \in Nat
    BY <1>2
  <2> HIDE DEF lo
  <2> QED  BY <1>2, <1>5, <1>8, <2>1, PutQuiet DEF f3
<1>10. Reserve <= Len(file) /\ Len(file) \in Nat
  <2>1. Recording
    BY DEF Recording, Init
  <2>2. Reserve + 2 * Header <= Len(file)
    BY <1>3, <2>1 DEF LayoutInv, RecordsBehind, SamplesOffset
  <2> QED  BY <1>2, <1>6, <1>9, <2>2
<1>11. MoovSize \in Nat /\ Header < MoovSize
  BY <1>3, MoovType DEF LayoutInv
<1>12. ASSUME NEW c \in BoxesOffset + MoovSize + 1 .. reserve
       PROVE  file[c].kind \in {"zero", "rest"}
  <2>1. c \in 1 .. Len(file) /\ c <= Reserve /\ 2 * Header < c
    BY <1>2, <1>3, <1>10, <1>11
  <2>2. file[c] = Cell("zero", 0)
    BY <1>6, <1>9, <2>1 DEF Quiet
  <2> QED  BY <2>2 DEF Cell
<1> QED  BY <1>12 DEF GapQuiet

(* What a write leaves of the space behind the moov. *)
LEMMA GapWrite ==
  ASSUME LayoutInv, GapQuiet, CallsInv, starts = 0, pc # "dead",
         NEW done \in 0 .. Len(Pending.cells), Write(done),
         NEW c \in BoxesOffset + MoovSize + 1 .. reserve
  PROVE  \/ file'[c].kind \in {"zero", "rest"}
         \/ c = BoxesOffset + MoovSize + 1 /\ Left >= Header
<1>1. /\ Header \in Nat \ {0} /\ reserve \in Nat /\ 2 * Header <= reserve
      /\ BoxesOffset = Header /\ file \in Seq(Cells) /\ Len(file) \in Nat
      /\ MoovSize \in Nat /\ Header < MoovSize
      /\ Left = reserve - Header - MoovSize /\ Left \in Int
      /\ Fits <=> 0 <= Left
      /\ MoovCells \in Seq(Cells) /\ Len(MoovCells) = MoovSize /\ TypeOK
  BY Places DEF LayoutInv
<1>2. reserve <= Len(file) /\ c \in 1 .. Len(file)
  BY <1>1, LayoutAssumption DEF LayoutAssumption, CallsInv, SamplesOffset
<1> DEFINE at == Pending.at
           all == Pending.cells
           cells == SubSeq(all, 1, done)
<1>3. at \in Nat /\ all \in Seq(Cells) /\ Len(all) \in Nat
  BY <1>1, PendingType
<1>4. file' = Put(file, at, cells)
  BY DEF Write
<1>5. done \in Nat /\ done <= Len(all)
  BY <1>3
<1> HIDE DEF at, all
<1>6. /\ cells \in Seq(Cells) /\ Len(cells) = done
      /\ \A j \in 1 .. done : cells[j] = all[j]
  BY <1>3, <1>5, FirstType
<1> HIDE DEF cells
<1>7. /\ c <= at \/ at + done < c => file'[c] = file[c]
      /\ c \in at + 1 .. at + done => file'[c] = all[c - at]
  <2>1. /\ \A i \in 1 .. Len(file) : i <= at \/ at + Len(cells) < i =>
             Put(file, at, cells)[i] = file[i]
        /\ \A i \in at + 1 .. at + Len(cells) :
             Put(file, at, cells)[i] = cells[i - at]
    <3>1. file \in Seq(Cells) /\ at \in Nat /\ cells \in Seq(Cells)
      BY <1>1, <1>3, <1>6
    <3> QED  BY <3>1, PutType
  <2>2. /\ c <= at \/ at + done < c => file'[c] = file[c]
        /\ c \in at + 1 .. at + done => file'[c] = cells[c - at]
    BY <1>2, <1>4, <1>6, <2>1
  <2>3. c \in at + 1 .. at + done => c - at \in 1 .. done
    BY <1>2, <1>3, <1>5
  <2> QED  BY <1>6, <2>2, <2>3
<1>8. \/ file[c].kind \in {"zero", "rest"}
      \/ c = BoxesOffset + MoovSize + 1 /\ Left >= Header
  BY DEF GapQuiet
<1>9. ASSUME c <= at \/ at + Len(all) < c
      PROVE  file'[c] = file[c]
  <2>1. c <= at \/ at + done < c
    BY <1>2, <1>3, <1>5, <1>9
  <2> QED  BY <1>7, <2>1
<1>10. CASE pc = "mdat"
  <2>1. at = reserve
    BY <1>10 DEF Pending, at
  <2> QED  BY <1>1, <1>8, <1>9, <2>1
<1>11. CASE pc = "moov" /\ Fits
  <2>1. at = BoxesOffset /\ all = MoovCells
    BY <1>11 DEF Pending, at, all
  <2> QED  BY <1>1, <1>8, <1>9, <2>1
<1>12. CASE pc = "moov" /\ ~Fits
  BY <1>1, <1>12
<1>13. CASE pc = "pad" /\ Left < Header
  <2>1. all = <<>> /\ Len(<<>>) = 0
    BY <1>13 DEF Pending, Padding, all
  <2>2. c <= at \/ at + Len(all) < c
    BY <1>2, <1>3, <2>1
  <2> QED  BY <1>8, <1>9, <2>2
<1>14. CASE pc = "pad" /\ ~(Left < Header)
  <2>1. at = BoxesOffset + MoovSize /\ all = BoxHeader("free", Left)
    BY <1>14 DEF Pending, Padding, at, all
  <2>2. Len(all) = Header /\ \A j \in 2 .. Header : all[j] = Cell("rest", 0)
    <3>1. "free" \in Types /\ Left \in Int
      BY <1>1 DEF Types
    <3>2. Len(BoxHeader("free", Left)) = Header
      BY <3>1, HeaderType
    <3>3. \A j \in 2 .. Header : BoxHeader("free", Left)[j] = Cell("rest", 0)
      BY <3>1, HeaderCells
    <3> QED  BY <2>1, <3>2, <3>3
  <2>3. CASE c = at + 1
    BY <1>1, <1>14, <2>1, <2>3
  <2>4. CASE c # at + 1 /\ c <= at + done
    <3>1. c \in at + 1 .. at + done /\ c - at \in 2 .. Header
      BY <1>1, <1>2, <1>5, <2>1, <2>2, <2>4
    <3>2. file'[c] = Cell("rest", 0)
      BY <1>7, <2>2, <3>1
    <3> QED  BY <3>2 DEF Cell
  <2>5. CASE c # at + 1 /\ ~(c <= at + done)
    <3>1. at + done < c
      BY <1>2, <1>3, <1>5, <2>5
    <3> QED  BY <1>7, <1>8, <3>1
  <2> QED  BY <2>3, <2>4, <2>5
<1>15. CASE pc = "tail"
  <2>1. at = Len(file)
    BY <1>15 DEF Pending, at
  <2> QED  BY <1>2, <1>8, <1>9, <2>1
<1>16. CASE pc \notin {"mdat", "moov", "pad", "tail"}
  <2>1. all = <<>> /\ Len(<<>>) = 0
    BY <1>16 DEF Pending, all
  <2>2. c <= at \/ at + Len(all) < c
    BY <1>2, <1>3, <2>1
  <2> QED  BY <1>8, <1>9, <2>2
<1> QED  BY <1>10, <1>11, <1>12, <1>13, <1>14, <1>15, <1>16

(* While the muxer writes, its tables and the size of the moov stay. *)
LEMMA SameTables ==
  ASSUME UNCHANGED <<n, samples, reserve>>
  PROVE  /\ MoovSize' = MoovSize /\ MoovCells' = MoovCells
         /\ Fits' <=> Fits
         /\ Left' = Left
         /\ BoxesOffset' = BoxesOffset
  BY DEF MoovSize, MoovCells, Fits, Left, BoxesOffset

LEMMA GapStep ==
  ASSUME LayoutInv, CallsInv, GapQuiet, [Next]_vars
  PROVE  GapQuiet'
<1> SUFFICES ASSUME starts' = 0, pc' # "dead",
                    NEW c \in BoxesOffset' + MoovSize' + 1 .. reserve'
             PROVE  \/ file'[c].kind \in {"zero", "rest"}
                    \/ c = BoxesOffset' + MoovSize' + 1 /\ Left' >= Header
  BY DEF GapQuiet
<1>1. /\ TypeOK /\ Header \in Nat \ {0} /\ reserve \in Nat
      /\ BoxesOffset = Header /\ BoxesOffset' = Header
      /\ file \in Seq(Cells) /\ Len(file) \in Nat /\ MoovSize \in Nat
      /\ starts \in Nat
  BY Places DEF LayoutInv, TypeOK, BoxesOffset
<1>2. ASSUME UNCHANGED <<n, samples, reserve, file, starts>>, pc # "dead"
      PROVE  \/ file'[c].kind \in {"zero", "rest"}
             \/ c = BoxesOffset' + MoovSize' + 1 /\ Left' >= Header
  <2>1. /\ MoovSize' = MoovSize /\ Left' = Left /\ BoxesOffset' = BoxesOffset
        /\ reserve' = reserve /\ file' = file /\ starts = 0
    BY <1>2, SameTables
  <2> QED  BY <1>2, <2>1 DEF GapQuiet
<1>3. ASSUME NEW done \in 0 .. Len(Pending.cells), Write(done),
             UNCHANGED muxVars, pc # "dead"
      PROVE  \/ file'[c].kind \in {"zero", "rest"}
             \/ c = BoxesOffset' + MoovSize' + 1 /\ Left' >= Header
  <2>1. /\ MoovSize' = MoovSize /\ Left' = Left /\ BoxesOffset' = BoxesOffset
        /\ reserve' = reserve /\ starts = 0
    BY <1>3, SameTables DEF muxVars
  <2>2. c \in BoxesOffset + MoovSize + 1 .. reserve
    BY <2>1
  <2>3. \/ file'[c].kind \in {"zero", "rest"}
        \/ c = BoxesOffset + MoovSize + 1 /\ Left >= Header
    BY <1>3, <2>1, <2>2, GapWrite
  <2> QED  BY <2>1, <2>3
<1>4. ASSUME NEW size \in Sizes, NEW sync \in BOOLEAN, NEW done \in 0 .. size,
             AddSample(size, sync, done)
      PROVE  \/ file'[c].kind \in {"zero", "rest"}
             \/ c = BoxesOffset' + MoovSize' + 1 /\ Left' >= Header
  <2>1. /\ pc = "open" /\ reserve' = reserve /\ starts = 0
        /\ file' = Put(file, pos, Copies(Cell("data", n + 1), done))
    BY <1>4 DEF AddSample
  <2>2. /\ n \in Nat /\ pos \in Nat /\ done \in Nat
        /\ size \in Nat /\ n = Len(samples) /\ reserve <= pos
        /\ reserve <= Len(file)
    <3>1. n \in Nat /\ pos \in Nat /\ done \in Nat /\ size \in Nat
      BY LayoutAssumption DEF LayoutAssumption, LayoutInv, TypeOK
    <3>2. /\ n = Len(samples) /\ reserve = Reserve
          /\ SamplesOffset <= Len(file) /\ SamplesOffset <= pos
      BY <2>1 DEF LayoutInv, RecordsBehind
    <3> QED  BY <1>1, <3>1, <3>2 DEF SamplesOffset
  <2>3. Copies(Cell("data", n + 1), done) \in Seq(Cells)
    <3>1. Cell("data", n + 1) \in Cells
      BY <2>2, CellType DEF Kinds
    <3> QED  BY <2>2, <3>1, CopiesType
  <2>4. \A i \in 1 .. Len(file) : i <= pos => file'[i] = file[i]
    <3> DEFINE cells == Copies(Cell("data", n + 1), done)
    <3>1. cells \in Seq(Cells) /\ file' = Put(file, pos, cells)
      BY <2>1, <2>3
    <3> HIDE DEF cells
    <3>2. \A i \in 1 .. Len(file) : i <= pos \/ pos + Len(cells) < i =>
            Put(file, pos, cells)[i] = file[i]
      BY <1>1, <2>2, <3>1, PutType
    <3> QED  BY <3>1, <3>2
  <2>5. CASE done = size
    <3>1. /\ n' = n + 1
          /\ samples' = Append(samples, [off |-> pos, size |-> size,
                                         sync |-> sync])
      BY <1>4, <2>5 DEF AddSample
    <3>2. [off |-> pos, size |-> size, sync |-> sync] \in Sample
      BY <2>2 DEF Sample
    <3>3. MoovSize < MoovSize' /\ MoovSize' \in Nat
      BY <1>1, <2>2, <3>1, <3>2, MoovGrows
    <3>4. /\ c \in BoxesOffset + MoovSize + 1 .. reserve
          /\ c # BoxesOffset + MoovSize + 1
          /\ c \in 1 .. Len(file) /\ c <= pos
      <4> DEFINE m  == MoovSize
                 mm == MoovSize'
      <4>1. /\ c \in Header + mm + 1 .. reserve /\ m < mm
            /\ m \in Nat /\ mm \in Nat
        BY <1>1, <2>1, <3>3
      <4> HIDE DEF m, mm
      <4>2. /\ c \in Header + m + 1 .. reserve /\ c # Header + m + 1
            /\ c \in 1 .. Len(file) /\ c <= pos
        BY <1>1, <2>2, <4>1
      <4> QED  BY <1>1, <4>2 DEF m
    <3>5. file[c].kind \in {"zero", "rest"}
      BY <2>1, <3>4 DEF GapQuiet
    <3> QED  BY <2>4, <3>4, <3>5
  <2>6. CASE done # size
    <3>1. UNCHANGED <<n, samples, reserve>>
      BY <1>4, <2>6 DEF AddSample
    <3>2. MoovSize' = MoovSize /\ Left' = Left
      BY <3>1, SameTables
    <3>3. /\ c \in BoxesOffset + MoovSize + 1 .. reserve
          /\ c \in 1 .. Len(file) /\ c <= pos
      BY <1>1, <2>1, <2>2, <3>2
    <3>4. \/ file[c].kind \in {"zero", "rest"}
          \/ c = BoxesOffset + MoovSize + 1 /\ Left >= Header
      BY <2>1, <3>3 DEF GapQuiet
    <3> QED  BY <1>1, <2>4, <3>2, <3>3, <3>4
  <2> QED  BY <2>5, <2>6
<1>5. CASE \E write_tables \in BOOLEAN : BeginSync(write_tables)
  BY <1>2, <1>5 DEF BeginSync
<1>6. CASE BeginClose
  BY <1>2, <1>6 DEF BeginClose
<1>7. CASE MoovTooLarge \/ MoovRefused
  BY <1>2, <1>7 DEF MoovTooLarge, MoovRefused, muxVars
<1>8. Len(Pending.cells) \in 0 .. Len(Pending.cells)
  BY <1>1, PendingType
<1>9. CASE WriteMdat
  BY <1>3, <1>8, <1>9 DEF WriteMdat, WriteAll
<1>10. CASE WriteMoov
  BY <1>3, <1>8, <1>10 DEF WriteMoov, WriteAll
<1>11. ASSUME NEW done \in 0 .. Len(Pending.cells),
              Finish(done) \/ WriteFails(done) \/ Crash(done)
       PROVE  \/ file'[c].kind \in {"zero", "rest"}
              \/ c = BoxesOffset' + MoovSize' + 1 /\ Left' >= Header
  BY <1>3, <1>11 DEF Finish, WriteFails, Crash
<1>12. CASE Recover
  <2>1. starts' = starts + 1
    BY <1>12 DEF Recover
  <2> QED  BY <1>1, <2>1
<1>13. CASE Trim
  BY <1>13 DEF Trim, muxVars, CallsInv
<1>14. CASE UNCHANGED vars
  <2>1. UNCHANGED <<n, samples, reserve, file, starts>> /\ pc # "dead"
    BY <1>14 DEF vars
  <2> QED  BY <1>2, <2>1
<1> QED  BY <1>4, <1>5, <1>6, <1>7, <1>9, <1>10, <1>11, <1>12, <1>13, <1>14
  DEF Next

-----------------------------------------------------------------------------
(* The boxes, write by write.                                              *)

LEMMA ShownRoom ==
  ASSUME LayoutInv, CallsInv, Shown, DefaultReserve <= Reserve
  PROVE  reserve + 2 * Header <= Len(file)
<1>1. /\ Header \in Nat /\ reserve \in Nat /\ Reserve \in Nat
      /\ DefaultReserve \in Nat /\ Len(file) \in Nat /\ n \in Nat
      /\ reserve <= Reserve
  BY Places DEF LayoutInv, TypeOK
<1>2. CASE starts = 0
  BY <1>1, <1>2 DEF CallsInv, SamplesOffset
<1>3. CASE n > 0
  <2>1. 1 \in 1 .. n /\ 1 \in 1 .. Len(samples)
    BY <1>1, <1>3 DEF LayoutInv, TypeOK
  <2>2. SamplesOffset <= samples[1].off /\ End(1) <= Len(file)
    BY <2>1 DEF LayoutInv, SamplesInFile
  <2>3. samples[1].off \in Nat /\ End(1) \in Nat /\ samples[1].off <= End(1)
    BY <2>1, SampleType DEF LayoutInv
  <2> QED  BY <1>1, <2>2, <2>3 DEF SamplesOffset
<1> QED  BY <1>2, <1>3 DEF Shown

LEMMA FtypType ==
  /\ BoxHeader("ftyp", Header) \in Seq(Cells)
  /\ Len(BoxHeader("ftyp", Header)) = Header
  /\ Header \in Nat \ {0}
<1>1. Header \in Nat \ {0} /\ "ftyp" \in Types
  BY LayoutAssumption DEF LayoutAssumption, Types
<1> QED  BY <1>1, HeaderType

(* Every box is written behind the ftyp. *)
LEMMA FtypKept ==
  ASSUME TypeOK, Holds(file, 0, BoxHeader("ftyp", Header)),
         NEW done \in 0 .. Len(Pending.cells), Write(done), Header <= Len(file)
  PROVE  Holds(file', 0, BoxHeader("ftyp", Header))
<1> DEFINE at == Pending.at
           all == Pending.cells
           cells == SubSeq(all, 1, done)
           ftyp == BoxHeader("ftyp", Header)
<1>1. /\ at \in Nat /\ all \in Seq(Cells) /\ Len(all) \in Nat
      /\ file \in Seq(Cells)
  BY PendingType DEF TypeOK
<1>2. /\ Header \in Nat \ {0} /\ reserve \in Nat /\ 2 * Header <= reserve
      /\ BoxesOffset = Header /\ MoovSize \in Nat
  BY Places
<1>3. all = <<>> \/ Header <= at
  <2>1. CASE pc = "mdat"
    BY <1>2, <2>1 DEF Pending
  <2>2. CASE pc = "moov" /\ Fits
    BY <1>2, <2>2 DEF Pending
  <2>3. CASE pc = "moov" /\ ~Fits /\ closing
    BY <1>2, <2>3 DEF Pending
  <2>4. CASE pc = "pad"
    BY <1>2, <2>4 DEF Pending
  <2>5. CASE pc = "tail"
    BY <1>2, <2>5 DEF Pending
  <2>6. CASE ~(pc = "mdat" \/ pc = "pad" \/ pc = "tail"
               \/ (pc = "moov" /\ (Fits \/ closing)))
    BY <2>6 DEF Pending
  <2> QED  BY <2>1, <2>2, <2>3, <2>4, <2>5, <2>6
<1>4. file' = Put(file, at, cells) /\ Holds(file, 0, ftyp)
  BY DEF Write
<1>5. /\ ftyp \in Seq(Cells) /\ Len(ftyp) = Header
  BY FtypType
<1>6. done \in Nat /\ done <= Len(all) /\ (all = <<>> => done = 0)
  BY <1>1
<1> HIDE DEF at, all, ftyp
<1>7. cells \in Seq(Cells) /\ Len(cells) = done
  BY <1>1, <1>6, FirstType
<1> HIDE DEF cells
<1>8. CASE Header <= at
  <2>1. 0 + Len(ftyp) <= at /\ 0 \in Nat
    BY <1>2, <1>5, <1>8
  <2>2. Holds(Put(file, at, cells), 0, ftyp)
    BY <1>1, <1>4, <1>5, <1>7, <2>1, PutKeeps
  <2> QED  BY <1>4, <2>2 DEF ftyp
<1>9. CASE all = <<>>
  <2>1. cells = <<>>
    BY <1>6, <1>7, <1>9
  <2>2. file' = file
    BY <1>1, <1>4, <2>1, PutNothing
  <2> QED  BY <1>4, <2>2 DEF ftyp
<1> QED  BY <1>3, <1>8, <1>9

LEMMA WrittenMdat ==
  ASSUME LayoutInv, CallsInv, DefaultReserve <= Reserve, Shown, BoxesWritten,
         WriteMdat
  PROVE  BoxesWritten'
<1>1. /\ Header \in Nat \ {0} /\ reserve \in Nat /\ 2 * Header <= reserve
      /\ file \in Seq(Cells) /\ Len(file) \in Nat /\ TypeOK
  BY Places DEF LayoutInv
<1>2. reserve + 2 * Header <= Len(file)
  BY ShownRoom
<1>3. MdatSize \in Int /\ MdatSize = Len(file) - reserve - Header
  BY <1>1 DEF MdatSize
<1>4. MdatHeader(MdatSize) \in Seq(Cells) /\ Len(MdatHeader(MdatSize)) = 2 * Header
  BY <1>3, MdatType
<1>5. Write(Len(Pending.cells)) /\ pc = "mdat" /\ pc' = "moov" /\ reserve' = reserve
  BY DEF WriteMdat, WriteAll, muxVars
<1>6. Pending = [at |-> reserve, cells |-> MdatHeader(MdatSize)]
  BY <1>5 DEF Pending
<1>7. file' = Put(file, reserve, MdatHeader(MdatSize))
  BY <1>1, <1>5, <1>6, WriteWhole
<1>8. Len(file') = Len(file)
  BY <1>1, <1>2, <1>4, <1>7, PutExact
<1>9. MdatSize' = MdatSize
  BY <1>5, <1>8 DEF MdatSize
<1>10. Holds(file', reserve, MdatHeader(MdatSize))
  <2>1. MdatHeader(MdatSize) # <<>>
    <3>1. Len(MdatHeader(MdatSize)) # 0 /\ Len(<<>>) = 0
      BY <1>1, <1>4
    <3> QED  BY <3>1
  <2> QED  BY <1>1, <1>4, <1>7, <2>1, PutHolds
<1>11. Holds(file', reserve', MdatHeader(MdatSize'))
  BY <1>5, <1>9, <1>10
<1>12. Holds(file', 0, BoxHeader("ftyp", Header))
  <2>1. Len(Pending.cells) \in 0 .. Len(Pending.cells) /\ Header <= Len(file)
    BY <1>1, <1>2, PendingType
  <2> QED  BY <1>1, <1>5, <2>1, FtypKept DEF BoxesWritten, Synced
<1> QED  BY <1>5, <1>11, <1>12 DEF BoxesWritten, Synced

LEMMA WrittenMoov ==
  ASSUME LayoutInv, CallsInv, DefaultReserve <= Reserve, Shown, BoxesWritten,
         WriteMoov
  PROVE  BoxesWritten'
<1>1. /\ Header \in Nat \ {0} /\ reserve \in Nat /\ 2 * Header <= reserve
      /\ file \in Seq(Cells) /\ Len(file) \in Nat /\ TypeOK
      /\ BoxesOffset = Header
      /\ MoovSize \in Nat /\ Header < MoovSize
      /\ MoovCells \in Seq(Cells) /\ Len(MoovCells) = MoovSize
      /\ Left = reserve - Header - MoovSize /\ Left \in Int
      /\ Fits <=> 0 <= Left
  BY Places DEF LayoutInv
<1>2. reserve + 2 * Header <= Len(file)
  BY ShownRoom
<1>3. MdatSize \in Int /\ MdatSize = Len(file) - reserve - Header
  BY <1>1 DEF MdatSize
<1> DEFINE mdat == MdatHeader(MdatSize)
<1>4. mdat \in Seq(Cells) /\ Len(mdat) = 2 * Header
  BY <1>3, MdatType
<1>5. /\ Write(Len(Pending.cells)) /\ pc = "moov" /\ reserve' = reserve
      /\ pc' = IF Fits THEN "pad" ELSE "tail"
      /\ Fits \/ closing
      /\ UNCHANGED <<n, samples, reserve>>
  BY DEF WriteMoov, WriteAll, muxVars
<1>6. Holds(file, reserve, mdat)
  BY <1>5 DEF BoxesWritten, Synced
<1> HIDE DEF mdat
<1>7. Holds(file', 0, BoxHeader("ftyp", Header))
  <2>1. Len(Pending.cells) \in 0 .. Len(Pending.cells) /\ Header <= Len(file)
    BY <1>1, <1>2, PendingType
  <2> QED  BY <1>1, <1>5, <2>1, FtypKept DEF BoxesWritten, Synced
<1>8. /\ MoovSize' = MoovSize /\ MoovCells' = MoovCells
      /\ Fits' <=> Fits
      /\ Left' = Left /\ BoxesOffset' = BoxesOffset
  BY <1>5, SameTables
<1>9. ASSUME NEW cells \in Seq(Cells), cells # <<>>,
             Header + Len(cells) <= reserve,
             Pending = [at |-> BoxesOffset, cells |-> cells]
      PROVE  /\ Holds(file', BoxesOffset, cells)
             /\ Holds(file', reserve', MdatHeader(MdatSize'))
  <2>1. file' = Put(file, Header, cells)
    BY <1>1, <1>5, <1>9, WriteWhole
  <2>2. Len(file') = Len(file)
    <3>1. Header + Len(cells) <= Len(file)
      BY <1>1, <1>2, <1>9
    <3> QED  BY <1>1, <1>9, <2>1, <3>1, PutExact
  <2>3. MdatSize' = MdatSize
    BY <1>5, <2>2 DEF MdatSize
  <2>4. Holds(file', BoxesOffset, cells)
    BY <1>1, <1>9, <2>1, PutHolds
  <2>5. Holds(file', reserve, mdat)
    BY <1>1, <1>4, <1>6, <1>9, <2>1, PutKeeps
  <2>6. Holds(file', reserve', MdatHeader(MdatSize'))
    BY <1>5, <2>3, <2>5 DEF mdat
  <2> QED  BY <2>4, <2>6
<1>10. CASE Fits
  <2>1. Pending = [at |-> BoxesOffset, cells |-> MoovCells]
    BY <1>5, <1>10 DEF Pending
  <2>2. Header + Len(MoovCells) <= reserve /\ MoovCells # <<>>
    <3>1. Header + Len(MoovCells) <= reserve
      BY <1>1, <1>10
    <3>2. Len(MoovCells) # 0 /\ Len(<<>>) = 0
      BY <1>1
    <3> QED  BY <3>1, <3>2
  <2>3. /\ Holds(file', BoxesOffset, MoovCells)
        /\ Holds(file', reserve', MdatHeader(MdatSize'))
    BY <1>1, <1>9, <2>1, <2>2
  <2>4. Holds(file', BoxesOffset', MoovCells')
    BY <1>8, <2>3
  <2>5. MoovInFront'
    BY <1>8, <1>10, <2>3, <2>4 DEF MoovInFront
  <2> QED  BY <1>5, <1>7, <1>10, <2>5 DEF BoxesWritten, Synced
<1>11. CASE ~Fits
  <2> DEFINE free == BoxHeader("free", reserve - BoxesOffset)
  <2>1. Pending = [at |-> BoxesOffset, cells |-> free]
    BY <1>5, <1>11 DEF Pending
  <2>2. free \in Seq(Cells) /\ Len(free) = Header
    <3>1. "free" \in Types /\ reserve - BoxesOffset \in Int
      BY <1>1 DEF Types
    <3> QED  BY <3>1, HeaderType
  <2> HIDE DEF free
  <2>3. Header + Len(free) <= reserve /\ free # <<>>
    <3>1. Header + Len(free) <= reserve
      BY <1>1, <2>2
    <3>2. Len(free) # 0 /\ Len(<<>>) = 0
      BY <1>1, <2>2
    <3> QED  BY <3>1, <3>2
  <2>4. /\ Holds(file', BoxesOffset, free)
        /\ Holds(file', reserve', MdatHeader(MdatSize'))
    BY <1>9, <2>1, <2>2, <2>3
  <2>5. FreeInFront'
    <3>1. Holds(file', BoxesOffset, BoxHeader("free", reserve - BoxesOffset))
      BY <2>4 DEF free
    <3>2. Holds(file', BoxesOffset', BoxHeader("free", reserve' - BoxesOffset'))
      BY <1>5, <1>8, <3>1
    <3> QED  BY <1>8, <1>11, <3>2 DEF FreeInFront
  <2> QED  BY <1>5, <1>7, <1>11, <2>4, <2>5 DEF BoxesWritten, Synced
<1> QED  BY <1>10, <1>11

(* What is written at the end of a call that returns 0. *)
LEMMA WrittenPad ==
  ASSUME LayoutInv, CallsInv, DefaultReserve <= Reserve, Shown, BoxesWritten,
         pc = "pad", pc' \in {"closed", "open"},
         UNCHANGED <<n, samples, reserve>>, Write(Len(Pending.cells))
  PROVE  BoxesWritten'
<1>1. /\ Header \in Nat \ {0} /\ reserve \in Nat /\ 2 * Header <= reserve
      /\ file \in Seq(Cells) /\ Len(file) \in Nat /\ TypeOK
      /\ BoxesOffset = Header
      /\ MoovSize \in Nat /\ Header < MoovSize
      /\ MoovCells \in Seq(Cells) /\ Len(MoovCells) = MoovSize
      /\ Left = reserve - Header - MoovSize /\ Left \in Int
      /\ Fits <=> 0 <= Left
  BY Places DEF LayoutInv
<1>2. reserve + 2 * Header <= Len(file)
  BY ShownRoom
<1>3. MdatSize \in Int /\ MdatSize = Len(file) - reserve - Header
  BY <1>1 DEF MdatSize
<1> DEFINE mdat == MdatHeader(MdatSize)
           free == BoxHeader("free", Left)
           behind == BoxesOffset + MoovSize
<1>4. mdat \in Seq(Cells) /\ Len(mdat) = 2 * Header
  BY <1>3, MdatType
<1>5. free \in Seq(Cells) /\ Len(free) = Header
  <2>1. "free" \in Types /\ Left \in Int
    BY <1>1 DEF Types
  <2> QED  BY <2>1, HeaderType
<1>6. Fits /\ Holds(file, BoxesOffset, MoovCells) /\ Holds(file, reserve, mdat)
  BY DEF BoxesWritten, Synced, MoovInFront
<1>7. Holds(file', 0, BoxHeader("ftyp", Header))
  <2>1. Len(Pending.cells) \in 0 .. Len(Pending.cells) /\ Header <= Len(file)
    BY <1>1, <1>2, PendingType
  <2> QED  BY <1>1, <2>1, FtypKept DEF BoxesWritten, Synced
<1>8. /\ MoovSize' = MoovSize /\ MoovCells' = MoovCells
      /\ Fits' <=> Fits
      /\ Left' = Left /\ BoxesOffset' = BoxesOffset /\ reserve' = reserve
  BY SameTables
<1>9. Pending = [at |-> behind, cells |-> Padding]
  BY DEF Pending
<1>10. /\ behind \in Nat /\ behind = Header + MoovSize
       /\ behind + Left = reserve
  BY <1>1
<1> HIDE DEF mdat, free, behind
<1>11. /\ Len(file') = Len(file)
       /\ Holds(file', BoxesOffset, MoovCells) /\ Holds(file', reserve, mdat)
       /\ Left >= Header => Holds(file', behind, free)
  <2>1. CASE Left < Header
    <3>1. Padding = <<>>
      BY <2>1 DEF Padding
    <3>2. file' = Put(file, behind, <<>>)
      BY <1>1, <1>9, <3>1, WriteWhole
    <3>3. file' = file
      BY <1>1, <1>10, <3>2, PutNothing
    <3> QED  BY <1>1, <1>6, <2>1, <3>3
  <2>2. CASE ~(Left < Header)
    <3>1. Padding = free
      BY <2>2 DEF Padding, free
    <3>2. file' = Put(file, behind, free)
      BY <1>1, <1>9, <3>1, WriteWhole
    <3>3. behind + Len(free) <= reserve /\ behind + Len(free) <= Len(file)
      BY <1>1, <1>2, <1>5, <1>10, <2>2
    <3>4. Len(file') = Len(file)
      BY <1>1, <1>5, <1>10, <3>2, <3>3, PutExact
    <3>5. Holds(file', BoxesOffset, MoovCells)
      <4>1. BoxesOffset + Len(MoovCells) <= behind /\ BoxesOffset \in Nat
        BY <1>1, <1>10
      <4> QED  BY <1>1, <1>5, <1>6, <1>10, <3>2, <4>1, PutKeeps
    <3>6. Holds(file', reserve, mdat)
      BY <1>1, <1>4, <1>5, <1>6, <1>10, <3>2, <3>3, PutKeeps
    <3>7. Holds(file', behind, free)
      <4>1. free # <<>>
        <5>1. Len(free) # 0 /\ Len(<<>>) = 0
          BY <1>1, <1>5
        <5> QED  BY <5>1
      <4> QED  BY <1>1, <1>5, <1>10, <3>2, <4>1, PutHolds
    <3> QED  BY <3>4, <3>5, <3>6, <3>7
  <2> QED  BY <2>1, <2>2
<1>12. MdatSize' = MdatSize
  BY <1>8, <1>11 DEF MdatSize
<1>13. MoovInFront'
  <2>1. /\ Holds(file', BoxesOffset', MoovCells')
        /\ Holds(file', reserve', MdatHeader(MdatSize'))
    BY <1>8, <1>11, <1>12 DEF mdat
  <2> QED  BY <1>6, <1>8, <2>1 DEF MoovInFront
<1>14. PaddedInFront'
  <2>1. Left' >= Header =>
          Holds(file', BoxesOffset' + MoovSize', BoxHeader("free", Left'))
    BY <1>8, <1>11 DEF free, behind
  <2> QED  BY <1>13, <2>1 DEF PaddedInFront
<1> QED  BY <1>7, <1>14 DEF BoxesWritten, Synced

LEMMA WrittenTail ==
  ASSUME LayoutInv, CallsInv, DefaultReserve <= Reserve, Shown, BoxesWritten,
         pc = "tail", pc' = "closed",
         UNCHANGED <<n, samples, reserve>>, Write(Len(Pending.cells))
  PROVE  BoxesWritten'
<1>1. /\ Header \in Nat \ {0} /\ reserve \in Nat /\ 2 * Header <= reserve
      /\ file \in Seq(Cells) /\ Len(file) \in Nat /\ TypeOK
      /\ BoxesOffset = Header
      /\ MoovSize \in Nat /\ Header < MoovSize
      /\ MoovCells \in Seq(Cells) /\ Len(MoovCells) = MoovSize
  BY Places DEF LayoutInv
<1>2. reserve + 2 * Header <= Len(file)
  BY ShownRoom
<1>3. MdatSize \in Int /\ MdatSize = Len(file) - reserve - Header
  BY <1>1 DEF MdatSize
<1> DEFINE mdat == MdatHeader(MdatSize)
           free == BoxHeader("free", reserve - BoxesOffset)
           end == Len(file)
<1>4. mdat \in Seq(Cells) /\ Len(mdat) = 2 * Header
  BY <1>3, MdatType
<1>5. free \in Seq(Cells) /\ Len(free) = Header
  <2>1. "free" \in Types /\ reserve - BoxesOffset \in Int
    BY <1>1 DEF Types
  <2> QED  BY <2>1, HeaderType
<1>6. ~Fits /\ Holds(file, BoxesOffset, free) /\ Holds(file, reserve, mdat)
  BY DEF BoxesWritten, Synced, FreeInFront
<1>7. Holds(file', 0, BoxHeader("ftyp", Header))
  <2>1. Len(Pending.cells) \in 0 .. Len(Pending.cells) /\ Header <= Len(file)
    BY <1>1, <1>2, PendingType
  <2> QED  BY <1>1, <2>1, FtypKept DEF BoxesWritten, Synced
<1>8. /\ MoovSize' = MoovSize /\ MoovCells' = MoovCells
      /\ Fits' <=> Fits
      /\ BoxesOffset' = BoxesOffset /\ reserve' = reserve
  BY SameTables
<1>9. Pending = [at |-> end, cells |-> MoovCells]
  BY DEF Pending
<1>10. file' = Put(file, end, MoovCells)
  BY <1>1, <1>9, WriteWhole
<1>11. end \in Nat /\ end = Len(file)
  BY <1>1
<1> HIDE DEF mdat, free, end
<1>12. Len(file') = Len(file) + MoovSize /\ end = Len(file') - MoovSize
  <2>1. Len(file') = Len(file) + Len(MoovCells)
    BY <1>1, <1>10, <1>11, PutExact
  <2> QED  BY <1>1, <1>11, <2>1
<1>13. Holds(file', BoxesOffset, free) /\ Holds(file', reserve, mdat)
  <2>1. /\ BoxesOffset + Len(free) <= end /\ reserve + Len(mdat) <= end
        /\ BoxesOffset \in Nat
    BY <1>1, <1>2, <1>4, <1>5, <1>11
  <2> QED  BY <1>1, <1>4, <1>5, <1>6, <1>10, <1>11, <2>1, PutKeeps
<1>14. Holds(file', end, MoovCells)
  <2>1. MoovCells # <<>>
    <3>1. Len(MoovCells) # 0 /\ Len(<<>>) = 0
      BY <1>1
    <3> QED  BY <3>1
  <2> QED  BY <1>1, <1>10, <1>11, <2>1, PutHolds
<1>15. MdatSize' - MoovSize' = MdatSize
  <2>1. MdatSize' = Len(file') - reserve' - Header
    BY DEF MdatSize
  <2> QED  BY <1>1, <1>3, <1>8, <1>12, <2>1
<1>16. FreeInFront'
  <2>1. Holds(file', BoxesOffset', BoxHeader("free", reserve' - BoxesOffset'))
    BY <1>8, <1>13 DEF free
  <2> QED  BY <1>6, <1>8, <2>1 DEF FreeInFront
<1>17. MoovBehind'
  <2>1. Holds(file', reserve', MdatHeader(MdatSize' - MoovSize'))
    BY <1>8, <1>13, <1>15 DEF mdat
  <2>2. Holds(file', Len(file') - MoovSize', MoovCells')
    BY <1>8, <1>12, <1>14
  <2>3. reserve' + 2 * Header <= Len(file') - MoovSize'
    BY <1>1, <1>2, <1>8, <1>11, <1>12
  <2> QED  BY <1>16, <2>1, <2>2, <2>3 DEF MoovBehind
<1> QED  BY <1>7, <1>17 DEF BoxesWritten, Synced

LEMMA WrittenFinish ==
  ASSUME LayoutInv, CallsInv, DefaultReserve <= Reserve, PaddingFails = FALSE,
         Shown, BoxesWritten, NEW done \in 0 .. Len(Pending.cells), Finish(done)
  PROVE  BoxesWritten'
<1>1. /\ pc \in {"pad", "tail"} /\ done = Len(Pending.cells) /\ Write(done)
      /\ pc' = IF closing THEN "closed" ELSE "open"
      /\ UNCHANGED <<n, samples, reserve>>
  BY DEF Finish, muxVars
<1>2. CASE pc = "pad"
  BY <1>1, <1>2, WrittenPad
<1>3. CASE pc = "tail"
  <2>1. pc' = "closed"
    BY <1>1, <1>3 DEF CallsInv
  <2> QED  BY <1>1, <1>3, <2>1, WrittenTail
<1> QED  BY <1>1, <1>2, <1>3

(* A sample that is added, or whose write was short. *)
LEMMA WrittenAdd ==
  ASSUME LayoutInv, CallsInv, BoxesWritten, starts = 0,
         NEW size \in Sizes, NEW sync \in BOOLEAN, NEW done \in 0 .. size,
         AddSample(size, sync, done)
  PROVE  BoxesWritten'
<1> DEFINE cells == Copies(Cell("data", n + 1), done)
           ftyp == BoxHeader("ftyp", Header)
<1>1. /\ pc = "open" /\ pc' = "open" /\ file' = Put(file, pos, cells)
      /\ promised' = promised /\ reserve' = reserve /\ full' = full
      /\ refused' = refused
  BY DEF AddSample
<1>2. /\ size \in Nat /\ done \in Nat /\ done <= size /\ n \in Nat /\ pos \in Nat
      /\ file \in Seq(Cells) /\ Len(file) \in Nat /\ promised \in Nat
      /\ promised <= n /\ Header \in Nat \ {0} /\ Header <= pos
  <2>1. /\ size \in Nat /\ done \in Nat /\ done <= size
        /\ Header \in Nat \ {0} /\ Reserve \in Nat
    BY LayoutAssumption DEF LayoutAssumption
  <2>2. /\ n \in Nat /\ pos \in Nat /\ file \in Seq(Cells)
        /\ promised \in 0 .. Len(samples) /\ Len(samples) \in Nat
    BY DEF LayoutInv, TypeOK
  <2>3. n = Len(samples) /\ SamplesOffset <= pos
    BY <1>1 DEF LayoutInv, RecordsBehind
  <2> QED  BY <2>1, <2>2, <2>3 DEF SamplesOffset
<1>3. cells \in Seq(Cells) /\ Len(cells) = done
  <2>1. Cell("data", n + 1) \in Cells
    BY <1>2, CellType DEF Kinds
  <2> QED  BY <1>2, <2>1, CopiesType
<1> HIDE DEF cells
<1>4. Holds(file', 0, ftyp)
  <2>1. Holds(file, 0, ftyp)
    BY DEF BoxesWritten, Synced
  <2> HIDE DEF ftyp
  <2>2. ftyp \in Seq(Cells) /\ Len(ftyp) = Header
    BY FtypType DEF ftyp
  <2>3. 0 + Len(ftyp) <= pos
    BY <1>2, <2>2
  <2>4. Holds(Put(file, pos, cells), 0, ftyp)
    BY <1>2, <1>3, <2>1, <2>2, <2>3, PutKeeps
  <2> QED  BY <1>1, <2>4
<1>5. CASE done = size
  <2>1. n' = n + 1
    BY <1>5 DEF AddSample
  <2>2. promised' # n'
    BY <1>1, <1>2, <2>1
  <2> QED  BY <1>1, <1>4, <2>2 DEF BoxesWritten, Synced
<1>6. CASE done # size /\ done # 0
  <2>1. pos' = pos
    BY <1>6 DEF AddSample
  <2>2. pos + Len(cells) <= Len(file') /\ Len(file') \in Nat
    <3>1. cells # <<>>
      <4>1. Len(cells) # 0 /\ Len(<<>>) = 0
        BY <1>3, <1>6
      <4> QED  BY <4>1
    <3> QED  BY <1>1, <1>2, <1>3, <3>1, PutType
  <2>3. pos' # Len(file')
    BY <1>2, <1>3, <1>6, <2>1, <2>2
  <2> QED  BY <1>1, <1>4, <2>3 DEF BoxesWritten, Synced
<1>7. CASE done # size /\ done = 0
  <2>1. UNCHANGED <<n, samples, pos, reserve>>
    BY <1>7 DEF AddSample
  <2>2. file' = file
    <3>1. cells = <<>>
      BY <1>3, <1>7
    <3> QED  BY <1>1, <1>2, <3>1, PutNothing
  <2>3. /\ MoovSize' = MoovSize /\ MoovCells' = MoovCells
        /\ Fits' <=> Fits
        /\ Left' = Left /\ BoxesOffset' = BoxesOffset
    BY <2>1, SameTables
  <2>4. MdatSize' = MdatSize
    BY <2>1, <2>2 DEF MdatSize
  <2>5. PaddedInFront => PaddedInFront'
    BY <2>1, <2>2, <2>3, <2>4 DEF PaddedInFront, MoovInFront
  <2>6. Synced' => PaddedInFront'
    BY <1>1, <2>1, <2>2, <2>5 DEF BoxesWritten, Synced
  <2> QED  BY <1>1, <1>4, <2>6 DEF BoxesWritten, Synced
<1> QED  BY <1>5, <1>6, <1>7

LEMMA WrittenSync ==
  ASSUME LayoutInv, BoxesWritten, NEW write_tables \in BOOLEAN,
         BeginSync(write_tables)
  PROVE  BoxesWritten'
<1>1. /\ pc = "open"
      /\ UNCHANGED <<file, reserve, pos, samples, n, full, refused>>
      /\ \/ pc' = "open" /\ promised' = promised
         \/ pc' = "open" /\ full
         \/ pc' = "mdat"
  BY DEF BeginSync
<1>2. Holds(file', 0, BoxHeader("ftyp", Header))
  BY <1>1 DEF BoxesWritten, Synced
<1>3. CASE pc' = "open" /\ promised' = promised
  <2>1. /\ MoovSize' = MoovSize /\ MoovCells' = MoovCells
        /\ Fits' <=> Fits
        /\ Left' = Left /\ BoxesOffset' = BoxesOffset
    BY <1>1, SameTables
  <2>2. MdatSize' = MdatSize
    BY <1>1 DEF MdatSize
  <2>3. PaddedInFront => PaddedInFront'
    BY <1>1, <2>1, <2>2 DEF PaddedInFront, MoovInFront
  <2> QED  BY <1>1, <1>2, <1>3, <2>3 DEF BoxesWritten, Synced
<1>4. CASE pc' = "open" /\ full
  BY <1>1, <1>2, <1>4 DEF BoxesWritten, Synced
<1>5. CASE pc' = "mdat"
  BY <1>2, <1>5 DEF BoxesWritten, Synced
<1> QED  BY <1>1, <1>3, <1>4, <1>5

LEMMA WrittenOpened ==
  ASSUME TypeOK, Recover
  PROVE  BoxesWritten'
<1> DEFINE r == DefaultReserve
           ftyp == BoxHeader("ftyp", Header)
           free == BoxHeader("free", r - BoxesOffset)
           mdat == MdatHeader(0)
           f1 == Put(file, 0, ftyp)
           f2 == Put(f1, BoxesOffset, free)
           f3 == Put(f2, r, mdat)
<1>1. /\ Header \in Nat \ {0} /\ r \in Nat /\ 2 * Header <= r
      /\ BoxesOffset = Header /\ file \in Seq(Cells)
  BY LayoutAssumption DEF LayoutAssumption, BoxesOffset, TypeOK
<1>2. file' = f3 /\ pc' = "trim"
  BY DEF Recover, Opened
<1>3. /\ ftyp \in Seq(Cells) /\ Len(ftyp) = Header
      /\ free \in Seq(Cells) /\ mdat \in Seq(Cells)
  <2>1. "free" \in Types /\ r - BoxesOffset \in Int
    BY <1>1 DEF Types
  <2> QED  BY <2>1, FtypType, HeaderType, MdatType
<1> HIDE DEF r, ftyp, free, mdat, f1, f2, f3
<1>4. ftyp # <<>>
  <2>1. Len(ftyp) # 0 /\ Len(<<>>) = 0
    BY <1>1, <1>3
  <2> QED  BY <2>1
<1>5. f1 \in Seq(Cells) /\ Holds(f1, 0, ftyp)
  BY <1>1, <1>3, <1>4, PutType, PutHolds DEF f1
<1>6. f2 \in Seq(Cells) /\ Holds(f2, 0, ftyp)
  <2>1. 0 + Len(ftyp) <= BoxesOffset /\ BoxesOffset \in Nat
    BY <1>1, <1>3
  <2> QED  BY <1>1, <1>3, <1>5, <2>1, PutType, PutKeeps DEF f2
<1>7. Holds(f3, 0, ftyp)
  <2>1. 0 + Len(ftyp) <= r
    BY <1>1, <1>3
  <2> QED  BY <1>1, <1>3, <1>6, <2>1, PutKeeps DEF f3
<1> QED  BY <1>2, <1>7 DEF ftyp, BoxesWritten, Synced

LEMMA WrittenTrim ==
  ASSUME LayoutInv, CallsInv, Shown, BoxesWritten, Trim
  PROVE  BoxesWritten'
<1> DEFINE ftyp == BoxHeader("ftyp", Header)
<1>1. /\ Header \in Nat \ {0} /\ Reserve \in Nat /\ n \in Nat
      /\ file \in Seq(Cells) /\ Len(file) \in Nat
  BY Places DEF LayoutInv
<1>2. PICK last \in {0} \cup {End(i) : i \in 1 .. n} :
        /\ \A i \in 1 .. n : End(i) <= last
        /\ file' = SubSeq(file, 1, last)
  BY DEF Trim
<1>3. pc' = "mdat" /\ n > 0
  BY DEF Trim, Shown, CallsInv
<1>4. /\ 1 \in 1 .. n /\ samples[1].off \in Nat /\ End(1) \in Nat
      /\ samples[1].off <= End(1) /\ SamplesOffset <= samples[1].off
  <2>1. 1 \in 1 .. n /\ 1 \in 1 .. Len(samples)
    BY <1>1, <1>3 DEF LayoutInv, TypeOK
  <2> QED  BY <2>1, SampleType DEF LayoutInv, SamplesInFile
<1>5. last \in Nat /\ last <= Len(file)
  <2>1. CASE last = 0
    BY <1>1, <2>1
  <2>2. ASSUME NEW i \in 1 .. n, last = End(i) PROVE last \in Nat /\ last <= Len(file)
    <3>1. i \in 1 .. Len(samples)
      BY <1>1 DEF LayoutInv, TypeOK
    <3>2. End(i) \in Nat
      BY <3>1, SampleType DEF LayoutInv
    <3> QED  BY <2>2, <3>2 DEF LayoutInv, SamplesInFile
  <2> QED  BY <1>2, <2>1, <2>2
<1>6. Header <= last
  <2>1. End(1) <= last
    BY <1>2, <1>4
  <2> QED  BY <1>1, <1>4, <1>5, <2>1 DEF SamplesOffset
<1>7. /\ file' \in Seq(Cells) /\ Len(file') = last
      /\ \A c \in 1 .. last : file'[c] = file[c]
  BY <1>1, <1>2, <1>5, FirstType
<1>8. Len(ftyp) = Header /\ Holds(file, 0, ftyp)
  BY FtypType DEF BoxesWritten, Synced
<1> HIDE DEF ftyp
<1>9. Holds(file', 0, ftyp)
  <2>1. \A j \in 1 .. Len(ftyp) : 0 + j \in 1 .. last
    BY <1>1, <1>5, <1>6, <1>8
  <2>2. \A j \in 1 .. Len(ftyp) : file[0 + j] = ftyp[j]
    BY <1>8 DEF Holds
  <2>3. \A j \in 1 .. Len(ftyp) : file'[0 + j] = ftyp[j]
    BY <1>7, <2>1, <2>2
  <2>4. 0 + Len(ftyp) <= Len(file')
    BY <1>1, <1>6, <1>7, <1>8
  <2> QED  BY <2>3, <2>4 DEF Holds
<1> QED  BY <1>3, <1>9 DEF ftyp, BoxesWritten, Synced

LEMMA WrittenStep ==
  ASSUME LayoutInv, CallsInv, Shown => BoxesWritten,
         DefaultReserve <= Reserve, PaddingFails = FALSE,
         [Next]_vars, Shown'
  PROVE  BoxesWritten'
<1>1. /\ starts \in Nat /\ n \in Nat /\ logged \in Nat /\ logged <= n
      /\ Header \in Nat /\ Len(file) \in Nat /\ TypeOK /\ reserve \in Nat
  BY Places DEF LayoutInv, TypeOK, SamplesInFile
<1>2. Len(Pending.cells) \in 0 .. Len(Pending.cells)
  BY <1>1, PendingType
<1>3. ASSUME UNCHANGED <<n, starts>>
      PROVE  Shown /\ BoxesWritten /\ Header <= Len(file)
  <2>1. Shown
    BY <1>3 DEF Shown
  <2>2. reserve + 2 * Header <= Len(file)
    BY <2>1, ShownRoom
  <2> QED  BY <1>1, <2>1, <2>2
<1>4. ASSUME NEW done \in 0 .. Len(Pending.cells), Write(done),
             Shown, Header <= Len(file)
      PROVE  Holds(file', 0, BoxHeader("ftyp", Header))
  BY <1>1, <1>4, FtypKept DEF BoxesWritten, Synced
<1>5. ASSUME NEW size \in Sizes, NEW sync \in BOOLEAN, NEW done \in 0 .. size,
             AddSample(size, sync, done)
      PROVE  BoxesWritten'
  <2>1. starts = 0
    <3>1. pc = "open"
      BY <1>5 DEF AddSample
    <3>2. ~closing
      BY <3>1 DEF LayoutInv, RecordsBehind, Recording
    <3> QED  BY <1>1, <3>1, <3>2 DEF CallsInv
  <2> QED  BY <1>5, <2>1, WrittenAdd DEF Shown
<1>6. ASSUME NEW write_tables \in BOOLEAN, BeginSync(write_tables)
      PROVE  BoxesWritten'
  <2>1. UNCHANGED <<n, starts>>
    BY <1>6 DEF BeginSync
  <2> QED  BY <1>3, <1>6, <2>1, WrittenSync
<1>7. CASE BeginClose
  BY <1>3, <1>7 DEF BeginClose, BoxesWritten, Synced
<1>8. CASE MoovTooLarge \/ MoovRefused
  <2>1. /\ UNCHANGED <<n, starts, file>> /\ pc' \in {"open", "closed"}
        /\ pc' = "open" => full' \/ refused'
        /\ pc' = "closed" => refused'
    BY <1>8 DEF MoovTooLarge, MoovRefused, muxVars
  <2>2. Holds(file', 0, BoxHeader("ftyp", Header))
    BY <1>3, <2>1 DEF BoxesWritten, Synced
  <2> QED  BY <2>1, <2>2 DEF BoxesWritten, Synced
<1>9. CASE WriteMdat
  BY <1>3, <1>9, WrittenMdat DEF WriteMdat, muxVars
<1>10. CASE WriteMoov
  BY <1>3, <1>10, WrittenMoov DEF WriteMoov, muxVars
<1>11. ASSUME NEW done \in 0 .. Len(Pending.cells), Finish(done)
       PROVE  BoxesWritten'
  <2>1. UNCHANGED <<n, starts>>
    BY <1>11 DEF Finish, muxVars
  <2> QED  BY <1>3, <1>11, <2>1, WrittenFinish
<1>12. ASSUME NEW done \in 0 .. Len(Pending.cells), WriteFails(done)
       PROVE  BoxesWritten'
  <2>1. UNCHANGED <<n, starts>> /\ Write(done) /\ pc # "open"
        /\ pc' \in {"failed", "open"} /\ promised' = promised
    BY <1>12 DEF WriteFails, muxVars
  <2>2. Holds(file', 0, BoxHeader("ftyp", Header))
    BY <1>3, <1>4, <2>1
  <2>3. promised' = 0
    BY <2>1 DEF CallsInv
  <2> QED  BY <2>1, <2>2, <2>3 DEF BoxesWritten, Synced
<1>13. ASSUME NEW done \in 0 .. Len(Pending.cells), Crash(done)
       PROVE  BoxesWritten'
  <2>1. starts' = starts /\ n' = logged /\ Write(done) /\ pc' = "dead"
    BY <1>13 DEF Crash
  <2>2. Shown
    BY <1>1, <2>1 DEF Shown
  <2>3. Header <= Len(file)
    <3>1. reserve + 2 * Header <= Len(file)
      BY <2>2, ShownRoom
    <3> QED  BY <1>1, <3>1
  <2>4. Holds(file', 0, BoxHeader("ftyp", Header))
    BY <1>4, <2>1, <2>2, <2>3
  <2> QED  BY <2>1, <2>4 DEF BoxesWritten, Synced
<1>14. CASE Recover
  BY <1>1, <1>14, WrittenOpened
<1>15. CASE Trim
  BY <1>3, <1>15, WrittenTrim DEF Trim, muxVars
<1>16. CASE UNCHANGED vars
  <2>1. UNCHANGED <<n, starts, samples, reserve, file, pc, promised, full, pos,
                    refused>>
    BY <1>16 DEF vars
  <2>2. /\ MoovSize' = MoovSize /\ MoovCells' = MoovCells
        /\ Fits' <=> Fits
        /\ Left' = Left /\ BoxesOffset' = BoxesOffset
    BY <2>1, SameTables
  <2>3. MdatSize' = MdatSize
    BY <2>1 DEF MdatSize
  <2>4. BoxesWritten
    BY <1>3, <2>1
  <2> QED  BY <2>1, <2>2, <2>3, <2>4 DEF BoxesWritten, Synced, PaddedInFront, MoovInFront,
             MoovBehind, FreeInFront
<1> QED  BY <1>5, <1>6, <1>7, <1>8, <1>9, <1>10, <1>11, <1>12, <1>13, <1>14,
         <1>15, <1>16 DEF Next

LEMMA ReadInit == Init => (CallsInv /\ BoxesWritten)
<1> SUFFICES ASSUME Init PROVE CallsInv /\ BoxesWritten
  OBVIOUS
<1>1. /\ pc = "open" /\ starts = 0 /\ reserve = Reserve /\ promised = 0
      /\ closing = FALSE /\ LayoutInv
  BY LayoutInit DEF Init
<1>2. SamplesOffset <= Len(file)
  BY <1>1 DEF LayoutInv, RecordsBehind, Recording
<1>3. CallsInv
  BY <1>1, <1>2 DEF CallsInv
<1>4. PICK size \in OldCells : file = Opened(OldFile(size), Reserve)
  BY DEF Init
<1> DEFINE f0 == OldFile(size)
           ftyp == BoxHeader("ftyp", Header)
           free == BoxHeader("free", Reserve - BoxesOffset)
           mdat == MdatHeader(0)
           f1 == Put(f0, 0, ftyp)
           f2 == Put(f1, BoxesOffset, free)
           f3 == Put(f2, Reserve, mdat)
<1>5. /\ Header \in Nat \ {0} /\ Reserve \in Nat /\ 2 * Header <= Reserve
      /\ BoxesOffset = Header /\ size \in Nat
  BY LayoutAssumption DEF LayoutAssumption, BoxesOffset
<1>6. file = f3
  BY <1>4 DEF Opened
<1>7. f0 \in Seq(Cells)
  <2>1. Cell("zero", 0) \in Cells /\ Cell("old", 0) \in Cells
    BY CellType DEF Kinds
  <2> QED  BY <1>5, <2>1 DEF OldFile
<1>8. /\ ftyp \in Seq(Cells) /\ Len(ftyp) = Header
      /\ free \in Seq(Cells) /\ mdat \in Seq(Cells)
  <2>1. "free" \in Types /\ Reserve - BoxesOffset \in Int
    BY <1>5 DEF Types
  <2> QED  BY <2>1, FtypType, HeaderType, MdatType
<1> HIDE DEF f0, ftyp, free, mdat, f1, f2, f3
<1>9. ftyp # <<>>
  <2>1. Len(ftyp) # 0 /\ Len(<<>>) = 0
    BY <1>5, <1>8
  <2> QED  BY <2>1
<1>10. f1 \in Seq(Cells) /\ Holds(f1, 0, ftyp)
  BY <1>7, <1>8, <1>9, PutType, PutHolds DEF f1
<1>11. f2 \in Seq(Cells) /\ Holds(f2, 0, ftyp)
  <2>1. 0 + Len(ftyp) <= BoxesOffset /\ BoxesOffset \in Nat
    BY <1>5, <1>8
  <2> QED  BY <1>8, <1>10, <2>1, PutType, PutKeeps DEF f2
<1>12. Holds(f3, 0, ftyp)
  <2>1. 0 + Len(ftyp) <= Reserve
    BY <1>5, <1>8
  <2> QED  BY <1>5, <1>8, <1>11, <2>1, PutKeeps DEF f3
<1> QED  BY <1>1, <1>3, <1>6, <1>12 DEF ftyp, BoxesWritten, Synced

-----------------------------------------------------------------------------
(* The two premises are those of the code's own ways to break a file: a    *)
(* recovery that reserves more space than the muxer had (mp4_recovery.c    *)
(* always takes the default) writes over samples, and a padding whose      *)
(* write fails is not noticed.                                             *)

(* What makes the file readable always holds: the boxes that were written  *)
(* stay until the call has returned, and nothing that is left between the  *)
(* moov and the mdat is taken for a box.                                   *)
THEOREM FileReadable ==
  ASSUME DefaultReserve <= Reserve, PaddingFails = FALSE
  PROVE  Spec => []ReadInv
<1>1. Init => ReadInv
  <2>1. Init => SamplesIntact
    BY DEF Init, SamplesIntact
  <2> QED  BY <2>1, LayoutInit, ReadInit, GapInit DEF ReadInv
<1>2. ReadInv /\ [Next]_vars => ReadInv'
  <2> SUFFICES ASSUME ReadInv, [Next]_vars PROVE ReadInv'
    OBVIOUS
  <2>1. LayoutInv' /\ SamplesIntact'
    BY LayoutStep, IntactStep DEF ReadInv
  <2>2. CallsInv' /\ GapQuiet'
    BY CallsStep, GapStep DEF ReadInv
  <2>3. Shown' => BoxesWritten'
    BY WrittenStep DEF ReadInv
  <2> QED  BY <2>1, <2>2, <2>3 DEF ReadInv
<1> QED  BY <1>1, <1>2, PTL DEF Spec

(* When mp4_mux_close or mp4_recovery_recover_file has returned 0, the     *)
(* demuxer finds one moov with all samples of the tables and their bytes,  *)
(* for all sizes of samples and of reserved space, wherever the moov is,   *)
(* but for the two cases of a recovery that ClosedReadable excludes.       *)
THEOREM ClosedIsReadable ==
  ASSUME DefaultReserve <= Reserve, PaddingFails = FALSE
  PROVE  Spec => []ClosedReadable
<1>1. ReadInv => ClosedReadable
  BY ReadInvShows
<1> QED  BY <1>1, FileReadable, PTL

(* The same holds as soon as mp4_mux_sync with write_tables has returned   *)
(* 0, before the file is closed: a player can read what was recorded.      *)
THEOREM SyncedIsReadable ==
  ASSUME DefaultReserve <= Reserve, PaddingFails = FALSE
  PROVE  Spec => []SyncedReadable
<1>1. ReadInv => SyncedReadable
  BY ReadInvShows
<1> QED  BY <1>1, FileReadable, PTL
=============================================================================
