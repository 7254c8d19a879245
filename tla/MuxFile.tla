------------------------------- MODULE MuxFile -------------------------------
(***************************************************************************)
(* The data file of the muxer: where mp4_mux_open, the samples,            *)
(* mp4_mux_sync with write_tables, mp4_mux_close and the recovery put the  *)
(* boxes, and what mp4_demux_open finds in the file.                       *)
(*                                                                         *)
(* The file is a sequence of cells of 4 bytes.  It begins with an 'ftyp',  *)
(* the space reserved for the 'moov' follows up to the offset reserve, and *)
(* then come a 'free' of the size of a header, the 'mdat' and its samples: *)
(*                                                                         *)
(*    ftyp | moov, free . . . | free | mdat, samples . . . | (moov)        *)
(*                                                                         *)
(* A moov that outgrows the reserved space goes behind the samples, but    *)
(* only when the muxer is closed.                                          *)
(***************************************************************************)
EXTENDS Integers, Sequences, FiniteSets

CONSTANTS
  Header,         (* cells of a box header: the size and the type, 8 bytes *)
  Reserve,        (* mux->data_offset, from tables_size_mbytes             *)
  DefaultReserve, (* the one of the recovery: MP4_MUX_DEFAULT_TABLE_SIZE_MB*)
  MoovBase,       (* cells in a moov that do not depend on the samples     *)
  Narrow,         (* UINT32_MAX: the largest mdat with a 32-bit size       *)
  Sizes,          (* the sample sizes used                                 *)
  OldCells,       (* sizes of the files the muxer is opened on             *)
  PaddingFails,   (* the write of the padding may fail, unseen             *)
  MaxSamples,     (* bound: samples added                                  *)
  MaxSyncs,       (* bound: calls of mp4_mux_sync                          *)
  MaxRecoveries   (* bound: calls of mp4_recovery_recover_file             *)

BoxesOffset == Header

ASSUME LayoutAssumption ==
  /\ Header \in Nat \ {0} /\ MoovBase \in Nat \ {0} /\ Narrow \in Nat
  /\ Reserve \in Nat /\ DefaultReserve \in Nat
  /\ BoxesOffset + Header <= Reserve
  /\ BoxesOffset + Header <= DefaultReserve
  /\ Sizes \subseteq Nat \ {0} /\ OldCells \subseteq Nat
  /\ PaddingFails \in BOOLEAN
  /\ MaxSamples \in Nat /\ MaxSyncs \in Nat /\ MaxRecoveries \in Nat

VARIABLES
  pc,       (* what the process is doing                                   *)
  file,     (* the cells of the data file                                  *)
  reserve,  (* data_offset of the muxer that has it open                   *)
  pos,      (* file position of mux->fd                                    *)
  samples,  (* offset, size and sync flag of the samples added             *)
  n,        (* of them, those in the tables in memory, or in the log       *)
  full,     (* max_tables_size_reached                                     *)
  closing,  (* allow_boxes_after                                           *)
  nsyncs,   (* calls of mp4_mux_sync so far                                *)
  starts,   (* calls of mp4_recovery_recover_file so far                   *)
  logged,   (* history: samples in the tables file                         *)
  promised, (* history: samples at the last mp4_mux_sync with write_tables *)
            (* that returned 0, if no other one has begun since            *)
  refused   (* history: the last call that came to the moov lost the error *)
            (* of a box writer                                             *)

vars == <<pc, file, reserve, pos, samples, n, full, closing, nsyncs, starts,
          logged, promised, refused>>

-----------------------------------------------------------------------------
(* Cells: the first cell of a box header, its other cells, the tables of a *)
(* moov of number samples, a part of sample number, a hole, and what an    *)
(* earlier file left.                                                      *)
Types == {"ftyp", "free", "mdat", "moov", "none"}
Kinds == {"box", "rest", "tables", "data", "zero", "old"}
Cells == [kind : Kinds, type : Types, number : Int]

Cell(kind, number) == [kind |-> kind, type |-> "none", number |-> number]
Copies(cell, count) == [i \in 1 .. count |-> cell]

Larger(a, b) == IF a < b THEN b ELSE a

BoxHeader(type, size) ==
  <<[kind |-> "box", type |-> type, number |-> size]>>
  \o Copies(Cell("rest", 0), Header - 1)

(* write at offset at, past the end of the file if need be. *)
Put(f, at, cells) ==
  [i \in 1 .. (IF cells = <<>> THEN Len(f)
               ELSE Larger(Len(f), at + Len(cells))) |->
     IF at < i /\ i <= at + Len(cells) THEN cells[i - at]
     ELSE IF i <= Len(f) THEN f[i] ELSE Cell("zero", 0)]

(* Mutant: the free box stays before a header with a 64-bit size. *)
MdatHeaderBehindFree(size) ==
  BoxHeader("free", Header) \o
  (IF 0 <= size /\ size <= Narrow THEN BoxHeader("mdat", size)
   ELSE BoxHeader("mdat", size + Header) \o Copies(Cell("rest", 0), Header))

(* The 8 bytes before the mdat make room for a 64-bit size.  A size that   *)
(* is negative is a large one, too.                                        *)
MdatHeader(size) ==
  IF 0 <= size /\ size <= Narrow
  THEN BoxHeader("free", Header) \o BoxHeader("mdat", size)
  ELSE BoxHeader("mdat", size + Header) \o Copies(Cell("rest", 0), Header)

(* A sample has a size and an offset in the moov, a sync sample a number.  *)
MoovSize ==
  Header + MoovBase + 2 * n + Cardinality({i \in 1 .. n : samples[i].sync})

MoovCells ==
  BoxHeader("moov", MoovSize) \o Copies(Cell("tables", n), MoovSize - Header)

Fits == MoovSize <= reserve - BoxesOffset

(* What is left of the reserved space behind the moov. *)
Left == reserve - BoxesOffset - MoovSize

(* Mutant: the header of the mdat is not counted. *)
MdatSizeOfData == Len(file) - reserve - 2 * Header

MdatSize == Len(file) - reserve - Header

(* Mutant: the padding is as long as the whole reserved space. *)
PaddingUnshortened ==
  IF Left < Header THEN <<>> ELSE BoxHeader("free", reserve - BoxesOffset)

(* Less than a header cannot be padded: -EINVAL, which nobody looks at. *)
Padding == IF Left < Header THEN <<>> ELSE BoxHeader("free", Left)

(* mp4_mux_open on a file f that exists, which it does not truncate. *)
Opened(f, r) ==
  Put(Put(Put(f, 0, BoxHeader("ftyp", Header)),
          BoxesOffset, BoxHeader("free", r - BoxesOffset)),
      r, MdatHeader(0))

(* The older file, if any, has no boxes in what the reserved space was. *)
OldFile(size) ==
  [i \in 1 .. size |->
     IF i <= Reserve THEN Cell("zero", 0) ELSE Cell("old", 0)]

Init ==
  /\ pc = "open"
  /\ \E size \in OldCells : file = Opened(OldFile(size), Reserve)
  /\ reserve = Reserve /\ pos = Reserve + 2 * Header
  /\ samples = <<>> /\ n = 0
  /\ full = FALSE /\ closing = FALSE
  /\ nsyncs = 0 /\ starts = 0 /\ logged = 0 /\ promised = 0
  /\ refused = FALSE

-----------------------------------------------------------------------------
(* Mutant: the sample is in the tables even if its write was short. *)
AddShortSample(size, sync, done) ==
  /\ pc = "open" /\ n < MaxSamples /\ done <= size
  /\ file' = Put(file, pos, Copies(Cell("data", n + 1), done))
  /\ n' = n + 1
  /\ IF done = size
     THEN /\ samples' = Append(samples, [off |-> pos, size |-> size,
                                         sync |-> sync])
          /\ pos' = pos + size
     ELSE UNCHANGED <<samples, pos>>
  /\ UNCHANGED <<pc, reserve, full, closing, nsyncs, starts, logged, promised,
                 refused>>

(* A write that is short leaves its cells behind, but counts for nothing. *)
AddSample(size, sync, done) ==
  /\ pc = "open" /\ n < MaxSamples /\ done <= size
  /\ file' = Put(file, pos, Copies(Cell("data", n + 1), done))
  /\ IF done = size
     THEN /\ samples' = Append(samples, [off |-> pos, size |-> size,
                                         sync |-> sync])
          /\ n' = n + 1 /\ pos' = pos + size
     ELSE UNCHANGED <<samples, n, pos>>
  /\ UNCHANGED <<pc, reserve, full, closing, nsyncs, starts, logged, promised,
                 refused>>

(* mp4_mux_sync: the log of the samples is taken for granted here.  Once   *)
(* the moov has outgrown its space, the tables are silently not written.   *)
BeginSync(write_tables) ==
  /\ pc = "open" /\ nsyncs < MaxSyncs
  /\ nsyncs' = nsyncs + 1 /\ logged' = n
  /\ \/ ~write_tables /\ UNCHANGED <<pc, promised>>
     \/ write_tables /\ full /\ promised' = n /\ UNCHANGED pc
     \/ write_tables /\ ~full /\ promised' = 0 /\ pc' = "mdat"
  /\ UNCHANGED <<file, reserve, pos, samples, n, full, closing, starts, refused>>

BeginClose ==
  /\ pc = "open"
  /\ pc' = "mdat" /\ closing' = TRUE /\ promised' = 0
  /\ UNCHANGED <<file, reserve, pos, samples, n, full, nsyncs, starts, logged,
                 refused>>

(* mp4_mux_sync_internal writes the mdat header; then the moov, or a free  *)
(* box where there is no room for it; then the padding, or the moov.       *)
Pending ==
  CASE pc = "mdat" -> [at |-> reserve, cells |-> MdatHeader(MdatSize)]
    [] pc = "moov" /\ Fits -> [at |-> BoxesOffset, cells |-> MoovCells]
    [] pc = "moov" /\ ~Fits /\ closing ->
         [at |-> BoxesOffset,
          cells |-> BoxHeader("free", reserve - BoxesOffset)]
    [] pc = "pad"  -> [at |-> BoxesOffset + MoovSize, cells |-> Padding]
    [] pc = "tail" -> [at |-> Len(file), cells |-> MoovCells]
    [] OTHER -> [at |-> 0, cells |-> <<>>]

Write(done) == file' = Put(file, Pending.at, SubSeq(Pending.cells, 1, done))
WriteAll    == Write(Len(Pending.cells))

muxVars == <<reserve, samples, n, nsyncs, starts, logged>>

WriteMdat ==
  /\ pc = "mdat"
  /\ pc' = "moov"
  /\ WriteAll
  /\ UNCHANGED <<muxVars, pos, full, closing, promised, refused>>

WriteMoov ==
  /\ pc = "moov" /\ (Fits \/ closing)
  /\ pc' = IF Fits THEN "pad" ELSE "tail"
  /\ WriteAll /\ refused' = FALSE
  /\ UNCHANGED <<muxVars, pos, full, closing, promised>>

(* -ENOBUFS *)
MoovTooLarge ==
  /\ pc = "moov" /\ ~Fits /\ ~closing
  /\ pc' = "open" /\ full' = TRUE /\ pos' = Len(file)
  /\ UNCHANGED <<muxVars, file, closing, promised, refused>>

(* A box writer fails, as that of a track with samples does when its       *)
(* config is too short or missing (TrackConfig says which).  The error is  *)
(* overwritten by the result of fsync: no moov is written, and the call    *)
(* returns 0.                                                              *)
MoovRefused ==
  /\ pc = "moov" /\ n > 0
  /\ pc' = IF closing THEN "closed" ELSE "open"
  /\ promised' = IF closing THEN 0 ELSE n
  /\ pos' = Len(file) /\ refused' = TRUE
  /\ UNCHANGED <<muxVars, file, full, closing>>

(* The call returns 0, whether or not the padding could be written. *)
Finish(done) ==
  /\ pc \in {"pad", "tail"}
  /\ done = Len(Pending.cells) \/ (pc = "pad" /\ PaddingFails)
  /\ Write(done)
  /\ pc' = IF closing THEN "closed" ELSE "open"
  /\ promised' = IF closing THEN 0 ELSE n
  /\ pos' = Len(file')
  /\ UNCHANGED <<muxVars, full, closing, refused>>

(* An error of the file is returned, and so is that of a box writer once   *)
(* the moov is known not to fit.                                           *)
WriteFails(done) ==
  /\ pc \in {"mdat", "moov", "tail"}
  /\ done < Len(Pending.cells)
  /\ Write(done)
  /\ pc' = IF closing THEN "failed" ELSE "open"
  /\ pos' = Len(file')
  /\ UNCHANGED <<muxVars, full, closing, promised, refused>>

-----------------------------------------------------------------------------
(* The process dies, in the middle of a write if it is at one. *)
Crash(done) ==
  /\ pc \in {"open", "mdat", "moov", "pad", "tail", "trim"}
  /\ Write(done)
  /\ pc' = "dead"
  /\ n' = logged /\ full' = FALSE /\ closing' = FALSE /\ promised' = 0
  /\ UNCHANGED <<reserve, pos, samples, nsyncs, starts, logged, refused>>

(* mp4_recovery_mux_open divides a number of megabytes by a megabyte, so   *)
(* the reserved space is the default one, whatever it was.  Without a sync *)
(* there is no log, and nothing is done.                                   *)
Recover ==
  /\ pc \in {"dead", "failed", "closed"}
  /\ nsyncs > 0 /\ starts < MaxRecoveries
  /\ pc' = "trim"
  /\ starts' = starts + 1
  /\ reserve' = DefaultReserve
  /\ file' = Opened(file, DefaultReserve)
  /\ pos' = DefaultReserve + 2 * Header
  /\ n' = logged /\ full' = FALSE /\ closing' = TRUE
  /\ UNCHANGED <<samples, nsyncs, logged, promised, refused>>

End(i) == samples[i].off + samples[i].size

(* mp4_mux_fill_from_file cuts the file behind the samples of the log.     *)
(* None of them is missing here; RecoveryLog is about those that are.      *)
Trim ==
  /\ pc = "trim"
  /\ pc' = "mdat"
  /\ \E last \in {0} \cup {End(i) : i \in 1 .. n} :
       /\ \A i \in 1 .. n : End(i) <= last
       /\ file' = SubSeq(file, 1, last)
  /\ UNCHANGED <<muxVars, pos, full, closing, promised, refused>>

-----------------------------------------------------------------------------
Next ==
  \/ \E size \in Sizes, sync \in BOOLEAN : \E done \in 0 .. size :
       AddSample(size, sync, done)
  \/ \E write_tables \in BOOLEAN : BeginSync(write_tables)
  \/ BeginClose
  \/ WriteMdat \/ WriteMoov \/ MoovTooLarge \/ MoovRefused
  \/ \E done \in 0 .. Len(Pending.cells) :
       Finish(done) \/ WriteFails(done) \/ Crash(done)
  \/ Recover \/ Trim

Spec == Init /\ [][Next]_vars

-----------------------------------------------------------------------------
(* What mp4_box_children_read makes of the boxes of a file, from offset o  *)
(* on: it ends at a box that is truncated or has no size, it takes any     *)
(* cell for a box, and a box smaller than its header is an error.  A type, *)
(* four letters, taken for a size is larger than any file.                 *)
Ends(o) ==
  \/ o + Header >= Len(file)
  \/ file[o + 1].kind \in {"zero", "rest"}
  \/ file[o + 1].kind = "box" /\
       (file[o + 1].number = 0 \/ o + file[o + 1].number > Len(file))

IsBox(o) == file[o + 1].kind = "box" /\ file[o + 1].number >= Header

IsWhole(o) ==
  \A i \in o + Header + 1 .. o + file[o + 1].number :
    file[i] = file[o + Header + 1]

(* The boxes from offset o on: whether they can be read, and the samples   *)
(* that each moov among them has.                                          *)
Scan[o \in 0 .. Len(file)] ==
  IF Ends(o) THEN [ok |-> TRUE, moovs |-> <<>>]
  ELSE IF ~IsBox(o) THEN [ok |-> FALSE, moovs |-> <<>>]
  ELSE LET rest == Scan[o + file[o + 1].number]
       IN IF file[o + 1].type = "moov"
          THEN [ok |-> rest.ok /\ IsWhole(o),
                moovs |-> <<file[o + Header + 1].number>> \o rest.moovs]
          ELSE rest

Demuxed ==
  IF file # <<>> /\ file[1].type = "ftyp" THEN Scan[0]
  ELSE [ok |-> FALSE, moovs |-> <<>>]

Intact(i) ==
  \A c \in samples[i].off + 1 .. End(i) :
    c <= Len(file) /\ file[c] = Cell("data", i)

(* The demuxer finds one moov, of count samples, and their bytes. *)
Shows(count) ==
  /\ Demuxed = [ok |-> TRUE, moovs |-> <<count>>]
  /\ \A i \in 1 .. count : Intact(i)

-----------------------------------------------------------------------------
(* Correctness. *)

Pcs == {"open", "mdat", "moov", "pad", "tail", "closed", "failed", "dead",
        "trim"}
Sample == [off : Nat, size : Nat, sync : BOOLEAN]

(* Every variable has the type its field of struct mp4_mux, or the file,   *)
(* gives it; the tables have no more samples than were added.              *)
TypeOK ==
  /\ pc \in Pcs /\ file \in Seq(Cells)
  /\ reserve \in {Reserve, DefaultReserve} /\ pos \in Nat
  /\ samples \in Seq(Sample) /\ n \in 0 .. Len(samples)
  /\ full \in BOOLEAN /\ closing \in BOOLEAN
  /\ nsyncs \in Nat /\ starts \in Nat
  /\ logged \in 0 .. Len(samples) /\ promised \in 0 .. Len(samples)
  /\ refused \in BOOLEAN

(* No box is ever written over the bytes of a sample that the tables still *)
(* have: not by the rewriting of the mdat and the moov at a sync, not by a *)
(* moov that outgrew its space, not by the recovery.                       *)
SamplesIntact == \A i \in 1 .. n : Intact(i)

(* Between the moov and the mdat there is no room for a free box, and what *)
(* an earlier moov left there is read as one.                              *)
Leftover == Fits /\ Left \in 1 .. Header - 1

(* When mp4_mux_close has returned 0, the demuxer finds one movie with all *)
(* the samples of the tables, be the moov padded, unpadded or behind the   *)
(* samples and the mdat wide or narrow, unless the error of a box writer   *)
(* was lost on the way; when mp4_recovery_recover_file has returned 0,     *)
(* too, but for two other cases of the code: a log without a sample, and a *)
(* leftover.                                                               *)
ClosedReadable ==
  pc = "closed" /\ ~refused /\ (starts = 0 \/ (n > 0 /\ ~Leftover)) => Shows(n)

(* The tables for which mp4_mux_sync with write_tables returned 0 are in   *)
(* the file, and no sample was written since.  What a write of one that    *)
(* fails leaves is behind pos, no sample and, if it is longer than a       *)
(* header, taken for a box.                                                *)
Synced ==
  /\ pc = "open" /\ promised > 0 /\ promised = n /\ pos = Len(file)
  /\ ~full /\ ~refused

(* mp4_mux_sync with write_tables, while the moov fits before the samples  *)
(* and no error of a box writer is lost, leaves a file that the demuxer    *)
(* can read until mp4_mux_track_add_sample writes to it.                   *)
SyncedReadable == Synced => Shows(n)

(* libmp4.h: a sync without write_tables "requires a recovery with         *)
(* mp4_recovery_recover_file to read the MP4 file", which can be read when *)
(* the recovery has returned 0 and has lost no error.                      *)
RecoveredReadable == pc = "closed" /\ ~refused /\ starts > 0 => Shows(n)

-----------------------------------------------------------------------------
(* What keeps the samples intact, step by step. *)

SamplesOffset == Reserve + 2 * Header

(* The muxer that was given the samples has neither died nor been closed.  *)
Recording == pc # "dead" /\ ~closing

(* It knows all samples, and goes on writing behind them... *)
RecordsBehind ==
  /\ Recording => /\ n = Len(samples) /\ reserve = Reserve
                  /\ SamplesOffset <= Len(file)
  /\ pc = "open" => /\ Recording /\ SamplesOffset <= pos
                    /\ \A i \in 1 .. n : End(i) <= pos

(* ...and only a recovery, which is always closing, has the file cut. *)
CutWhenClosing == pc \in {"trim", "closed", "failed"} => closing

SamplesInFile ==
  /\ logged <= n
  /\ \A i \in 1 .. n : /\ SamplesOffset <= samples[i].off
                        /\ End(i) <= Len(file)

LayoutInv == TypeOK /\ RecordsBehind /\ CutWhenClosing /\ SamplesInFile

(* What makes the file readable, step by step. *)

Holds(f, at, cells) ==
  /\ at + Len(cells) <= Len(f)
  /\ \A j \in 1 .. Len(cells) : f[at + j] = cells[j]

(* A recovery of no sample leaves a file that cannot be read. *)
Shown == starts = 0 \/ n > 0

(* Only a recovery works with another reserve, and it always closes; a     *)
(* call to which no answer was given yet promises nothing.                 *)
CallsInv ==
  /\ starts = 0 => /\ reserve = Reserve /\ pc # "trim"
                   /\ SamplesOffset <= Len(file)
  /\ starts > 0 => closing \/ pc = "dead"
  /\ pc = "tail" => closing
  /\ pc # "open" => promised = 0

MoovInFront ==
  /\ Fits
  /\ Holds(file, BoxesOffset, MoovCells)
  /\ Holds(file, reserve, MdatHeader(MdatSize))

FreeInFront ==
  ~Fits /\ Holds(file, BoxesOffset, BoxHeader("free", reserve - BoxesOffset))

PaddedInFront ==
  /\ MoovInFront
  /\ Left >= Header =>
       Holds(file, BoxesOffset + MoovSize, BoxHeader("free", Left))

MoovBehind ==
  /\ FreeInFront
  /\ reserve + 2 * Header <= Len(file) - MoovSize
  /\ Holds(file, reserve, MdatHeader(MdatSize - MoovSize))
  /\ Holds(file, Len(file) - MoovSize, MoovCells)

(* The boxes that have been written stay until the call has returned. *)
BoxesWritten ==
  /\ Holds(file, 0, BoxHeader("ftyp", Header))
  /\ pc = "moov" => Holds(file, reserve, MdatHeader(MdatSize))
  /\ pc = "pad" => MoovInFront
  /\ pc = "tail" => FreeInFront /\ Holds(file, reserve, MdatHeader(MdatSize))
  /\ pc = "closed" /\ ~refused => PaddedInFront \/ MoovBehind
  /\ Synced => PaddedInFront

(* Behind the moov, which only grows, no moov or padding of an earlier     *)
(* sync has left a cell that is taken for a box, where none is written.    *)
GapQuiet ==
  starts = 0 /\ pc # "dead" =>
    \A c \in BoxesOffset + MoovSize + 1 .. reserve :
      \/ file[c].kind \in {"zero", "rest"}
      \/ c = BoxesOffset + MoovSize + 1 /\ Left >= Header

ReadInv ==
  LayoutInv /\ SamplesIntact /\ CallsInv /\ (Shown => BoxesWritten) /\ GapQuiet
=============================================================================
