------------------------------- MODULE BoxTree -------------------------------
(***************************************************************************)
(* The tree of boxes of a 'moov': how mp4_mux_sync_internal has it written *)
(* in memory (tables.buf) under the room each box is given, puts it in the *)
(* file, and how mp4_box_children_read finds the boxes of the file again,  *)
(* that of a recording that was cut included.                              *)
(*                                                                         *)
(* The tree is the sequence of its boxes in the order they are written,    *)
(* each with its level; the boxes of the file are written one inside the   *)
(* other.  Memory and file are sequences of words of 32 bits; sizes and    *)
(* offsets are in bytes, as in the code.                                   *)
(***************************************************************************)
EXTENDS Integers, Sequences

CONSTANTS
  Trees,     (* trees of boxes; the first box of each is the 'moov'        *)
  Reserves,  (* data_offset - boxes_offset: the room kept for the moov     *)
  Factors,   (* data_offset * tables_factor must stay below data_offset *  *)
             (* Factors: INT_MAX in units of data_offset                   *)
  Ftyp, Moov, Container, Leaf, Table, Free, Mdat,  (* box types            *)
  Body,      (* a word of the body of a box, no size and no type           *)
  Stale,     (* words that may be in the reserved space from before        *)
  Lost       (* words the storage may return in place of one of the file   *)

Header == 8
Kinds  == {Moov, Container, Leaf, Table}

ASSUME WordAssumption ==
  /\ {Ftyp, Moov, Container, Leaf, Table, Free, Mdat, Body} \subseteq Nat
  /\ Stale \subseteq Nat /\ Lost \subseteq Nat
  /\ {Ftyp, Free, Mdat, Body} \cap Kinds = {}
  /\ Leaf \notin {Moov, Container, Table} /\ Table \notin {Moov, Container}
  /\ \A kind \in Kinds : kind > 20   (* a type is no size of an 'mdat'     *)

ASSUME TreeAssumption ==
  /\ \A tree \in Trees :
       /\ tree \in Seq([kind : Kinds, level : Nat \ {0}, words : Nat])
       /\ tree # <<>> /\ tree[1].kind = Moov /\ tree[1].level = 1
       /\ \A i \in 2 .. Len(tree) :
            /\ tree[i].kind # Moov
            /\ tree[i].level \in 2 .. tree[i - 1].level
                                      + (IF tree[i - 1].kind \in {Moov, Container}
                                         THEN 1 ELSE 0)
       /\ \A i \in 1 .. Len(tree) :
            tree[i].kind \in {Moov, Container} => tree[i].words = 0
  /\ \A reserve \in Reserves : reserve \in Nat /\ reserve >= Header /\ reserve % 4 = 0
  /\ Factors \in Nat

VARIABLES
  phase,    (* "writing", "written", "reading" and how that ended          *)
  tree,     (* the boxes to write                                          *)
  closing,  (* allow_boxes_after                                           *)
  reserve,  (* data_offset - boxes_offset                                  *)
  buf,      (* tables.buf up to tables.offset                              *)
  bufSize,  (* tables.buf_size                                             *)
  writers,  (* calls of mp4_box_container_write: where each box began, its *)
            (* maxBytes                                                    *)
  next,     (* index of the next box to write                              *)
  factor,   (* tables_factor                                               *)
  file,     (* words of the file                                           *)
  moovEnd,  (* history: where the moov ends in the file, 0 when none       *)
  damaged,  (* history: the storage changed a word of the file             *)
  pos,      (* file position of the reader                                 *)
  readers,  (* calls of mp4_box_children_read                              *)
  seen      (* history: boxes read below the root, but those with nothing  *)
            (* inside, with what was read of a table                       *)

writeVars == <<tree, closing, reserve, buf, bufSize, writers, next, factor>>
fileVars  == <<file, moovEnd, damaged>>
readVars  == <<pos, readers, seen>>
vars == <<phase, writeVars, fileVars, readVars>>

-----------------------------------------------------------------------------
(* Words.                                                                  *)
Bytes(words)      == 4 * Len(words)
Copies(word, n)   == [i \in 1 .. n |-> word]
Box(type, words)  == <<Header + Bytes(words), type>> \o words
Large             == 1  (* a size of 1: the size follows, in 64 bits       *)

DataOffset == Header + reserve

(* What a box writes before its children: a container writes a size of 0   *)
(* and puts the real one in place later, a table without entries writes    *)
(* nothing, not even its header.                                           *)
OwnWords(box) ==
  IF box.kind \in {Moov, Container} THEN <<0, box.kind>>
  ELSE IF box.kind = Leaf THEN Box(Leaf, Copies(Body, box.words))
  ELSE IF box.words = 0 THEN <<>>
  ELSE Box(Table, <<0, box.words>> \o Copies(Body, box.words))

(* Mutant: a container hands on all of its maxBytes.                       *)
ChildRoomWhole(writer) == writer.max

(* maxBytes of the next call of a writer.                                  *)
ChildRoom(writer) == writer.max - (Bytes(buf) - writer.start)

(* maxBytes of the first call: what lies behind the ftyp in the reserved   *)
(* space, all of the memory once the moov goes behind the samples.         *)
Limit == bufSize - (IF factor = 1 THEN Header ELSE 0)

Room == IF writers = <<>>
        THEN Limit
        ELSE ChildRoom(writers[Len(writers)])

Init ==
  /\ phase = "writing"
  /\ tree \in Trees /\ reserve \in Reserves /\ closing \in BOOLEAN
  /\ buf = <<>> /\ bufSize = Header + reserve
  /\ writers = <<>> /\ next = 1 /\ factor = 1
  /\ file = <<>> /\ moovEnd = 0 /\ damaged = FALSE
  /\ pos = 0 /\ readers = <<>> /\ seen = <<>>

(***************************************************************************)
(* The writers.                                                            *)
(***************************************************************************)
Pending == next <= Len(tree) /\ tree[next].level = Len(writers) + 1

Fits == Bytes(OwnWords(tree[next])) <= Room

WriteBox ==
  /\ phase = "writing" /\ Pending /\ Fits
  /\ buf' = buf \o OwnWords(tree[next])
  /\ writers' = IF tree[next].kind \in {Moov, Container}
                THEN Append(writers, [start |-> Bytes(buf), max |-> Room])
                ELSE writers
  /\ next' = next + 1
  /\ UNCHANGED <<phase, tree, closing, reserve, bufSize, factor, fileVars, readVars>>

(* Mutant: the size put in place leaves the header out.                    *)
SizedBody(words, start) ==
  [words EXCEPT ![start \div 4 + 1] = Bytes(words) - start - Header]

(* MP4_WRITE_CHECK_SIZE: tables.offset goes back by the bytes written, the *)
(* size is put there.                                                      *)
Sized(words, start) == [words EXCEPT ![start \div 4 + 1] = Bytes(words) - start]

CloseBox ==
  /\ phase = "writing" /\ ~Pending /\ writers # <<>>
  /\ buf' = Sized(buf, writers[Len(writers)].start)
  /\ writers' = SubSeq(writers, 1, Len(writers) - 1)
  /\ UNCHANGED <<phase, tree, closing, reserve, bufSize, next, factor, fileVars, readVars>>

NoSpace == phase = "writing" /\ Pending /\ ~Fits

(* Mutant: the factor is not raised after an attempt.                      *)
SameFactor == IF factor = 1 THEN 2 ELSE factor

(* tables_factor is 2 for the second attempt and one more after each; here *)
(* it is the one of the attempt that runs, 1 for the first.                *)
NextFactor == factor + 1

Grow ==
  /\ NoSpace /\ closing
  /\ factor' = NextFactor
  /\ bufSize' = DataOffset * NextFactor
  /\ buf' = <<>> /\ writers' = <<>> /\ next' = 1
  /\ UNCHANGED <<phase, tree, closing, reserve, fileVars, readVars>>

Ready == phase = "writing" /\ ~Pending /\ writers = <<>>

(* After the loop tables_factor has been raised once more.                 *)
TooBig == factor > 1 /\ factor + 1 >= Factors

(***************************************************************************)
(* The file.  It holds the 'ftyp', the reserved space, and the 'mdat' with *)
(* one sample of a word, behind an unused 'free' unless its size takes 64  *)
(* bits.                                                                   *)
(***************************************************************************)
MdatBoxes(wide) ==
  IF wide THEN <<Large, Mdat, 0, 2 * Header + 4, Body>>
  ELSE Box(Free, <<>>) \o Box(Mdat, <<Body>>)

Reserved == Box(Free, Copies(Body, (reserve - Header) \div 4))

(* The padding: a 'free' when there is room for its header, and what was   *)
(* there before when not.                                                  *)
Padding(bytes, old) ==
  IF bytes >= Header THEN Box(Free, Copies(Body, (bytes - Header) \div 4))
  ELSE Copies(old, bytes \div 4)

Flush ==
  /\ Ready /\ ~TooBig
  /\ phase' = "written"
  /\ \E wide \in BOOLEAN, old \in Stale :
       IF factor = 1
       THEN /\ file' = Box(Ftyp, <<>>) \o buf \o Padding(reserve - Bytes(buf), old)
                       \o MdatBoxes(wide)
            /\ moovEnd' = Header + Bytes(buf)
       ELSE /\ file' = Box(Ftyp, <<>>) \o Reserved \o MdatBoxes(wide) \o buf
            /\ moovEnd' = Bytes(file')
  /\ UNCHANGED <<writeVars, damaged, readVars>>

(* Without a moov: -ENOBUFS from mp4_mux_sync, or -ENOSPC from             *)
(* mp4_mux_close.                                                          *)
GiveUp ==
  /\ (NoSpace /\ ~closing) \/ (Ready /\ TooBig)
  /\ phase' = "written"
  /\ \E wide \in BOOLEAN : file' = Box(Ftyp, <<>>) \o Reserved \o MdatBoxes(wide)
  /\ UNCHANGED <<writeVars, moovEnd, damaged, readVars>>

(***************************************************************************)
(* The reader: one record per call of mp4_box_children_read.  type is that *)
(* of the parent, max and read are maxBytes and parentReadBytes, size and  *)
(* boxRead are realBoxSize and boxReadBytes of the box it is in, last is   *)
(* lastBox.                                                                *)
(***************************************************************************)
Reader(type, max) == [type |-> type, max |-> max, read |-> 0, size |-> 0,
                      boxRead |-> 0, last |-> FALSE]

(* An empty file is refused before anything is read.                      *)
OpenEmpty ==
  /\ phase = "written"
  /\ phase' = "refused" /\ file' = <<>>
  /\ UNCHANGED <<writeVars, moovEnd, damaged, readVars>>

Start(words) ==
  /\ phase = "written"
  /\ phase' = "reading"
  /\ readers' = <<Reader("root", 4 * words)>>
  /\ UNCHANGED <<writeVars, moovEnd, pos, seen>>

(* The file that is opened may have been cut anywhere.                     *)
Open(words) ==
  /\ Start(words)
  /\ file' = SubSeq(file, 1, words)
  /\ UNCHANGED damaged

(* Or one of its words is not what was written.                            *)
OpenDamaged(at, word) ==
  /\ Start(Len(file))
  /\ file' = [file EXCEPT ![at] = word]
  /\ damaged' = TRUE

Top  == readers[Len(readers)]
Size == Bytes(file)

Word(offset) == file[offset \div 4 + 1]

(* The loop of mp4_box_children_read goes on.                              *)
More == /\ phase = "reading"
        /\ pos < Size /\ ~Top.last /\ Top.read + Header < Top.max

Type    == Word(pos + 4)
IsFirst == readers = <<Top>> /\ Top.read = 0
IsLarge == Word(pos) = Large

NotMp4     == IsFirst /\ Type # Ftyp
LargeFits  == Top.max >= Top.read + 2 * Header
HeaderSize == IF IsLarge THEN 2 * Header ELSE Header

(* "Box extends to end of file": readBytes is 0 while the boxes are read.  *)
(* A size with a high word is longer than any file.                        *)
RealSize == CASE Word(pos) = 0 -> Size
              [] IsLarge -> IF Word(pos + 8) = 0 THEN Word(pos + 12) ELSE Size + 1
              [] OTHER -> Word(pos)

(* Mutant: the header is counted again.                                    *)
InnerWithHeader == RealSize

(* What is left of the box behind its header: realBoxSize - boxReadBytes.  *)
Inner == RealSize - HeaderSize

Truncated == Top.max < Top.read + RealSize
Bad       == RealSize < HeaderSize

Replaced(s, record) == [s EXCEPT ![Len(s)] = record]

Refuse ==
  /\ phase' = "refused"
  /\ UNCHANGED <<writeVars, fileVars, readVars>>

Complete == ~NotMp4 /\ (IsLarge => LargeFits) /\ ~Truncated

ReadBad ==
  /\ More
  /\ \/ NotMp4
     \/ ~NotMp4 /\ IsLarge /\ ~LargeFits
     \/ Complete /\ Bad
  /\ Refuse

(* A call returns bytes: its parent skips the rest of the box, and the     *)
(* outermost call ends the reading.                                        *)
Return(bytes, from) ==
  IF Len(readers) = 1
  THEN /\ phase' = "opened" /\ UNCHANGED <<writeVars, fileVars, readVars>>
  ELSE LET parent == readers[Len(readers) - 1]
       IN /\ pos' = from + parent.size - (parent.boxRead + bytes)
          /\ readers' = Replaced(SubSeq(readers, 1, Len(readers) - 1),
                          [parent EXCEPT !.read = parent.read + parent.size])
          /\ UNCHANGED <<phase, writeVars, fileVars, seen>>

(* "Not a fatal error": the call ends as if it had read all it may.        *)
ReadTruncated ==
  /\ More /\ ~NotMp4 /\ (IsLarge => LargeFits) /\ Truncated
  /\ Return(Top.max, pos + HeaderSize)

(* A box below the root is recorded with its level, its size and what it   *)
(* holds.  mp4_box_children_read does not look at the last 8 bytes of a    *)
(* box, so a box with nothing inside may go unread: it is left aside.      *)
Seen(words) ==
  IF Type \in Kinds /\ RealSize > Header
  THEN Append(seen, [kind |-> Type, level |-> Len(readers), size |-> RealSize,
                     words |-> words])
  ELSE seen

Whole == More /\ Complete /\ ~Bad

Enter ==
  /\ Whole /\ Type \in {Moov, Container}
  /\ readers' = Append(Replaced(readers, [Top EXCEPT !.size = RealSize,
                                                     !.boxRead = HeaderSize]),
                       Reader(Type, Inner))
  /\ pos' = pos + HeaderSize
  /\ seen' = Seen(0)
  /\ UNCHANGED <<phase, writeVars, fileVars>>

Skip(words) ==
  /\ readers' = Replaced(readers, [Top EXCEPT !.read = Top.read + RealSize,
                                              !.last = Word(pos) = 0])
  /\ pos' = pos + RealSize
  /\ seen' = Seen(words)
  /\ UNCHANGED <<phase, writeVars, fileVars>>

ReadLeaf ==
  /\ Whole /\ Type \notin {Moov, Container, Table}
  /\ Skip(Inner \div 4)

(* Mutant: an entry more is asked for.                                     *)
TableFitsMore == Inner >= 8 /\ Inner >= 12 + 4 * Word(pos + HeaderSize + 4)

(* CHECK_SIZE, before the number of entries is read and after.             *)
TableFits == Inner >= 8 /\ Inner >= 8 + 4 * Word(pos + HeaderSize + 4)

ReadTable ==
  /\ Whole /\ Type = Table
  /\ IF TableFits THEN Skip(Word(pos + HeaderSize + 4)) ELSE Refuse

ReadAll ==
  /\ phase = "reading" /\ ~More
  /\ Return(Top.read, pos)

-----------------------------------------------------------------------------
Write == WriteBox \/ CloseBox \/ Grow \/ Flush \/ GiveUp
Read  == ReadBad \/ ReadTruncated \/ Enter \/ ReadLeaf \/ ReadTable \/ ReadAll
Next  == \/ Write
         \/ OpenEmpty
         \/ \E words \in 1 .. Len(file) : Open(words)
         \/ \E at \in 1 .. Len(file), word \in Lost : OpenDamaged(at, word)
         \/ Read

Spec == Init /\ [][Next]_vars /\ WF_vars(Next)

-----------------------------------------------------------------------------
(* Every variable has its type, and each of the nested calls works on a    *)
(* part of what the call around it may still use.                          *)
TypeOK ==
  /\ phase \in {"writing", "written", "reading", "opened", "refused"}
  /\ reserve \in Reserves /\ closing \in BOOLEAN
  /\ bufSize \in Nat /\ factor \in Nat \ {0} /\ next \in 1 .. Len(tree) + 1
  /\ moovEnd \in Nat /\ pos \in Nat
  /\ \A i \in 1 .. Len(buf) : buf[i] \in Nat
  /\ \A i \in 1 .. Len(file) : file[i] \in Nat
  /\ \A i \in 1 .. Len(writers) :
       writers[i].start \in 0 .. Bytes(buf) - Header
  /\ \A i \in 1 .. Len(readers) :
       /\ readers[i].read <= readers[i].max
       /\ i > 1 => readers[i].max = readers[i - 1].size - readers[i - 1].boxRead

(* The boxes are written inside tables.buf: the room each call hands to    *)
(* the next never lets a box, however deep, run past the memory allocated, *)
(* nor a moov in the reserved space past the samples behind it.            *)
RoomKept ==
  /\ Bytes(buf) <= bufSize
  /\ factor = 1 => Bytes(buf) <= reserve

(* The words that the first n boxes of a tree write, one behind the other. *)
WordsTo(boxes) ==
  LET words[n \in 0 .. Len(boxes)] ==
        IF n = 0 THEN 0 ELSE words[n - 1] + Len(OwnWords(boxes[n]))
  IN  words

(* The last box inside box i, itself when nothing is.                      *)
Encloses(boxes, i, j) ==
  /\ \A k \in i + 1 .. j : boxes[k].level > boxes[i].level
  /\ j < Len(boxes) => boxes[j + 1].level <= boxes[i].level

LastIn(boxes, i) == CHOOSE j \in i .. Len(boxes) : Encloses(boxes, i, j)

(* The size of a box, with all that is inside it.                          *)
SizeOf(boxes, i) == 4 * (WordsTo(boxes)[LastIn(boxes, i)] - WordsTo(boxes)[i - 1])

(* What there is to see of the first n boxes.                              *)
ShownTo(boxes) ==
  LET shown[n \in 0 .. Len(boxes)] ==
        IF n = 0 THEN <<>>
        ELSE IF SizeOf(boxes, n) <= Header THEN shown[n - 1]
        ELSE Append(shown[n - 1],
                    [kind |-> boxes[n].kind, level |-> boxes[n].level,
                     size |-> SizeOf(boxes, n), words |-> boxes[n].words])
  IN  shown

(* A file is opened with every box of the moov, at its level, with its     *)
(* size and its number of entries, when the whole moov is in it, and with  *)
(* none of them when it was cut before the end of the moov or has none.    *)
WholeOrNone ==
  phase = "opened" /\ ~damaged =>
    seen = IF moovEnd > 0 /\ moovEnd <= Size THEN ShownTo(tree)[Len(tree)] ELSE <<>>

(* The reader refuses no file of the muxer, cut or not, but the empty one  *)
(* and the one cut inside the header of an 'mdat' with a 64-bit size.      *)
OnlyCutRefused ==
  phase = "refused" /\ ~damaged => Size = 0 \/ (Word(pos) = Large /\ Size - pos < 2 * Header)

(* The writer and the reader come to an end: the memory grows until the    *)
(* tree fits, and every call of the reader returns, whatever word of the   *)
(* file is lost.                                                           *)
Ends == <>(phase \in {"opened", "refused"})
=============================================================================
