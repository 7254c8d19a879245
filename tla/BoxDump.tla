------------------------------- MODULE BoxDump -------------------------------
(***************************************************************************)
(* mp4_file_to_json: the dump of the boxes of a file, one line each and    *)
(* one object each, over the files of the muxer.  The dump has readers of  *)
(* its own: what it takes from a box must be what the writer put there, or *)
(* everything behind is read out of step.                                  *)
(*                                                                         *)
(* The file is the sequence of its boxes in the order of their headers,    *)
(* each with its level below the root, its offset at and its size.  The    *)
(* fields are left out, their widths are those of BoxLayouts; so is the    *)
(* JSON object, in which a box takes the place of an earlier one of its    *)
(* name in the same box, but for the 'trak'.                               *)
(***************************************************************************)
EXTENDS BoxLayouts, SequencesExt

CONSTANTS
  Recordings,  (* what the files hold, see IsRecording                     *)
  Cuttable,    (* bound: those of them that may be cut, at any byte        *)
  NameBytes,   (* of a handler, of a key, of a value                       *)
  MaxSubBoxes  (* MAX_SUB_BOXES: entries the dump reads of a table         *)

Kinds == {"avc", "hevc", "audio", "metadata", "chapters"}

(* deltas: entries of the 'stts'; syncs: samples of a video that are sync; *)
(* keys, tags, located: metadata in 'meta', in the 'ilst' of the 'udta',   *)
(* and a location; moov: where it is; mdat: how its size is written.       *)
Track == [kind : Kinds, refs : Nat, samples : Nat \ {0}, deltas : Nat \ {0},
          syncs : Nat, params : Nat, keys : Nat, tags : Nat, located : BOOLEAN]

IsRecording(r) ==
  /\ r.tracks \in Seq(Track)
  /\ r.keys \in Nat /\ r.tags \in Nat /\ r.located \in BOOLEAN
  /\ r.moov \in {"front", "behind", "none"}
  /\ r.mdat \in {"mdat", "wide", "open"}
  /\ r.mdat = "open" => r.moov = "none"
  /\ r.padding \in Nat /\ r.data \in Nat

(* A handler of 100 bytes or more overflows the array that the dump reads  *)
(* it into: what is done then is undefined, and left out.                  *)
ASSUME RecordingAssumption ==
  /\ \A r \in Recordings : IsRecording(r)
  /\ NameBytes \in 1 .. 99 /\ MaxSubBoxes \in Nat
  /\ Cuttable \subseteq Recordings

-----------------------------------------------------------------------------
(* The boxes of the file.                                                  *)

Box(type, level, count, bytes) ==
  <<[type |-> type, level |-> level, count |-> count, bytes |-> bytes]>>
Plain(type, level) == Box(type, level, 0, 0)
When(condition, list) == IF condition THEN list ELSE <<>>
Repeat(list, count) == FlattenSeq([i \in 1 .. count |-> list])

(* mp4_box_meta_write and mp4_box_meta_udta_write, with their 'hdlr'.      *)
MetaBoxes(level, keys) ==
  Plain("meta", level) \o Plain("mdta", level + 1)
  \o Box("keys", level + 1, keys, keys * NameBytes)
  \o Box("keyed", level + 1, keys, keys * NameBytes)

MetaUdtaBoxes(level, tags) ==
  Plain("umeta", level) \o Plain("mdir", level + 1) \o Plain("ilst", level + 1)
  \o Repeat(Plain("entry", level + 2) \o Box("data", level + 3, 0, NameBytes), tags)

MetadataBoxes(level, keys, tags, located) ==
  When(keys > 0, MetaBoxes(level, keys))
  \o When(tags > 0 \/ located,
          Plain("udta", level)
          \o When(tags > 0, MetaUdtaBoxes(level + 1, tags))
          \o When(located, Box("xyz", level + 1, 0, NameBytes)))

MediaHeader(kind) ==
  CASE kind \in {"avc", "hevc"} -> Plain("vmhd", 4)
    [] kind = "audio"    -> Plain("smhd", 4)
    [] kind = "metadata" -> Plain("nmhd", 4)
    [] kind = "chapters" -> Plain("gmhd", 4) \o Plain("gmin", 5) \o Plain("text", 5)

SampleEntry(track) ==
  CASE track.kind = "avc"   -> Plain("avc1", 6) \o Box("avcC", 7, 0, track.params)
    [] track.kind = "hevc"  -> Plain("hvc1", 6) \o Box("hvcC", 7, 0, track.params)
    [] track.kind = "audio" -> Plain("mp4a", 6) \o Box("esds", 7, 0, track.params)
    [] track.kind = "metadata" -> Box("mett", 6, 0, NameBytes)
    [] track.kind = "chapters" -> Plain("text", 6)

TrackBoxes(track) ==
  Plain("trak", 1) \o Plain("tkhd", 2)
  \o When(track.refs > 0, Box("tref", 2, track.refs, 0))
  \o Plain("mdia", 2) \o Plain("mdhd", 3)
  \o Box(IF track.kind = "metadata" THEN "hdlr_meta" ELSE "hdlr", 3, 0, NameBytes)
  \o Plain("minf", 3) \o MediaHeader(track.kind)
  \o Plain("dinf", 4) \o Plain("dref", 5) \o Plain("url", 6)
  \o Plain("stbl", 4) \o Box("stsd", 5, 1, 0) \o SampleEntry(track)
  \o Box("stts", 5, track.deltas, 0)
  \o When(track.kind \in {"avc", "hevc"} /\ track.syncs > 0,
          Box("stss", 5, track.syncs, 0))
  \o Box("stsc", 5, 1, 0) \o Box("stsz", 5, track.samples, 0)
  \o Box("stco", 5, track.samples, 0)
  \o MetadataBoxes(2, track.keys, track.tags, track.located)

(* mp4_mux_sync_internal.                                                  *)
MoovBoxes(r) ==
  Plain("moov", 0) \o Plain("mvhd", 1)
  \o FlattenSeq([i \in DOMAIN r.tracks |-> TrackBoxes(r.tracks[i])])
  \o MetadataBoxes(1, r.keys, r.tags, r.located)

FileBoxes(r) ==
  Box("ftyp", 0, 2, 0)
  \o When(r.moov = "front", MoovBoxes(r))
  \o Box("free", 0, 0, r.padding)
  \o When(r.mdat # "wide", Plain("free", 0))
  \o Box(r.mdat, 0, 0, r.data)
  \o When(r.moov = "behind", MoovBoxes(r))

(* The last of the boxes inside a box: they are the next ones, and deeper. *)
LastIn(list, i) ==
  CHOOSE j \in i .. Len(list) :
    /\ j < Len(list) => list[j + 1].level <= list[i].level
    /\ \A k \in i + 1 .. j : list[k].level > list[i].level

(* How long the first boxes are together.                                  *)
Before(list) ==
  LET sum[i \in 0 .. Len(list)] ==
        IF i = 0 THEN 0 ELSE sum[i - 1] + Own(list[i])
  IN sum

Placed(list) ==
  LET before == Before(list)
  IN [i \in DOMAIN list |->
        [type |-> list[i].type, level |-> list[i].level,
         count |-> list[i].count, bytes |-> list[i].bytes,
         at   |-> before[i - 1],
         size |-> before[LastIn(list, i)] - before[i - 1]]]

-----------------------------------------------------------------------------
VARIABLES
  recording,  (* which file is dumped                                      *)
  boxes,      (* its boxes                                                 *)
  size,       (* file.size, shorter than the recording when it was cut     *)
  pos,        (* the file position                                         *)
  readBytes,  (* file.read_bytes                                           *)
  last,       (* mp4.last_box                                              *)
  boxSize,    (* box.size                                                  *)
  trackType,  (* box.track_type: "metadata" or another one                 *)
  keyCount,   (* meta.count                                                *)
  frames,     (* calls of read_container_box and read_container_max_n_box: *)
              (* the size of the box, box_read_bytes, the boxes left to    *)
              (* read, Unlimited in the first                              *)
  phase,      (* how the dump stands                                       *)
  shown       (* boxes printed: their level and their size                 *)

fileVars == <<recording, boxes, size>>
boxVars  == <<trackType, keyCount>>
vars == <<fileVars, pos, readBytes, last, boxSize, boxVars, frames, phase, shown>>

(* Where the file ends when it was not cut.                                *)
Whole == boxes[Len(boxes)].at + boxes[Len(boxes)].size
Unlimited == 1000000

Init ==
  /\ recording \in Recordings
  /\ \E list \in {FileBoxes(recording)} : boxes = Placed(list)
  /\ \/ size = Whole
     \/ recording \in Cuttable /\ size \in 1 .. Whole - 1
  /\ pos = 0 /\ readBytes = 0 /\ last = FALSE /\ boxSize = 0
  /\ trackType = "none" /\ keyCount = 0
  /\ frames = <<>> /\ phase = "dumping" /\ shown = <<>>

Top == frames[Len(frames)]

(* The boxes in which the dump looks for boxes, besides an 'ilst'.         *)
Nesting == Containers \cup {"stsd", "dref", "avc1", "hvc1", "mp4a", "meta",
                            "umeta", "entry"}

(* Mutant: the entry of a 'stsd' is never read.                            *)
GoesButOnce(frame) ==
  IF frame.left = Unlimited THEN frame.read + Header <= frame.size /\ ~last
  ELSE frame.left > 1

(* The loop in a box goes on.                                              *)
GoesOn(frame) ==
  IF frame.left = Unlimited THEN frame.read + Header <= frame.size /\ ~last
  ELSE frame.left > 0

(* The loop in the file goes on.                                           *)
RootGoes == ~last /\ readBytes + Header < size

Going == phase = "dumping" /\ IF frames = <<>> THEN RootGoes ELSE GoesOn(Top)

Here   == {i \in DOMAIN boxes : boxes[i].at = pos}
Found  == boxes[CHOOSE i \in Here : TRUE]

HeaderOf(box) == IF box.type = "wide" THEN 2 * Header ELSE Header

(* box.size keeps the one of the box before when the size is 0, "to the    *)
(* end of the file".                                                       *)
SizeRead(box) == IF box.type = "open" THEN boxSize ELSE box.size

(* Mutant: a short read of a table goes unseen.                            *)
StrictButTables(box) == IF box.type \in Tables THEN 0 ELSE Takes(box)

(* The entries of a table that has too many are skipped, by a seek.        *)
TooMany(box) == box.type \in Tables /\ box.count > MaxSubBoxes

(* What must be in the file, behind the header; the rest may be missing:   *)
(* the result of read_version_flags, a short string and a seek are not     *)
(* looked at.                                                              *)
Strict(box) ==
  CASE TooMany(box) -> VersionFlags + 4 + (IF box.type = "stsz" THEN 4 ELSE 0)
    [] box.type \in {"url", "umeta"} -> 0
    [] box.type = "gmin" -> TakesGmin - 2
    [] box.type = "xyz"  -> TakesXyz(box) - box.bytes
    [] OTHER -> Takes(box)

InFile(box, bytes) == box.at + HeaderOf(box) + bytes <= size

(* "compressorname" is missing: the rest is skipped, and nothing inside is *)
(* read.                                                                   *)
NameCut(box) ==
  /\ box.type \in {"avc1", "hvc1"}
  /\ InFile(box, BeforeName) /\ ~InFile(box, BeforeName + 32)

IsKeyed(box) == box.type \in {"keyed", "ilst"} /\ trackType = "metadata"

(* box_read_bytes at the end of a box without boxes: all of it, and the    *)
(* parameter sets of a 'hvcC' once more.                                   *)
BytesCounted(box) ==
  IF box.type = "hvcC" THEN box.size + box.bytes
  ELSE IF box.type = "open" THEN Header ELSE box.size

(* skip_rest_of_box: box_read_bytes is set to 8 for an 'mdat', behind a    *)
(* header of 16 bytes too, and the rest is counted from there.             *)
EndOf(box) ==
  CASE box.type = "wide" -> box.at + HeaderOf(box) + (box.size - Header)
    [] box.type = "open" -> box.at + Header
    [] IsKeyed(box) -> box.at + Header + TakesKeyed(keyCount, box)
    [] OTHER -> box.at + (IF Header + Takes(box) > box.size
                          THEN Header + Takes(box) ELSE box.size)

(* Mutant: the box around counts what was read.                            *)
ReadInside(box) == BytesCounted(box)

(* The box around counts the size of the box.                              *)
SizeInside(box) == SizeRead(box)

(* Mutant: every 'meta' is taken to have a version.                        *)
BeforeVersioned(box) ==
  Header + (IF box.type = "meta" THEN VersionFlags ELSE Takes(box))

(* A 'meta' at the root has a version, as that of an 'udta' has.           *)
BeforeInside(box) ==
  Header + (IF box.type = "meta" /\ frames = <<>> THEN VersionFlags ELSE Takes(box))

(* The box around reads on.                                                *)
Counted(stack, bytes) ==
  IF stack = <<>> THEN stack
  ELSE [stack EXCEPT ![Len(stack)].read = @ + bytes, ![Len(stack)].left =
          IF @ = Unlimited THEN @ ELSE @ - 1]

Show(box) == shown' = Append(shown, [level |-> Len(frames), size |-> SizeRead(box)])

-----------------------------------------------------------------------------
(* The header is read, its line printed and the reader of its type called. *)

Fail == phase' = "failed" /\ UNCHANGED <<fileVars, pos, readBytes, last, boxVars, frames>>

HeaderCut ==
  /\ Going
  /\ \/ pos + Header > size
     \/ Here # {} /\ ~InFile(Found, 0)
  /\ Fail /\ UNCHANGED <<boxSize, shown>>

(* What is read for a header is none.                                      *)
OutOfStep ==
  /\ Going /\ pos + Header <= size /\ Here = {}
  /\ phase' = "lost"
  /\ UNCHANGED <<fileVars, pos, readBytes, last, boxSize, boxVars, frames, shown>>

At(box) ==
  /\ Going /\ Here # {} /\ box = Found /\ InFile(box, 0)
  /\ boxSize' = SizeRead(box)
  /\ Show(box)

BodyCut(box) ==
  /\ At(box) /\ ~IsKeyed(box) /\ ~InFile(box, Strict(box)) /\ ~NameCut(box)
  /\ Fail

(* read_ilst_meta_box fails in a file that is cut, and nobody looks at it: *)
(* when only the last value is short the dump goes on, else an item has no *)
(* value, and what is done with that is undefined.                         *)
KeyedCut(box) ==
  /\ At(box) /\ IsKeyed(box) /\ ~InFile(box, TakesKeyed(keyCount, box) - NameBytes)
  /\ phase' = "undefined"
  /\ UNCHANGED <<fileVars, pos, readBytes, last, boxVars, frames>>

Leaf(box) ==
  /\ At(box)
  /\ \/ box.type \notin Nesting \cup {"ilst", "keyed"} /\ InFile(box, Strict(box))
     \/ IsKeyed(box) /\ InFile(box, TakesKeyed(keyCount, box) - NameBytes)
     \/ NameCut(box)
  /\ pos' = EndOf(box)
  /\ readBytes' = readBytes + BytesCounted(box)
  /\ last' = (box.type = "open")
  /\ frames' = Counted(frames, SizeInside(box))
  /\ keyCount' = IF box.type = "keys" THEN box.count ELSE keyCount
  /\ trackType' = CASE box.type \in {"mdta", "hdlr_meta"} -> "metadata"
                    [] box.type \in {"mdir", "hdlr"} -> "other"
                    [] OTHER -> trackType
  /\ UNCHANGED <<fileVars, phase>>

Enter(box) ==
  /\ At(box) /\ box.type \in Nesting \cup {"ilst", "keyed"}
  /\ ~IsKeyed(box) /\ InFile(box, Strict(box))
  /\ pos' = pos + BeforeInside(box)
  /\ frames' = Append(frames, [size |-> box.size, read |-> BeforeInside(box),
                               left |-> IF box.type = "stsd" THEN box.count ELSE Unlimited])
  /\ UNCHANGED <<fileVars, readBytes, last, boxVars, phase>>

(* The loop in a box is over: its rest is skipped.                         *)
Leave ==
  /\ phase = "dumping" /\ frames # <<>> /\ ~GoesOn(Top)
  /\ LET done == IF Top.read < Top.size THEN Top.size ELSE Top.read
     IN /\ pos' = pos + (done - Top.read)
        /\ readBytes' = readBytes + done
        /\ boxSize' = Top.size
        /\ frames' = Counted(SubSeq(frames, 1, Len(frames) - 1), Top.size)
  /\ UNCHANGED <<fileVars, last, boxVars, phase, shown>>

Finish ==
  /\ phase = "dumping" /\ frames = <<>> /\ ~RootGoes
  /\ phase' = "dumped"
  /\ UNCHANGED <<fileVars, pos, readBytes, last, boxSize, boxVars, frames, shown>>

Next ==
  \/ HeaderCut \/ OutOfStep
  \/ \E i \in Here : \/ BodyCut(boxes[i]) \/ KeyedCut(boxes[i])
                     \/ Leaf(boxes[i]) \/ Enter(boxes[i])
  \/ Leave \/ Finish

Spec == Init /\ [][Next]_vars

-----------------------------------------------------------------------------
(* Correctness.                                                            *)

IsCut == size < Whole

(* The moov stands behind an 'mdat' whose header has 16 bytes.             *)
BehindWide == recording.moov = "behind" /\ recording.mdat = "wide"

(* The last box of the moov.                                               *)
MoovEnd ==
  LET moov  == {i \in DOMAIN boxes : boxes[i].type = "moov"}
      front == {i \in DOMAIN boxes : \A j \in 1 .. i : boxes[j].type # "free"}
  IN IF moov = {} THEN 0
     ELSE IF recording.moov = "front" THEN Max(front)
     ELSE Len(boxes)

(* Every variable has its type, and no box has more read from it than it   *)
(* has, but for the last that is read in it.                               *)
TypeOK ==
  /\ size \in 1 .. Whole /\ pos \in Nat /\ readBytes \in Nat
  /\ last \in BOOLEAN /\ boxSize \in Nat /\ keyCount \in Nat
  /\ trackType \in {"none", "metadata", "other"}
  /\ phase \in {"dumping", "dumped", "failed", "lost", "undefined"}
  /\ \A i \in DOMAIN frames : frames[i].read <= frames[i].size

(* What the writers put into a box is at least what the reader of the      *)
(* demuxer demands of it, with the boxes inside.                           *)
BodiesAccepted ==
  \A i \in DOMAIN boxes : boxes[i].size - HeaderOf(boxes[i]) >= Needs(boxes[i])

(* The dump never gets out of step with the writers: the boxes it prints   *)
(* are the first boxes of the file, in their order, each at its level and  *)
(* with its size, be the file whole or cut; a size of 0 is printed as that *)
(* of the box before.  The moov behind a wide 'mdat', of which the dump    *)
(* skips 8 bytes too many, is left aside.                                  *)
ShownInStep ==
  ~BehindWide =>
    /\ phase # "lost"
    /\ Len(shown) <= Len(boxes)
    /\ \A i \in DOMAIN shown :
         shown[i] = [level |-> boxes[i].level,
                     size |-> boxes[IF boxes[i].type = "open" THEN i - 1 ELSE i].size]

(* No file of the muxer is refused as long as it is whole, and its dump   *)
(* prints every box of the moov, and every box when the moov is not in     *)
(* front of others.  The last 8 bytes of a file are not looked at, be they *)
(* the header of an empty 'mdat'; a moov behind a wide 'mdat' is not found *)
(* either.                                                                 *)
WholeShown ==
  ~IsCut =>
    /\ phase \notin {"failed", "undefined"}
    /\ phase = "dumped" /\ ~BehindWide =>
         \A i \in DOMAIN boxes :
           (recording.moov = "front" => i <= MoovEnd) /\ boxes[i].at + Header < size
             => i <= Len(shown)

(* A moov that was cut is noticed once it was begun, unless the cut only   *)
(* takes bytes of what is the last in it: of a value, or of the offsets of *)
(* a track with more samples than the dump reads.                          *)
CutNoticed ==
  phase = "dumped" /\ MoovEnd > 0 /\ ~BehindWide
  /\ size < boxes[MoovEnd].at + boxes[MoovEnd].size
  /\ (\E i \in DOMAIN shown : boxes[i].type = "moov")
    => /\ size > boxes[MoovEnd].at + Header
       /\ boxes[MoovEnd].type \in {"data", "keyed", "xyz"} \/ TooMany(boxes[MoovEnd])
=============================================================================
