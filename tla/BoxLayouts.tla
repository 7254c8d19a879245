----------------------------- MODULE BoxLayouts -----------------------------
(***************************************************************************)
(* How long the boxes of a moov are: the bytes each writer of              *)
(* mp4_box_writer.c puts in a box, the bytes the readers of                *)
(* mp4_box_reader.c demand of it, and the bytes the dump of                *)
(* mp4_box_to_json.c takes from it.  Each is the sum of the widths of the  *)
(* fields, in their order; what the fields hold is left out.               *)
(*                                                                         *)
(* A box is a record [type, level, count, bytes]: count is its number of   *)
(* entries, bytes the length of the strings and of the parameter sets in   *)
(* it.                                                                     *)
(***************************************************************************)
EXTENDS Integers, Sequences, FiniteSetsExt

Header == 8

(***************************************************************************)
(* What is written before the boxes inside, the header included.           *)
(***************************************************************************)
WrittenTimes    == 8 + 8 + 4 + 8     (* creation, modification, timescale, *)
                                     (* duration: 64 bits but for one      *)
WrittenMvhd     == Header + 4 + WrittenTimes + 4 + 2 + 10 + 36 + 24 + 4
WrittenTkhd     == Header + 4 + (8 + 8 + 4 + 4 + 8) + 8 + 4 + 2 + 2 + 36 + 8
WrittenMdhd     == Header + 4 + WrittenTimes + 4
WrittenVmhd     == Header + 4 + 8
WrittenSmhd     == Header + 4 + 4
WrittenNmhdBare == Header               (* mutant: no version, no flags    *)
WrittenNmhd     == Header + 4
WrittenGmin     == Header + 4 + 5 * 2 + 2
WrittenHdlr(box)  == Header + 4 + 4 + 4 + 12 + box.bytes
WrittenMetaHdlr == Header + 4 + 4 + 4 + 13
WrittenDref     == Header + 4 + 4
WrittenUrl      == Header + 4
WrittenStsd     == Header + 4 + 4
WrittenVisual   == Header + 6 + 2 + 16 + 2 * 2 + 2 * 4 + 4 + 2 + 32 + 2 + 2
WrittenAvcc(box)  == Header + 6 + (2 + 1 + 2) + box.bytes
WrittenHvcc(box)  == Header + 23 + 3 * (1 + 2 + 2) + box.bytes
WrittenMp4a     == Header + 6 + 2 + 8 + 2 + 2 + 4 + 4
WrittenMett(box)  == Header + 6 + 2 + box.bytes + 2
WrittenText     == Header + 6 + 2 + 4 + 4 + 6 + 8 + 8 + 2 + 2 + 1 + 1 + 6 + 1

(* mp4_box_esds_descriptor_size_length: 7 bits of the length in a byte, as *)
(* long as any are left of its 32.                                         *)
LengthBytes(size) == Cardinality({shifts \in 0 .. 4 : size >= 128 ^ shifts})

(* The descriptors, one inside the other, and the one behind them.         *)
DsiBytes(box) == box.bytes
DcdBytes(box) == DsiBytes(box) + LengthBytes(DsiBytes(box)) + 14
EsdBytes(box) == DcdBytes(box) + LengthBytes(DcdBytes(box)) + 4

WrittenEsds(box) == Header + 4 + 1 + LengthBytes(EsdBytes(box)) + EsdBytes(box) + 3

(* The reference boxes of a 'tref', one for each reference and each with   *)
(* all of them.                                                            *)
WrittenTref(box) == Header + box.count * (Header + 4 * box.count)

(* A table; it is written only when it has entries.                        *)
WrittenTable(box) ==
  Header + 4 + 4
    + CASE box.type = "stts" -> 8 * box.count
        [] box.type = "stss" -> 4 * box.count
        [] box.type = "stsc" -> 12 * box.count
        [] box.type = "stsz" -> 4 + 4 * box.count
        [] box.type = "stco" -> 4 * box.count
        [] box.type = "co64" -> 8 * box.count

WrittenKeys(box)  == Header + 4 + 4 + 8 * box.count + box.bytes
WrittenEntry      == Header                 (* of an 'ilst', before 'data' *)
WrittenData(box)  == Header + 4 + 4 + box.bytes
WrittenXyz(box)   == Header + 2 + 2 + box.bytes

(* An 'ilst' with keys: entries that begin with an index, 'data' inside.   *)
WrittenKeyed(box) == Header + 24 * box.count + box.bytes

Tables     == {"stts", "stss", "stsc", "stsz", "stco", "co64"}
Containers == {"moov", "trak", "mdia", "minf", "gmhd", "dinf", "stbl", "udta"}

Own(box) ==
  CASE box.type \in Containers \cup {"ilst"} -> Header
    [] box.type = "ftyp" -> Header + 4 + 4 + 4 * box.count
    [] box.type = "free" -> Header + box.bytes
    [] box.type \in {"mdat", "open"} -> Header + box.bytes
    [] box.type = "wide" -> 2 * Header + box.bytes
    [] box.type = "mvhd" -> WrittenMvhd
    [] box.type = "tkhd" -> WrittenTkhd
    [] box.type = "tref" -> WrittenTref(box)
    [] box.type = "mdhd" -> WrittenMdhd
    [] box.type \in {"hdlr", "hdlr_meta"} -> WrittenHdlr(box)
    [] box.type \in {"mdir", "mdta"} -> WrittenMetaHdlr
    [] box.type = "vmhd" -> WrittenVmhd
    [] box.type = "smhd" -> WrittenSmhd
    [] box.type = "nmhd" -> WrittenNmhd
    [] box.type = "gmin" -> WrittenGmin
    [] box.type = "dref" -> WrittenDref
    [] box.type = "url"  -> WrittenUrl
    [] box.type = "stsd" -> WrittenStsd
    [] box.type \in {"avc1", "hvc1"} -> WrittenVisual
    [] box.type = "avcC" -> WrittenAvcc(box)
    [] box.type = "hvcC" -> WrittenHvcc(box)
    [] box.type = "mp4a" -> WrittenMp4a
    [] box.type = "esds" -> WrittenEsds(box)
    [] box.type = "mett" -> WrittenMett(box)
    [] box.type = "text" -> WrittenText
    [] box.type \in Tables -> WrittenTable(box)
    [] box.type = "meta" -> Header
    [] box.type = "umeta" -> Header + 4     (* the 'meta' of an 'udta'     *)
    [] box.type = "keys" -> WrittenKeys(box)
    [] box.type = "keyed" -> WrittenKeyed(box)
    [] box.type = "entry" -> WrittenEntry
    [] box.type = "data" -> WrittenData(box)
    [] box.type = "xyz"  -> WrittenXyz(box)

(***************************************************************************)
(* What the readers of the demuxer demand behind the header of a box       *)
(* (CHECK_SIZE).  Those of the entries of a 'stsd' are stated of its body, *)
(* which holds 8 bytes and the one entry.                                  *)
(***************************************************************************)
NeedsFtyp == 8
NeedsMvhd == 28 * 4
NeedsTkhd == 24 * 4
NeedsTref == 3 * 4
NeedsMdhd == 9 * 4
NeedsVmhd == 3 * 4
NeedsSmhd == 2 * 4
NeedsNmhd == 4
NeedsHdlr == 6 * 4
NeedsVisual == 102 - (8 + Header)
NeedsAudio  == 44 - (8 + Header)
NeedsMett   == 24 - (8 + Header)
NeedsAvcc(box) == 6 + 2 + 1 + 2 + box.bytes
NeedsHvcc == 22
NeedsEsds(box) == 4 + 1 + LengthBytes(EsdBytes(box)) + EsdBytes(box)
NeedsTable(box) ==
  CASE box.type = "stts" -> 8 + 8 * box.count
    [] box.type = "stss" -> 8 + 4 * box.count
    [] box.type = "stsc" -> 8 + 12 * box.count
    [] box.type = "stsz" -> 12 + 4 * box.count
    [] box.type = "stco" -> 8 + 4 * box.count
    [] box.type = "co64" -> 8 + 8 * box.count
NeedsXyz(box)  == 4 + box.bytes
NeedsKeys(box) == 8 + 8 * box.count + box.bytes
NeedsIlst == 8
NeedsData == 9

Needs(box) ==
  CASE box.type = "ftyp" -> NeedsFtyp
    [] box.type = "mvhd" -> NeedsMvhd
    [] box.type = "tkhd" -> NeedsTkhd
    [] box.type = "tref" -> NeedsTref
    [] box.type = "mdhd" -> NeedsMdhd
    [] box.type = "vmhd" -> NeedsVmhd
    [] box.type = "smhd" -> NeedsSmhd
    [] box.type = "nmhd" -> NeedsNmhd
    [] box.type \in {"hdlr", "hdlr_meta", "mdir", "mdta"} -> NeedsHdlr
    [] box.type \in {"avc1", "hvc1"} -> NeedsVisual
    [] box.type = "mp4a" -> NeedsAudio
    [] box.type = "mett" -> NeedsMett
    [] box.type = "avcC" -> NeedsAvcc(box)
    [] box.type = "hvcC" -> NeedsHvcc
    [] box.type = "esds" -> NeedsEsds(box)
    [] box.type \in Tables -> NeedsTable(box)
    [] box.type = "xyz"  -> NeedsXyz(box)
    [] box.type = "keys" -> NeedsKeys(box)
    [] box.type \in {"ilst", "keyed"} -> NeedsIlst
    [] box.type = "data" -> NeedsData
    [] OTHER -> 0

(***************************************************************************)
(* What the dump takes from a box behind its header, before it skips the   *)
(* rest or goes on with the boxes inside.                                  *)
(***************************************************************************)
VersionFlags == 4
TakesTimes(trackInfo) == 8 + 8 + (IF trackInfo THEN 4 ELSE 0) + 4 + 8
TakesMvhd == VersionFlags + TakesTimes(FALSE) + 4 + 4 + 2 * 4 + 9 * 4 + 6 * 4 + 4
TakesTkhd == VersionFlags + TakesTimes(TRUE) + 3 * 4 + 4 + 9 * 4 + 2 * 4
TakesMdhd == VersionFlags + TakesTimes(FALSE) + 4
TakesVmhd == VersionFlags + 4 * 2
TakesSmhd == VersionFlags + 4
TakesNmhd == VersionFlags
TakesGmin == VersionFlags + 5 * 2 + 2
TakesHdlr == VersionFlags + 4 + 4 + 3 * 4     (* and all the rest, a name  *)
TakesDref == VersionFlags + 4
TakesStsd == VersionFlags + 4
TakesVisual == 4 + 2 + 2 + 4 * 4 + 4 + 4 + 4 + 4 + 2 + 32 + 4
BeforeName  == TakesVisual - 4 - 32           (* 'compressorname'          *)
TakesAvcc(box) == 4 + 2 + 2 + 1 + 2 + box.bytes
TakesHvcc(box) == 23 + 3 * (1 + 2 + 2) + box.bytes
TakesMp4a == 7 * 4
TakesMett == 4 + 2 + 2                        (* and all the rest          *)
TakesText == 6 + 2 + 4 + 4 + 3 * 2 + 4 * 2 + 8 + 2 + 2 + 1 + 1 + 3 * 2 + 1
TakesEsds(box) == 4 + 1 + LengthBytes(EsdBytes(box)) + EsdBytes(box) + 3
TakesTref(box) == box.count * (Header + 4 * box.count)
TakesFtyp(box) == 4 + 4 + 4 * box.count

TakesStts(box) == VersionFlags + 4 + box.count * (4 + 4)
TakesStss(box) == VersionFlags + 4 + box.count * 4
TakesStsc(box) == VersionFlags + 4 + box.count * (4 + 4 + 4)
TakesStsz(box) == VersionFlags + 4 + 4 + box.count * 4
TakesStco(box) == VersionFlags + 4 + box.count * 4
TakesCo64(box) == VersionFlags + 4 + box.count * (4 + 4)

TakesKeys(box)     == VersionFlags + 4 + box.count * (4 + 4) + box.bytes
TakesKeyed(n, box) == n * (4 + 4 + 4 + 4 + 4 + 4) + box.bytes
TakesData == 4 + 4                            (* and all the rest          *)
TakesXyz(box) == 2 + 2 + box.bytes

Takes(box) ==
  CASE box.type = "ftyp" -> TakesFtyp(box)
    [] box.type = "mvhd" -> TakesMvhd
    [] box.type = "tkhd" -> TakesTkhd
    [] box.type = "tref" -> TakesTref(box)
    [] box.type = "mdhd" -> TakesMdhd
    [] box.type = "vmhd" -> TakesVmhd
    [] box.type = "smhd" -> TakesSmhd
    [] box.type \in {"nmhd", "url"} -> TakesNmhd
    [] box.type = "gmin" -> TakesGmin
    [] box.type \in {"hdlr", "hdlr_meta", "mdir", "mdta"} -> TakesHdlr
    [] box.type = "dref" -> TakesDref
    [] box.type = "stsd" -> TakesStsd
    [] box.type \in {"avc1", "hvc1"} -> TakesVisual
    [] box.type = "avcC" -> TakesAvcc(box)
    [] box.type = "hvcC" -> TakesHvcc(box)
    [] box.type = "mp4a" -> TakesMp4a
    [] box.type = "esds" -> TakesEsds(box)
    [] box.type = "mett" -> TakesMett
    [] box.type = "text" -> TakesText
    [] box.type = "stts" -> TakesStts(box)
    [] box.type = "stss" -> TakesStss(box)
    [] box.type = "stsc" -> TakesStsc(box)
    [] box.type = "stsz" -> TakesStsz(box)
    [] box.type = "stco" -> TakesStco(box)
    [] box.type = "co64" -> TakesCo64(box)
    [] box.type = "umeta" -> VersionFlags
    [] box.type = "keys" -> TakesKeys(box)
    [] box.type = "data" -> TakesData
    [] box.type = "xyz"  -> TakesXyz(box)
    [] OTHER -> 0
=============================================================================
