---------------------------- MODULE BoxDumpProofs ----------------------------
(***************************************************************************)
(* What BoxDump guarantees for every recording and every cut: the dump of  *)
(* a file of the muxer stays in step with its boxes, prints all of a whole *)
(* one and notices that a moov was cut.                                    *)
(*                                                                         *)
(* First the lengths: what the dump takes from a box and what the demuxer  *)
(* needs of it, against what is written (Lengths).  Then the order in      *)
(* which the writers write, as a relation of each box to the next          *)
(* (MayFollow, FileBoxesRun), and where the boxes are then (Laid).  The    *)
(* inductive invariant DumpInv says of each nested call in which box it    *)
(* is, and that all before the next box was counted in it (Link, Cursor).  *)
(***************************************************************************)
EXTENDS BoxDump, Recursion, FiniteSetTheorems, TLAPS

-----------------------------------------------------------------------------
(* How long the boxes are.                                                 *)

Nests == Nesting \cup {"ilst"}

Leaves == {"ftyp", "free", "mdat", "open", "wide", "mvhd", "tkhd", "tref", "mdhd",
           "hdlr", "hdlr_meta", "mdta", "mdir", "vmhd", "smhd", "nmhd", "gmin",
           "text", "url", "avcC", "hvcC", "esds", "mett", "stts", "stss", "stsc",
           "stsz", "stco", "keys", "keyed", "data", "xyz"}

(* A box as the writers make it.                                           *)
IsWritten(b) ==
  /\ b.type \in Nests \cup Leaves
  /\ b.level \in Nat /\ b.count \in Nat /\ b.bytes \in Nat
  /\ b.type \in {"tref", "keyed"} => b.count >= 1
  /\ b.type = "keyed" => b.bytes = b.count * NameBytes
  /\ b.type = "data" => b.bytes >= 1
  /\ b.type = "stsd" => b.count = 1 /\ b.level = 5
  /\ b.type = "stts" => b.level = 5
  /\ b.type \in {"avc1", "hvc1", "mp4a", "mett"} => b.level = 6
  /\ b.type \in {"avcC", "hvcC", "esds"} => b.level = 7
  /\ b.level = 0 <=> b.type \in {"ftyp", "free", "mdat", "open", "wide", "moov"}

Written ==
  {b \in [type : Nests \cup Leaves, level : Nat, count : Nat, bytes : Nat] : IsWritten(b)}

LEMMA LengthBytesType ==
  ASSUME NEW bytes PROVE LengthBytes(bytes) \in Nat
<1> DEFINE S == {shifts \in 0 .. 4 : bytes >= 128 ^ shifts}
<1>1. IsFiniteSet(0 .. 4)
  <2>1. 0 \in Int /\ 4 \in Int
    OBVIOUS
  <2> QED  BY <2>1, FS_Interval
<1>2. IsFiniteSet(S)
  <2>1. S \in SUBSET (0 .. 4)
    OBVIOUS
  <2> QED  BY <1>1, <2>1, FS_Subset
<1>3. Cardinality(S) \in Nat
  BY <1>2, FS_CardinalityType
<1> QED  BY <1>3 DEF LengthBytes

LEMMA EsdType ==
  ASSUME NEW box, box.bytes \in Nat
  PROVE  EsdBytes(box) \in Nat /\ LengthBytes(EsdBytes(box)) \in Nat
BY LengthBytesType DEF EsdBytes, DcdBytes, DsiBytes

LEMMA TrefBytes ==
  ASSUME NEW count \in Nat
  PROVE  /\ count * (8 + 4 * count) \in Nat
         /\ count >= 1 => count * (8 + 4 * count) >= 12
OBVIOUS

(* What is written of a box.                                               *)
LEMMA OwnIs ==
  ASSUME NEW box
  PROVE  /\ box.type \in {"moov", "trak", "mdia", "minf", "gmhd", "dinf",
                          "stbl", "udta", "meta", "ilst"}
              => Own(box) = Header
         /\ box.type = "entry" => Own(box) = WrittenEntry
         /\ box.type = "umeta" => Own(box) = Header + 4
         /\ box.type = "ftyp" => Own(box) = Header + 4 + 4 + 4 * box.count
         /\ box.type \in {"free", "mdat", "open"}
              => Own(box) = Header + box.bytes
         /\ box.type = "wide" => Own(box) = 2 * Header + box.bytes
         /\ box.type = "mvhd" => Own(box) = WrittenMvhd
         /\ box.type = "tkhd" => Own(box) = WrittenTkhd
         /\ box.type = "mdhd" => Own(box) = WrittenMdhd
         /\ box.type = "tref" => Own(box) = WrittenTref(box)
         /\ box.type = "vmhd" => Own(box) = WrittenVmhd
         /\ box.type = "smhd" => Own(box) = WrittenSmhd
         /\ box.type = "nmhd" => Own(box) = WrittenNmhd
         /\ box.type = "gmin" => Own(box) = WrittenGmin
         /\ box.type \in {"hdlr", "hdlr_meta"} => Own(box) = WrittenHdlr(box)
         /\ box.type \in {"mdir", "mdta"} => Own(box) = WrittenMetaHdlr
         /\ box.type = "dref" => Own(box) = WrittenDref
         /\ box.type = "url" => Own(box) = WrittenUrl
         /\ box.type = "stsd" => Own(box) = WrittenStsd
         /\ box.type \in {"avc1", "hvc1"} => Own(box) = WrittenVisual
         /\ box.type = "avcC" => Own(box) = WrittenAvcc(box)
         /\ box.type = "hvcC" => Own(box) = WrittenHvcc(box)
         /\ box.type = "mp4a" => Own(box) = WrittenMp4a
         /\ box.type = "esds" => Own(box) = WrittenEsds(box)
         /\ box.type = "mett" => Own(box) = WrittenMett(box)
         /\ box.type = "text" => Own(box) = WrittenText
         /\ box.type \in {"stts", "stss", "stsc", "stco", "stsz"}
              => Own(box) = WrittenTable(box)
         /\ box.type = "keys" => Own(box) = WrittenKeys(box)
         /\ box.type = "keyed" => Own(box) = WrittenKeyed(box)
         /\ box.type = "data" => Own(box) = WrittenData(box)
         /\ box.type = "xyz" => Own(box) = WrittenXyz(box)
BY DEF Own, Containers, Tables

(* What the dump takes from it behind the header.                          *)
LEMMA TakesIs ==
  ASSUME NEW box
  PROVE  /\ box.type \in {"moov", "trak", "mdia", "minf", "gmhd", "dinf",
                          "stbl", "udta", "meta", "entry", "ilst", "free",
                          "mdat", "open", "wide", "keyed"}
              => Takes(box) = 0
         /\ box.type = "umeta" => Takes(box) = VersionFlags
         /\ box.type = "ftyp" => Takes(box) = TakesFtyp(box)
         /\ box.type = "mvhd" => Takes(box) = TakesMvhd
         /\ box.type = "tkhd" => Takes(box) = TakesTkhd
         /\ box.type = "mdhd" => Takes(box) = TakesMdhd
         /\ box.type = "tref" => Takes(box) = TakesTref(box)
         /\ box.type = "vmhd" => Takes(box) = TakesVmhd
         /\ box.type = "smhd" => Takes(box) = TakesSmhd
         /\ box.type \in {"nmhd", "url"} => Takes(box) = TakesNmhd
         /\ box.type = "gmin" => Takes(box) = TakesGmin
         /\ box.type \in {"hdlr", "hdlr_meta", "mdir", "mdta"}
              => Takes(box) = TakesHdlr
         /\ box.type = "dref" => Takes(box) = TakesDref
         /\ box.type = "stsd" => Takes(box) = TakesStsd
         /\ box.type \in {"avc1", "hvc1"} => Takes(box) = TakesVisual
         /\ box.type = "avcC" => Takes(box) = TakesAvcc(box)
         /\ box.type = "hvcC" => Takes(box) = TakesHvcc(box)
         /\ box.type = "mp4a" => Takes(box) = TakesMp4a
         /\ box.type = "esds" => Takes(box) = TakesEsds(box)
         /\ box.type = "mett" => Takes(box) = TakesMett
         /\ box.type = "text" => Takes(box) = TakesText
         /\ box.type = "stts" => Takes(box) = TakesStts(box)
         /\ box.type = "stss" => Takes(box) = TakesStss(box)
         /\ box.type = "stsc" => Takes(box) = TakesStsc(box)
         /\ box.type = "stco" => Takes(box) = TakesStco(box)
         /\ box.type = "stsz" => Takes(box) = TakesStsz(box)
         /\ box.type = "keys" => Takes(box) = TakesKeys(box)
         /\ box.type = "data" => Takes(box) = TakesData
         /\ box.type = "xyz" => Takes(box) = TakesXyz(box)
BY DEF Takes, Containers, Tables

(* What the reader of the demuxer demands of it.                           *)
LEMMA NeedsIs ==
  ASSUME NEW box
  PROVE  /\ box.type \in {"moov", "trak", "mdia", "minf", "gmhd", "dinf",
                          "stbl", "udta", "meta", "entry", "umeta", "free",
                          "mdat", "open", "wide", "gmin", "dref", "url",
                          "stsd", "text"}
              => Needs(box) = 0
         /\ box.type \in {"ilst", "keyed"} => Needs(box) = NeedsIlst
         /\ box.type = "ftyp" => Needs(box) = NeedsFtyp
         /\ box.type = "mvhd" => Needs(box) = NeedsMvhd
         /\ box.type = "tkhd" => Needs(box) = NeedsTkhd
         /\ box.type = "mdhd" => Needs(box) = NeedsMdhd
         /\ box.type = "tref" => Needs(box) = NeedsTref
         /\ box.type = "vmhd" => Needs(box) = NeedsVmhd
         /\ box.type = "smhd" => Needs(box) = NeedsSmhd
         /\ box.type = "nmhd" => Needs(box) = NeedsNmhd
         /\ box.type \in {"hdlr", "hdlr_meta", "mdir", "mdta"}
              => Needs(box) = NeedsHdlr
         /\ box.type \in {"avc1", "hvc1"} => Needs(box) = NeedsVisual
         /\ box.type = "avcC" => Needs(box) = NeedsAvcc(box)
         /\ box.type = "hvcC" => Needs(box) = NeedsHvcc
         /\ box.type = "mp4a" => Needs(box) = NeedsAudio
         /\ box.type = "esds" => Needs(box) = NeedsEsds(box)
         /\ box.type = "mett" => Needs(box) = NeedsMett
         /\ box.type \in {"stts", "stss", "stsc", "stco", "stsz"}
              => Needs(box) = NeedsTable(box)
         /\ box.type = "keys" => Needs(box) = NeedsKeys(box)
         /\ box.type = "data" => Needs(box) = NeedsData
         /\ box.type = "xyz" => Needs(box) = NeedsXyz(box)
BY DEF Needs, Containers, Tables

(* What the dump takes of a box is in it; what the demuxer needs of it is,  *)
(* with a box inside where one is written; nothing lies between the fields *)
(* of a box and the boxes inside.                                          *)
Fits(box) ==
  /\ Own(box) \in Nat /\ Takes(box) \in Nat /\ Needs(box) \in Nat
  /\ Header + Takes(box) <= Own(box)

Accepted(box, inside) == Header + Needs(box) <= Own(box) + inside

Tight(box) == Own(box) = Header + Takes(box)

LEMMA Lengths ==
  ASSUME NEW box, IsWritten(box)
  PROVE  /\ Fits(box)
         /\ Accepted(box, IF box.type \in {"ilst", "avc1", "hvc1"} THEN 8 ELSE 0)
         /\ box.type \in Nests \cup {"stco", "mvhd"} => Tight(box)
<1>0. NameBytes >= 1 /\ NameBytes \in Nat
  BY RecordingAssumption DEF RecordingAssumption
<1>1. /\ box.type \in Nests \cup Leaves
      /\ box.count \in Nat /\ box.bytes \in Nat
      /\ EsdBytes(box) \in Nat /\ LengthBytes(EsdBytes(box)) \in Nat
  <2>1. box.count \in Nat /\ box.bytes \in Nat
    BY DEF IsWritten
  <2> QED  BY <2>1, EsdType DEF IsWritten
<1>2. ASSUME box.type \in {"moov", "trak", "mdia", "minf", "gmhd", "dinf",
                           "stbl", "udta", "meta"}
      PROVE  Fits(box) /\ Accepted(box, 0) /\ Tight(box)
  <2>1. Own(box) = Header /\ Takes(box) = 0 /\ Needs(box) = 0
    BY <1>2, OwnIs, TakesIs, NeedsIs
  <2> QED  BY <1>1, <2>1 DEF Fits, Accepted, Tight, Header
<1>3. ASSUME box.type = "entry"
      PROVE  Fits(box) /\ Accepted(box, 0) /\ Tight(box)
  <2>1. Own(box) = WrittenEntry /\ Takes(box) = 0 /\ Needs(box) = 0
    BY <1>3, OwnIs, TakesIs, NeedsIs
  <2> QED  BY <1>1, <2>1 DEF Fits, Accepted, Tight, Header, WrittenEntry
<1>4. ASSUME box.type = "ilst"
      PROVE  Fits(box) /\ Accepted(box, 8) /\ Tight(box)
  <2>1. Own(box) = Header /\ Takes(box) = 0 /\ Needs(box) = NeedsIlst
    BY <1>4, OwnIs, TakesIs, NeedsIs
  <2> QED  BY <1>1, <2>1 DEF Fits, Accepted, Tight, Header, NeedsIlst
<1>5. ASSUME box.type = "umeta"
      PROVE  Fits(box) /\ Accepted(box, 0) /\ Tight(box)
  <2>1. Own(box) = Header + 4 /\ Takes(box) = VersionFlags /\ Needs(box) = 0
    BY <1>5, OwnIs, TakesIs, NeedsIs
  <2> QED  BY <1>1, <2>1 DEF Fits, Accepted, Tight, Header, VersionFlags
<1>6. ASSUME box.type = "ftyp"
      PROVE  Fits(box) /\ Accepted(box, 0)
  <2>1. /\ Own(box) = Header + 4 + 4 + 4 * box.count
        /\ Takes(box) = TakesFtyp(box)
        /\ Needs(box) = NeedsFtyp
    BY <1>6, OwnIs, TakesIs, NeedsIs
  <2> QED  BY <1>1, <2>1 DEF Fits, Accepted, Header, TakesFtyp, NeedsFtyp
<1>7. ASSUME box.type \in {"free", "mdat", "open"}
      PROVE  Fits(box) /\ Accepted(box, 0)
  <2>1. Own(box) = Header + box.bytes /\ Takes(box) = 0 /\ Needs(box) = 0
    BY <1>7, OwnIs, TakesIs, NeedsIs
  <2> QED  BY <1>1, <2>1 DEF Fits, Accepted, Header
<1>8. ASSUME box.type = "wide"
      PROVE  Fits(box) /\ Accepted(box, 0)
  <2>1. Own(box) = 2 * Header + box.bytes /\ Takes(box) = 0 /\ Needs(box) = 0
    BY <1>8, OwnIs, TakesIs, NeedsIs
  <2> QED  BY <1>1, <2>1 DEF Fits, Accepted, Header
<1>9. ASSUME box.type = "mvhd"
      PROVE  Fits(box) /\ Accepted(box, 0) /\ Tight(box)
  <2>1. /\ Own(box) = WrittenMvhd
        /\ Takes(box) = TakesMvhd
        /\ Needs(box) = NeedsMvhd
    BY <1>9, OwnIs, TakesIs, NeedsIs
  <2> QED  BY <1>1, <2>1 DEF Fits, Accepted, Tight, Header, WrittenMvhd,
       WrittenTimes, TakesMvhd, TakesTimes, VersionFlags, NeedsMvhd
<1>10. ASSUME box.type = "tkhd"
       PROVE  Fits(box) /\ Accepted(box, 0)
  <2>1. /\ Own(box) = WrittenTkhd
        /\ Takes(box) = TakesTkhd
        /\ Needs(box) = NeedsTkhd
    BY <1>10, OwnIs, TakesIs, NeedsIs
  <2> QED  BY <1>1, <2>1 DEF Fits, Accepted, Header, WrittenTkhd, TakesTkhd,
       TakesTimes, VersionFlags, NeedsTkhd
<1>11. ASSUME box.type = "mdhd"
       PROVE  Fits(box) /\ Accepted(box, 0)
  <2>1. /\ Own(box) = WrittenMdhd
        /\ Takes(box) = TakesMdhd
        /\ Needs(box) = NeedsMdhd
    BY <1>11, OwnIs, TakesIs, NeedsIs
  <2> QED  BY <1>1, <2>1 DEF Fits, Accepted, Header, WrittenMdhd,
       WrittenTimes, TakesMdhd, TakesTimes, VersionFlags, NeedsMdhd
<1>12. ASSUME box.type = "tref"
       PROVE  Fits(box) /\ Accepted(box, 0)
  <2>1. /\ Own(box) = WrittenTref(box)
        /\ Takes(box) = TakesTref(box)
        /\ Needs(box) = NeedsTref
    BY <1>12, OwnIs, TakesIs, NeedsIs
  <2>2. /\ box.count * (8 + 4 * box.count) \in Nat
        /\ box.count * (8 + 4 * box.count) >= 12
    BY <1>1, <1>12, TrefBytes DEF IsWritten
  <2> QED  BY <1>1, <2>2, <2>1 DEF Fits, Accepted, Header, WrittenTref,
       TakesTref, NeedsTref
<1>13. ASSUME box.type = "vmhd"
       PROVE  Fits(box) /\ Accepted(box, 0)
  <2>1. /\ Own(box) = WrittenVmhd
        /\ Takes(box) = TakesVmhd
        /\ Needs(box) = NeedsVmhd
    BY <1>13, OwnIs, TakesIs, NeedsIs
  <2> QED  BY <1>1, <2>1 DEF Fits, Accepted, Header, WrittenVmhd, TakesVmhd,
       VersionFlags, NeedsVmhd
<1>14. ASSUME box.type = "smhd"
       PROVE  Fits(box) /\ Accepted(box, 0)
  <2>1. /\ Own(box) = WrittenSmhd
        /\ Takes(box) = TakesSmhd
        /\ Needs(box) = NeedsSmhd
    BY <1>14, OwnIs, TakesIs, NeedsIs
  <2> QED  BY <1>1, <2>1 DEF Fits, Accepted, Header, WrittenSmhd, TakesSmhd,
       VersionFlags, NeedsSmhd
<1>15. ASSUME box.type = "nmhd"
       PROVE  Fits(box) /\ Accepted(box, 0)
  <2>1. /\ Own(box) = WrittenNmhd
        /\ Takes(box) = TakesNmhd
        /\ Needs(box) = NeedsNmhd
    BY <1>15, OwnIs, TakesIs, NeedsIs
  <2> QED  BY <1>1, <2>1 DEF Fits, Accepted, Header, WrittenNmhd, TakesNmhd,
       VersionFlags, NeedsNmhd
<1>16. ASSUME box.type = "gmin"
       PROVE  Fits(box) /\ Accepted(box, 0)
  <2>1. Own(box) = WrittenGmin /\ Takes(box) = TakesGmin /\ Needs(box) = 0
    BY <1>16, OwnIs, TakesIs, NeedsIs
  <2> QED  BY <1>1, <2>1 DEF Fits, Accepted, Header, WrittenGmin, TakesGmin,
       VersionFlags
<1>17. ASSUME box.type \in {"hdlr", "hdlr_meta"}
       PROVE  Fits(box) /\ Accepted(box, 0)
  <2>1. /\ Own(box) = WrittenHdlr(box)
        /\ Takes(box) = TakesHdlr
        /\ Needs(box) = NeedsHdlr
    BY <1>17, OwnIs, TakesIs, NeedsIs
  <2> QED  BY <1>1, <2>1 DEF Fits, Accepted, Header, WrittenHdlr, TakesHdlr,
       VersionFlags, NeedsHdlr
<1>18. ASSUME box.type \in {"mdir", "mdta"}
       PROVE  Fits(box) /\ Accepted(box, 0)
  <2>1. /\ Own(box) = WrittenMetaHdlr
        /\ Takes(box) = TakesHdlr
        /\ Needs(box) = NeedsHdlr
    BY <1>18, OwnIs, TakesIs, NeedsIs
  <2> QED  BY <1>1, <2>1 DEF Fits, Accepted, Header, WrittenMetaHdlr,
       TakesHdlr, VersionFlags, NeedsHdlr
<1>19. ASSUME box.type = "dref"
       PROVE  Fits(box) /\ Accepted(box, 0) /\ Tight(box)
  <2>1. Own(box) = WrittenDref /\ Takes(box) = TakesDref /\ Needs(box) = 0
    BY <1>19, OwnIs, TakesIs, NeedsIs
  <2> QED  BY <1>1, <2>1 DEF Fits, Accepted, Tight, Header, WrittenDref,
       TakesDref, VersionFlags
<1>20. ASSUME box.type = "url"
       PROVE  Fits(box) /\ Accepted(box, 0)
  <2>1. Own(box) = WrittenUrl /\ Takes(box) = TakesNmhd /\ Needs(box) = 0
    BY <1>20, OwnIs, TakesIs, NeedsIs
  <2> QED  BY <1>1, <2>1 DEF Fits, Accepted, Header, WrittenUrl, TakesNmhd,
       VersionFlags
<1>21. ASSUME box.type = "stsd"
       PROVE  Fits(box) /\ Accepted(box, 0) /\ Tight(box)
  <2>1. Own(box) = WrittenStsd /\ Takes(box) = TakesStsd /\ Needs(box) = 0
    BY <1>21, OwnIs, TakesIs, NeedsIs
  <2> QED  BY <1>1, <2>1 DEF Fits, Accepted, Tight, Header, WrittenStsd,
       TakesStsd, VersionFlags
<1>22. ASSUME box.type \in {"avc1", "hvc1"}
       PROVE  Fits(box) /\ Accepted(box, 8) /\ Tight(box)
  <2>1. /\ Own(box) = WrittenVisual
        /\ Takes(box) = TakesVisual
        /\ Needs(box) = NeedsVisual
    BY <1>22, OwnIs, TakesIs, NeedsIs
  <2> QED  BY <1>1, <2>1 DEF Fits, Accepted, Tight, Header, WrittenVisual,
       TakesVisual, NeedsVisual
<1>23. ASSUME box.type = "avcC"
       PROVE  Fits(box) /\ Accepted(box, 0)
  <2>1. /\ Own(box) = WrittenAvcc(box)
        /\ Takes(box) = TakesAvcc(box)
        /\ Needs(box) = NeedsAvcc(box)
    BY <1>23, OwnIs, TakesIs, NeedsIs
  <2> QED  BY <1>1, <2>1 DEF Fits, Accepted, Header, WrittenAvcc, TakesAvcc,
       NeedsAvcc
<1>24. ASSUME box.type = "hvcC"
       PROVE  Fits(box) /\ Accepted(box, 0)
  <2>1. /\ Own(box) = WrittenHvcc(box)
        /\ Takes(box) = TakesHvcc(box)
        /\ Needs(box) = NeedsHvcc
    BY <1>24, OwnIs, TakesIs, NeedsIs
  <2> QED  BY <1>1, <2>1 DEF Fits, Accepted, Header, WrittenHvcc, TakesHvcc,
       NeedsHvcc
<1>25. ASSUME box.type = "mp4a"
       PROVE  Fits(box) /\ Accepted(box, 0) /\ Tight(box)
  <2>1. /\ Own(box) = WrittenMp4a
        /\ Takes(box) = TakesMp4a
        /\ Needs(box) = NeedsAudio
    BY <1>25, OwnIs, TakesIs, NeedsIs
  <2> QED  BY <1>1, <2>1 DEF Fits, Accepted, Tight, Header, WrittenMp4a,
       TakesMp4a, NeedsAudio
<1>26. ASSUME box.type = "esds"
       PROVE  Fits(box) /\ Accepted(box, 0)
  <2>1. /\ Own(box) = WrittenEsds(box)
        /\ Takes(box) = TakesEsds(box)
        /\ Needs(box) = NeedsEsds(box)
    BY <1>26, OwnIs, TakesIs, NeedsIs
  <2> QED  BY <1>1, <2>1 DEF Fits, Accepted, Header, WrittenEsds, TakesEsds,
       NeedsEsds
<1>27. ASSUME box.type = "mett"
       PROVE  Fits(box) /\ Accepted(box, 0)
  <2>1. /\ Own(box) = WrittenMett(box)
        /\ Takes(box) = TakesMett
        /\ Needs(box) = NeedsMett
    BY <1>27, OwnIs, TakesIs, NeedsIs
  <2> QED  BY <1>1, <2>1 DEF Fits, Accepted, Header, WrittenMett, TakesMett,
       NeedsMett
<1>28. ASSUME box.type = "text"
       PROVE  Fits(box) /\ Accepted(box, 0)
  <2>1. Own(box) = WrittenText /\ Takes(box) = TakesText /\ Needs(box) = 0
    BY <1>28, OwnIs, TakesIs, NeedsIs
  <2> QED  BY <1>1, <2>1 DEF Fits, Accepted, Header, WrittenText, TakesText
<1>29. ASSUME box.type = "stts"
       PROVE  Fits(box) /\ Accepted(box, 0)
  <2>1. /\ Own(box) = WrittenTable(box)
        /\ Takes(box) = TakesStts(box)
        /\ Needs(box) = NeedsTable(box)
    BY <1>29, OwnIs, TakesIs, NeedsIs
  <2> QED  BY <1>1, <1>29, <2>1 DEF Fits, Accepted, Header, WrittenTable,
       NeedsTable, TakesStts, VersionFlags
<1>30. ASSUME box.type = "stss"
       PROVE  Fits(box) /\ Accepted(box, 0)
  <2>1. /\ Own(box) = WrittenTable(box)
        /\ Takes(box) = TakesStss(box)
        /\ Needs(box) = NeedsTable(box)
    BY <1>30, OwnIs, TakesIs, NeedsIs
  <2> QED  BY <1>1, <1>30, <2>1 DEF Fits, Accepted, Header, WrittenTable,
       NeedsTable, TakesStss, VersionFlags
<1>31. ASSUME box.type = "stsc"
       PROVE  Fits(box) /\ Accepted(box, 0)
  <2>1. /\ Own(box) = WrittenTable(box)
        /\ Takes(box) = TakesStsc(box)
        /\ Needs(box) = NeedsTable(box)
    BY <1>31, OwnIs, TakesIs, NeedsIs
  <2> QED  BY <1>1, <1>31, <2>1 DEF Fits, Accepted, Header, WrittenTable,
       NeedsTable, TakesStsc, VersionFlags
<1>32. ASSUME box.type = "stco"
       PROVE  Fits(box) /\ Accepted(box, 0) /\ Tight(box)
  <2>1. /\ Own(box) = WrittenTable(box)
        /\ Takes(box) = TakesStco(box)
        /\ Needs(box) = NeedsTable(box)
    BY <1>32, OwnIs, TakesIs, NeedsIs
  <2> QED  BY <1>1, <1>32, <2>1 DEF Fits, Accepted, Tight, Header,
       WrittenTable, NeedsTable, TakesStco, VersionFlags
<1>33. ASSUME box.type = "stsz"
       PROVE  Fits(box) /\ Accepted(box, 0)
  <2>1. /\ Own(box) = WrittenTable(box)
        /\ Takes(box) = TakesStsz(box)
        /\ Needs(box) = NeedsTable(box)
    BY <1>33, OwnIs, TakesIs, NeedsIs
  <2> QED  BY <1>1, <1>33, <2>1 DEF Fits, Accepted, Header, WrittenTable,
       NeedsTable, TakesStsz, VersionFlags
<1>34. ASSUME box.type = "keys"
       PROVE  Fits(box) /\ Accepted(box, 0)
  <2>1. /\ Own(box) = WrittenKeys(box)
        /\ Takes(box) = TakesKeys(box)
        /\ Needs(box) = NeedsKeys(box)
    BY <1>34, OwnIs, TakesIs, NeedsIs
  <2> QED  BY <1>1, <2>1 DEF Fits, Accepted, Header, WrittenKeys, TakesKeys,
       NeedsKeys, VersionFlags
<1>35. ASSUME box.type = "keyed"
       PROVE  Fits(box) /\ Accepted(box, 0)
  <2>1. /\ Own(box) = WrittenKeyed(box)
        /\ Takes(box) = 0
        /\ Needs(box) = NeedsIlst
    BY <1>35, OwnIs, TakesIs, NeedsIs
  <2>2. box.count >= 1
    BY <1>35 DEF IsWritten
  <2> QED  BY <1>1, <2>2, <2>1 DEF Fits, Accepted, Header, WrittenKeyed,
       NeedsIlst
<1>36. ASSUME box.type = "data"
       PROVE  Fits(box) /\ Accepted(box, 0)
  <2>1. /\ Own(box) = WrittenData(box)
        /\ Takes(box) = TakesData
        /\ Needs(box) = NeedsData
    BY <1>36, OwnIs, TakesIs, NeedsIs
  <2>2. box.bytes >= 1
    BY <1>36 DEF IsWritten
  <2> QED  BY <1>1, <2>2, <2>1 DEF Fits, Accepted, Header, WrittenData,
       TakesData, NeedsData
<1>37. ASSUME box.type = "xyz"
       PROVE  Fits(box) /\ Accepted(box, 0)
  <2>1. /\ Own(box) = WrittenXyz(box)
        /\ Takes(box) = TakesXyz(box)
        /\ Needs(box) = NeedsXyz(box)
    BY <1>37, OwnIs, TakesIs, NeedsIs
  <2> QED  BY <1>1, <2>1 DEF Fits, Accepted, Header, WrittenXyz, TakesXyz,
       NeedsXyz
<1> QED  BY <1>1, <1>2, <1>3, <1>4, <1>5, <1>6, <1>7, <1>8, <1>9, <1>10,
       <1>11, <1>12, <1>13, <1>14, <1>15, <1>16, <1>17, <1>18, <1>19, <1>20,
       <1>21, <1>22, <1>23, <1>24, <1>25, <1>26, <1>27, <1>28, <1>29, <1>30,
       <1>31, <1>32, <1>33, <1>34, <1>35, <1>36, <1>37 DEF Nests, Nesting,
       Leaves, Containers

-----------------------------------------------------------------------------
(* In what order the boxes are written.                                    *)

Configs == {"avcC", "hvcC", "esds"}
Entries == {"avc1", "hvc1", "mp4a", "mett", "text"}
Datas   == {"mdat", "wide", "open"}

(* What the moov may end with.                                             *)
Ends == {"mvhd", "stco", "keyed", "data", "xyz"}

(* Box b comes next to box a in the file of recording r: as deep at most,  *)
(* or inside of it; what a reader has to remember was the box before.      *)
MayFollow(r, a, b) ==
  /\ b.level <= a.level \/ (a.type \in Nests /\ b.level = a.level + 1)
  /\ a.type \in {"moov", "stsd", "avc1", "hvc1", "ilst"} => b.level = a.level + 1
  /\ a.type = "stsd" => b.type \in Entries
  /\ a.type = "meta" => (b.type = "mdta" /\ b.level = a.level + 1)
  /\ a.type \in {"avc1", "hvc1", "mp4a"} => b.type \in Configs
  /\ a.type \in Configs \cup {"mett"} => b.type = "stts"
  /\ a.type = "text" => (a.level = 6 => b.type = "stts")
  /\ b.type = "keyed" => (a.type = "keys" /\ a.count = b.count)
  /\ b.type = "keys" => a.type = "mdta"
  /\ b.type = "ilst" => a.type = "mdir"
  /\ b.type = "moov" => \/ a.type = "ftyp" /\ r.moov = "front"
                        \/ a.type \in Datas /\ r.moov = "behind"
  /\ b.type # "ftyp" /\ a.type # "open"
  /\ a.type = "wide" => (b.type = "moov" /\ r.mdat = "wide")
  /\ b.type \in Datas => a.type = "free"
  /\ b.type = "free" => a.type # "moov"
  /\ a.level > 0 => (b.level = 0 => (b.type = "free" /\ a.type \in Ends /\ r.moov = "front"))

Chained(r, list) ==
  /\ list \in Seq(Written)
  /\ \A i \in 1 .. Len(list) - 1 : MayFollow(r, list[i], list[i + 1])

(* Boxes in their order, the first and the last of them of such a kind.    *)
Run(r, list, first, final) ==
  /\ Chained(r, list) /\ Len(list) >= 1
  /\ list[1] \in first /\ list[Len(list)] \in final

Option(r, list, first, final) == list = <<>> \/ Run(r, list, first, final)

Meet(r, final, first) == \A a \in final, b \in first : MayFollow(r, a, b)

LEMMA RunJoin ==
  ASSUME NEW r, NEW a, NEW b, NEW first, NEW final, NEW next, NEW end,
         Run(r, a, first, final), Run(r, b, next, end), Meet(r, final, next)
  PROVE  Run(r, a \o b, first, end)
<1> DEFINE c == a \o b
<1>1. /\ a \in Seq(Written) /\ b \in Seq(Written) /\ Len(a) \in Nat /\ Len(b) \in Nat
      /\ Len(a) >= 1 /\ Len(b) >= 1
  BY DEF Run, Chained
<1>2. /\ c \in Seq(Written) /\ Len(c) = Len(a) + Len(b)
      /\ \A i \in 1 .. Len(a) : c[i] = a[i]
      /\ \A i \in 1 .. Len(b) : c[Len(a) + i] = b[i]
  BY <1>1
<1>3. ASSUME NEW i \in 1 .. Len(c) - 1 PROVE MayFollow(r, c[i], c[i + 1])
  <2>1. CASE i < Len(a)
    <3>1. i \in 1 .. Len(a) - 1 /\ c[i] = a[i] /\ c[i + 1] = a[i + 1]
      BY <1>1, <1>2, <2>1
    <3> QED  BY <3>1 DEF Run, Chained
  <2>2. CASE i = Len(a)
    <3>1. c[i] = a[Len(a)] /\ c[i + 1] = b[1]
      BY <1>1, <1>2, <2>2
    <3> QED  BY <3>1 DEF Run, Meet
  <2>3. CASE i > Len(a)
    <3>1. /\ i - Len(a) \in 1 .. Len(b) - 1
          /\ c[i] = b[i - Len(a)] /\ c[i + 1] = b[(i - Len(a)) + 1]
      BY <1>1, <1>2, <2>3
    <3> QED  BY <3>1 DEF Run, Chained
  <2> QED  BY <1>1, <1>2, <2>1, <2>2, <2>3
<1>4. c[1] = a[1] /\ c[Len(c)] = b[Len(b)]
  BY <1>1, <1>2
<1>5. Run(r, c, first, end)
  <2> HIDE DEF c
  <2>1. Chained(r, c)
    BY <1>2, <1>3 DEF Chained
  <2> QED  BY <1>1, <1>2, <1>4, <2>1 DEF Run
<1> QED  BY <1>5

LEMMA RunWiden ==
  ASSUME NEW r, NEW a, NEW first, NEW final, NEW next, NEW end,
         Run(r, a, first, final), first \subseteq next, final \subseteq end
  PROVE  Run(r, a, next, end)
BY DEF Run

LEMMA JoinEmpty ==
  ASSUME NEW list \in Seq(Written)
  PROVE  <<>> \o list = list /\ list \o <<>> = list
OBVIOUS

LEMMA RunMore ==
  ASSUME NEW r, NEW a, NEW b, NEW first, NEW final, NEW next, NEW end,
         Run(r, a, first, final), Option(r, b, next, end), Meet(r, final, next)
  PROVE  Run(r, a \o b, first, final \cup end)
<1>1. CASE b = <<>>
  <2>0. a \in Seq(Written)
    BY DEF Run, Chained
  <2>1. a \o b = a
    BY <1>1, <2>0
  <2> QED  BY <2>1 DEF Run
<1>2. CASE Run(r, b, next, end)
  <2>1. Run(r, a \o b, first, end)
    BY <1>2, RunJoin
  <2> QED  BY <2>1 DEF Run
<1> QED  BY <1>1, <1>2 DEF Option

LEMMA OptionMore ==
  ASSUME NEW r, NEW a, NEW b, NEW first, NEW final, NEW next, NEW end,
         Option(r, a, first, final), Option(r, b, next, end), Meet(r, final, next)
  PROVE  Option(r, a \o b, first \cup next, final \cup end)
<1>1. CASE a = <<>>
  <2>1. CASE b = <<>>
    <3>1. a \o b = <<>>
      BY <1>1, <2>1
    <3> QED  BY <3>1 DEF Option
  <2>2. CASE Run(r, b, next, end)
    <3>1. b \in Seq(Written)
      BY <2>2 DEF Run, Chained
    <3>2. a \o b = b
      BY <1>1, <3>1
    <3> QED  BY <2>2, <3>2 DEF Option, Run
  <2> QED  BY <2>1, <2>2 DEF Option
<1>2. CASE Run(r, a, first, final)
  <2>1. Run(r, a \o b, first, final \cup end)
    BY <1>2, RunMore
  <2> QED  BY <2>1 DEF Option, Run
<1> QED  BY <1>1, <1>2 DEF Option

LEMMA WhenRun ==
  ASSUME NEW r, NEW a, NEW first, NEW final, NEW holds \in BOOLEAN,
         holds => Run(r, a, first, final)
  PROVE  Option(r, When(holds, a), first, final)
BY DEF Option, When

LEMMA RunMany ==
  ASSUME NEW r, NEW seqs \in Lists(Lists(Written)), NEW first, NEW final,
         \A i \in 1 .. Len(seqs) : Run(r, seqs[i], first, final),
         Meet(r, final, first)
  PROVE  /\ Option(r, FlattenSeq(seqs), first, final)
         /\ Len(seqs) >= 1 => Run(r, FlattenSeq(seqs), first, final)
<1> DEFINE n == Len(seqs)
           Upto(k) == FlattenSeq(SubSeq(seqs, 1, k))
           Good(k) == /\ Option(r, Upto(k), first, final)
                      /\ k >= 1 => Run(r, Upto(k), first, final)
           P == {k \in 0 .. n : Good(k)}
<1>1. n \in Nat
  BY DEF Lists
<1>2. 0 \in P
  <2>1. Upto(0) = <<>>
    BY FlattenFirst, FlattenEmpty
  <2> HIDE DEF Upto
  <2> QED  BY <1>1, <2>1 DEF Option
<1>3. ASSUME NEW k \in 1 .. n, k - 1 \in P PROVE k \in P
  <2>1. Upto(k) = Upto(k - 1) \o seqs[k]
    BY FlattenUpto
  <2>2. Run(r, seqs[k], first, final)
    OBVIOUS
  <2>3. Option(r, Upto(k - 1), first, final)
    BY <1>3
  <2> HIDE DEF Upto
  <2>4. CASE Upto(k - 1) = <<>>
    <3>0. seqs[k] \in Seq(Written)
      BY <1>1 DEF Lists
    <3>1. Upto(k) = seqs[k]
      BY <2>1, <2>4, <3>0, JoinEmpty
    <3> QED  BY <2>2, <3>1 DEF Option
  <2>5. CASE Run(r, Upto(k - 1), first, final)
    <3>1. Run(r, Upto(k), first, final)
      BY <2>1, <2>2, <2>5, RunJoin
    <3> QED  BY <3>1 DEF Option
  <2> QED  BY <2>3, <2>4, <2>5 DEF Option
<1>4. n \in P
  <2> HIDE DEF P
  <2>1. \A k \in 0 .. n : k \in P
    BY <1>1, <1>2, <1>3, Induction
  <2> QED  BY <1>1, <2>1
<1>5. Upto(n) = FlattenSeq(seqs)
  BY FlattenFirst
<1>6. Good(n)
  BY <1>4
<1> HIDE DEF Upto
<1> QED  BY <1>5, <1>6

-----------------------------------------------------------------------------
(* The writers write in that order.                                        *)

Kind(types, level) == {b \in Written : b.type \in types /\ b.level = level}

Made(type, level, count, bytes) ==
  [type |-> type, level |-> level, count |-> count, bytes |-> bytes]

NamesIn(count, bytes) == bytes = count * NameBytes

LEMMA BoxIs ==
  ASSUME NEW type, type \in Nests \cup Leaves, NEW level \in Nat, NEW count \in Nat,
         NEW bytes \in Nat, NEW types, type \in types,
         type \in {"tref", "keyed"} => count >= 1,
         type = "keyed" => NamesIn(count, bytes),
         type = "data" => bytes >= 1,
         type = "stsd" => count = 1 /\ level = 5,
         type = "stts" => level = 5,
         type \in {"avc1", "hvc1", "mp4a", "mett"} => level = 6,
         type \in Configs => level = 7,
         level = 0 <=> type \in {"ftyp", "free", "mdat", "open", "wide", "moov"}
  PROVE  /\ Made(type, level, count, bytes) \in Kind(types, level)
         /\ Made(type, level, count, bytes).type = type
         /\ Made(type, level, count, bytes).count = count
         /\ Box(type, level, count, bytes) = <<Made(type, level, count, bytes)>>
<1> DEFINE b == Made(type, level, count, bytes)
<1>1. /\ b.type = type /\ b.level = level /\ b.count = count /\ b.bytes = bytes
      /\ b \in [type : Nests \cup Leaves, level : Nat, count : Nat, bytes : Nat]
  BY DEF Made
<1>2. Box(type, level, count, bytes) = <<b>>
  BY DEF Box, Made
<1> HIDE DEF b
<1>3. IsWritten(b)
  BY <1>1 DEF IsWritten, Configs, NamesIn
<1>4. b \in Kind(types, level)
  BY <1>1, <1>3 DEF Kind, Written
<1> QED  BY <1>1, <1>2, <1>4 DEF b

(* A box alone.                                                            *)
LEMMA OneRun ==
  ASSUME NEW r, NEW b, NEW S, b \in S, S \subseteq Written
  PROVE  Run(r, <<b>>, S, S)
<1> DEFINE list == <<b>>
<1>1. list \in Seq(Written) /\ Len(list) = 1 /\ list[1] = b
  OBVIOUS
<1> HIDE DEF list
<1>2. Run(r, list, S, S)
  BY <1>1 DEF Run, Chained
<1> QED  BY <1>2 DEF list

LEMMA PlainRun ==
  ASSUME NEW r, NEW type, type \in Nests \cup Leaves, NEW level \in Nat, NEW types,
         type \in types,
         type \notin {"tref", "keyed", "data", "stsd"},
         type = "stts" => level = 5,
         type \in {"avc1", "hvc1", "mp4a", "mett"} => level = 6,
         type \in Configs => level = 7,
         level = 0 <=> type \in {"ftyp", "free", "mdat", "open", "wide", "moov"}
  PROVE  Run(r, Plain(type, level), Kind(types, level), Kind(types, level))
<1> DEFINE b == Made(type, level, 0, 0)
<1>1. b \in Kind(types, level) /\ Box(type, level, 0, 0) = <<b>>
  BY BoxIs
<1> HIDE DEF b
<1> QED  BY <1>1, OneRun DEF Plain, Kind

LEMMA BoxRun ==
  ASSUME NEW r, NEW type, type \in Nests \cup Leaves, NEW level \in Nat,
         NEW count \in Nat, NEW bytes \in Nat, NEW types, type \in types,
         type \notin {"keyed"},
         type = "tref" => count >= 1,
         type = "data" => bytes >= 1,
         type = "stsd" => count = 1 /\ level = 5,
         type = "stts" => level = 5,
         type \in {"avc1", "hvc1", "mp4a", "mett"} => level = 6,
         type \in Configs => level = 7,
         level = 0 <=> type \in {"ftyp", "free", "mdat", "open", "wide", "moov"}
  PROVE  Run(r, Box(type, level, count, bytes), Kind(types, level), Kind(types, level))
<1> DEFINE b == Made(type, level, count, bytes)
<1>1. b \in Kind(types, level) /\ Box(type, level, count, bytes) = <<b>>
  BY BoxIs
<1> HIDE DEF b
<1> QED  BY <1>1, OneRun DEF Kind

MetaFirst(level) == Kind({"meta", "udta"}, level)

MetaEnd(level) == {b \in Written : b.type \in {"keyed", "data", "xyz"} /\ b.level > level}

LEMMA MetaBoxesRun ==
  ASSUME NEW r, NEW level \in Nat \ {0}, NEW keys \in Nat \ {0}
  PROVE  Run(r, MetaBoxes(level, keys), Kind({"meta"}, level), MetaEnd(level))
<1> DEFINE meta == Plain("meta", level)
           mdta == Plain("mdta", level + 1)
           names == Box("keys", level + 1, keys, keys * NameBytes)
           values == Box("keyed", level + 1, keys, keys * NameBytes)
           Named == {b \in Written : b.type = "keys" /\ b.level = level + 1 /\ b.count = keys}
           Valued == {b \in Written : b.type = "keyed" /\ b.level = level + 1 /\ b.count = keys}
<1>0. level + 1 \in Nat /\ level + 1 # 0
  OBVIOUS
<1>1. Run(r, meta, Kind({"meta"}, level), Kind({"meta"}, level))
  BY PlainRun DEF Nests, Nesting, Containers, Configs
<1>2. Run(r, mdta, Kind({"mdta"}, level + 1), Kind({"mdta"}, level + 1))
  BY <1>0, PlainRun DEF Leaves, Configs
<1>3. keys * NameBytes \in Nat
  BY RecordingAssumption DEF RecordingAssumption
<1>4. Run(r, names, Named, Named)
  <2> DEFINE deeper == level + 1
             total == keys * NameBytes
             b == Made("keys", deeper, keys, total)
  <2>1. deeper \in Nat /\ deeper # 0 /\ total \in Nat /\ NamesIn(keys, total)
    BY <1>0, <1>3 DEF NamesIn
  <2> HIDE DEF deeper, total
  <2>0. "keys" \in Nests \cup Leaves
    BY DEF Leaves
  <2>2. /\ b \in Kind({"keys"}, deeper) /\ b.type = "keys" /\ b.count = keys
        /\ Box("keys", deeper, keys, total) = <<b>>
    BY <2>0, <2>1, BoxIs DEF Configs
  <2> HIDE DEF b
  <2>3. b \in Named
    BY <2>2 DEF Kind, deeper
  <2>4. Run(r, <<b>>, Named, Named)
    BY <2>3, OneRun
  <2> QED  BY <2>2, <2>4 DEF deeper, total
<1>5. Run(r, values, Valued, Valued)
  <2> DEFINE deeper == level + 1
             total == keys * NameBytes
             b == Made("keyed", deeper, keys, total)
  <2>1. deeper \in Nat /\ deeper # 0 /\ total \in Nat /\ NamesIn(keys, total)
    BY <1>0, <1>3 DEF NamesIn
  <2> HIDE DEF deeper, total
  <2>0. "keyed" \in Nests \cup Leaves
    BY DEF Leaves
  <2>2. /\ b \in Kind({"keyed"}, deeper) /\ b.type = "keyed" /\ b.count = keys
        /\ Box("keyed", deeper, keys, total) = <<b>>
    BY <2>0, <2>1, BoxIs DEF Configs
  <2> HIDE DEF b
  <2>3. b \in Valued
    BY <2>2 DEF Kind, deeper
  <2>4. Run(r, <<b>>, Valued, Valued)
    BY <2>3, OneRun
  <2> QED  BY <2>2, <2>4 DEF deeper, total
<1>6. MetaBoxes(level, keys) = ((meta \o mdta) \o names) \o values
  BY DEF MetaBoxes
<1> HIDE DEF meta, mdta, names, values
<1>7. Meet(r, Kind({"meta"}, level), Kind({"mdta"}, level + 1))
  BY DEF Meet, MayFollow, Kind, Nests, Nesting, Configs, Datas
<1>8. Meet(r, Kind({"mdta"}, level + 1), Named)
  BY DEF Meet, MayFollow, Kind, Configs, Datas
<1>9. Meet(r, Named, Valued)
  BY DEF Meet, MayFollow, Configs, Datas
<1>10. Run(r, meta \o mdta, Kind({"meta"}, level), Kind({"mdta"}, level + 1))
  BY <1>1, <1>2, <1>7, RunJoin
<1>11. Run(r, (meta \o mdta) \o names, Kind({"meta"}, level), Named)
  BY <1>4, <1>8, <1>10, RunJoin
<1>12. Run(r, MetaBoxes(level, keys), Kind({"meta"}, level), Valued)
  BY <1>5, <1>6, <1>9, <1>11, RunJoin
<1>13. Valued \subseteq MetaEnd(level)
  BY DEF MetaEnd
<1> HIDE DEF Named, Valued
<1> QED  BY <1>12, <1>13, RunWiden
LEMMA Known ==
  /\ "moov" \in Nests \cup Leaves /\ "trak" \in Nests \cup Leaves
  /\ "mdia" \in Nests \cup Leaves /\ "minf" \in Nests \cup Leaves
  /\ "gmhd" \in Nests \cup Leaves /\ "dinf" \in Nests \cup Leaves
  /\ "stbl" \in Nests \cup Leaves /\ "udta" \in Nests \cup Leaves
  /\ "dref" \in Nests \cup Leaves /\ "stsd" \in Nests \cup Leaves
  /\ "umeta" \in Nests \cup Leaves /\ "ilst" \in Nests \cup Leaves
  /\ "entry" \in Nests \cup Leaves /\ "avc1" \in Nests \cup Leaves
  /\ "hvc1" \in Nests \cup Leaves /\ "mp4a" \in Nests \cup Leaves
  /\ "mvhd" \in Nests \cup Leaves /\ "tkhd" \in Nests \cup Leaves
  /\ "tref" \in Nests \cup Leaves /\ "mdhd" \in Nests \cup Leaves
  /\ "hdlr" \in Nests \cup Leaves /\ "hdlr_meta" \in Nests \cup Leaves
  /\ "mdir" \in Nests \cup Leaves /\ "vmhd" \in Nests \cup Leaves
  /\ "smhd" \in Nests \cup Leaves /\ "nmhd" \in Nests \cup Leaves
  /\ "gmin" \in Nests \cup Leaves /\ "text" \in Nests \cup Leaves
  /\ "url" \in Nests \cup Leaves /\ "avcC" \in Nests \cup Leaves
  /\ "hvcC" \in Nests \cup Leaves /\ "esds" \in Nests \cup Leaves
  /\ "mett" \in Nests \cup Leaves /\ "stts" \in Nests \cup Leaves
  /\ "stss" \in Nests \cup Leaves /\ "stsc" \in Nests \cup Leaves
  /\ "stsz" \in Nests \cup Leaves /\ "stco" \in Nests \cup Leaves
  /\ "data" \in Nests \cup Leaves /\ "xyz" \in Nests \cup Leaves
  /\ "ftyp" \in Nests \cup Leaves /\ "free" \in Nests \cup Leaves
  /\ "mdat" \in Nests \cup Leaves /\ "wide" \in Nests \cup Leaves
  /\ "open" \in Nests \cup Leaves
BY DEF Nests, Nesting, Containers, Leaves

(* An item of an 'ilst'.                                                   *)
LEMMA EntryRun ==
  ASSUME NEW r, NEW level \in Nat \ {0}
  PROVE  Run(r, Plain("entry", level + 2) \o Box("data", level + 3, 0, NameBytes),
             Kind({"entry"}, level + 2), Kind({"data"}, level + 3))
<1> DEFINE entry == Plain("entry", level + 2)
           data == Box("data", level + 3, 0, NameBytes)
<1>a. level + 1 \in Nat /\ level + 1 # 0 /\ level + 2 \in Nat /\ level + 2 # 0
      /\ level + 3 \in Nat /\ level + 3 # 0
  OBVIOUS
<1>b. NameBytes \in Nat /\ NameBytes >= 1
  BY RecordingAssumption DEF RecordingAssumption
<1>1. Run(r, entry, Kind({"entry"}, level + 2), Kind({"entry"}, level + 2))
  BY <1>a, Known, PlainRun DEF Configs
<1>2. Run(r, data, Kind({"data"}, level + 3), Kind({"data"}, level + 3))
  BY <1>a, <1>b, Known, BoxRun DEF Configs
<1>3. Plain("entry", level + 2) \o Box("data", level + 3, 0, NameBytes) = entry \o data
  BY DEF Plain
<1> HIDE DEF entry, data
<1>4. Meet(r, Kind({"entry"}, level + 2), Kind({"data"}, level + 3))
  BY DEF Meet, MayFollow, Kind, Nests, Nesting, Containers, Configs, Datas, Entries, Ends
<1>5. Run(r, entry \o data, Kind({"entry"}, level + 2), Kind({"data"}, level + 3))
  BY <1>1, <1>2, <1>4, RunJoin
<1> QED  BY <1>3, <1>5

(* The 'meta' of an 'udta'.                                                *)
LEMMA MetaUdtaBoxesRun ==
  ASSUME NEW r, NEW level \in Nat \ {0}, NEW tags \in Nat \ {0}
  PROVE  Run(r, MetaUdtaBoxes(level, tags), Kind({"umeta"}, level), MetaEnd(level))
<1> DEFINE umeta == Plain("umeta", level)
           mdir == Plain("mdir", level + 1)
           ilst == Plain("ilst", level + 1)
           items == Repeat(Plain("entry", level + 2) \o Box("data", level + 3, 0, NameBytes), tags)
<1>a. level + 1 \in Nat /\ level + 1 # 0 /\ level + 2 \in Nat /\ level + 2 # 0
      /\ level + 3 \in Nat /\ level + 3 # 0
  OBVIOUS
<1>b. NameBytes \in Nat /\ NameBytes >= 1
  BY RecordingAssumption DEF RecordingAssumption
<1>1. Run(r, umeta, Kind({"umeta"}, level), Kind({"umeta"}, level))
  BY Known, PlainRun DEF Configs
<1>2. Run(r, mdir, Kind({"mdir"}, level + 1), Kind({"mdir"}, level + 1))
  BY <1>a, Known, PlainRun DEF Configs
<1>3. Run(r, ilst, Kind({"ilst"}, level + 1), Kind({"ilst"}, level + 1))
  BY <1>a, Known, PlainRun DEF Configs
<1>4. Run(r, items, Kind({"entry"}, level + 2), Kind({"data"}, level + 3))
  <2> DEFINE item == Plain("entry", level + 2) \o Box("data", level + 3, 0, NameBytes)
             seqs == [i \in 1 .. tags |-> item]
  <2>1. Run(r, item, Kind({"entry"}, level + 2), Kind({"data"}, level + 3))
    BY EntryRun
  <2> HIDE DEF item
  <2>2. item \in Seq(Written)
    BY <2>1 DEF Run, Chained
  <2>3. seqs \in Lists(Lists(Written)) /\ Len(seqs) = tags
        /\ \A i \in 1 .. Len(seqs) : seqs[i] = item
    BY <2>2 DEF Lists
  <2>4. Meet(r, Kind({"data"}, level + 3), Kind({"entry"}, level + 2))
    BY DEF Meet, MayFollow, Kind, Nests, Nesting, Containers, Configs, Datas, Entries, Ends
  <2>5. items = FlattenSeq(seqs)
    BY DEF Repeat, item
  <2> HIDE DEF seqs, items
  <2>6. Run(r, FlattenSeq(seqs), Kind({"entry"}, level + 2), Kind({"data"}, level + 3))
    BY <2>1, <2>3, <2>4, RunMany
  <2> QED  BY <2>5, <2>6
<1>5. MetaUdtaBoxes(level, tags) = ((umeta \o mdir) \o ilst) \o items
  BY DEF MetaUdtaBoxes
<1> HIDE DEF umeta, mdir, ilst, items
<1>6. Meet(r, Kind({"umeta"}, level), Kind({"mdir"}, level + 1))
  BY DEF Meet, MayFollow, Kind, Nests, Nesting, Containers, Configs, Datas, Entries, Ends
<1>7. Run(r, umeta \o mdir, Kind({"umeta"}, level), Kind({"mdir"}, level + 1))
  BY <1>1, <1>2, <1>6, RunJoin
<1>8. Meet(r, Kind({"mdir"}, level + 1), Kind({"ilst"}, level + 1))
  BY DEF Meet, MayFollow, Kind, Nests, Nesting, Containers, Configs, Datas, Entries, Ends
<1>9. Run(r, (umeta \o mdir) \o ilst, Kind({"umeta"}, level), Kind({"ilst"}, level + 1))
  BY <1>7, <1>3, <1>8, RunJoin
<1>10. Meet(r, Kind({"ilst"}, level + 1), Kind({"entry"}, level + 2))
  BY DEF Meet, MayFollow, Kind, Nests, Nesting, Containers, Configs, Datas, Entries, Ends
<1>11. Run(r, ((umeta \o mdir) \o ilst) \o items, Kind({"umeta"}, level),
           Kind({"data"}, level + 3))
  BY <1>9, <1>4, <1>10, RunJoin
<1>12. /\ Kind({"umeta"}, level) \subseteq Kind({"umeta"}, level)
       /\ Kind({"data"}, level + 3) \subseteq MetaEnd(level)
  BY DEF MetaEnd, Kind
<1> QED  BY <1>5, <1>11, <1>12, RunWiden


LEMMA MetadataBoxesRun ==
  ASSUME NEW r, NEW level \in Nat \ {0}, NEW keys \in Nat, NEW tags \in Nat,
         NEW located \in BOOLEAN
  PROVE  Option(r, MetadataBoxes(level, keys, tags, located),
                MetaFirst(level), MetaEnd(level))
<1> DEFINE udta == Plain("udta", level)
           meta == MetaUdtaBoxes(level + 1, tags)
           xyz  == Box("xyz", level + 1, 0, NameBytes)
           tagged == When(tags > 0, meta)
           placed == When(located, xyz)
           inside == (udta \o tagged) \o placed
           keyed  == When(keys > 0, MetaBoxes(level, keys))
           other  == When(tags > 0 \/ located, inside)
<1>a. level + 1 \in Nat \ {0} /\ level + 1 \in Nat /\ level + 1 # 0
  OBVIOUS
<1>b. NameBytes \in Nat /\ NameBytes >= 1
  BY RecordingAssumption DEF RecordingAssumption
<1>1. Run(r, udta, Kind({"udta"}, level), Kind({"udta"}, level))
  BY Known, PlainRun DEF Configs
<1>2. tags > 0 => Run(r, meta, Kind({"umeta"}, level + 1), MetaEnd(level + 1))
  BY <1>a, MetaUdtaBoxesRun
<1>3. Run(r, xyz, Kind({"xyz"}, level + 1), Kind({"xyz"}, level + 1))
  BY <1>a, <1>b, Known, BoxRun DEF Configs
<1>4. Option(r, keyed, Kind({"meta"}, level), MetaEnd(level))
  <2>1. keys > 0 => Run(r, MetaBoxes(level, keys), Kind({"meta"}, level), MetaEnd(level))
    BY MetaBoxesRun
  <2> QED  BY <2>1 DEF Option, When
<1>5. MetadataBoxes(level, keys, tags, located) = keyed \o other
  BY DEF MetadataBoxes
<1> HIDE DEF udta, meta, xyz, keyed
<1>6. Meet(r, Kind({"udta"}, level), Kind({"umeta"}, level + 1))
  BY DEF Meet, MayFollow, Kind, Nests, Nesting, Containers, Configs, Datas, Entries, Ends
<1>7. Meet(r, Kind({"udta"}, level), Kind({"xyz"}, level + 1))
  BY DEF Meet, MayFollow, Kind, Nests, Nesting, Containers, Configs, Datas, Entries, Ends
<1>8. Meet(r, MetaEnd(level), Kind({"udta"}, level))
  <2>1. \A a \in Written : a.level \in Nat
    BY DEF Written
  <2> QED  BY <2>1 DEF Meet, MayFollow, Kind, MetaEnd, Nests, Nesting, Containers,
       Configs, Datas, Entries, Ends
<1>9. Meet(r, MetaEnd(level + 1), Kind({"xyz"}, level + 1))
  <2>1. \A a \in Written : a.level \in Nat
    BY DEF Written
  <2> QED  BY <2>1 DEF Meet, MayFollow, Kind, MetaEnd, Nests, Nesting, Containers,
       Configs, Datas, Entries, Ends
<1>10. ASSUME tags > 0 \/ located
      PROVE  Run(r, inside, Kind({"udta"}, level), MetaEnd(level))
  <2>1. Kind({"xyz"}, level + 1) \subseteq MetaEnd(level)
    BY <1>a DEF Kind, MetaEnd
  <2>2. CASE tags > 0
    <3>1. Run(r, udta \o tagged, Kind({"udta"}, level), MetaEnd(level + 1))
      BY <1>1, <1>2, <1>6, <2>2, RunJoin DEF When
    <3> DEFINE before == udta \o tagged
    <3> HIDE DEF before
    <3>2. CASE located
      <4>1. placed = xyz
        BY <3>2 DEF When
      <4>2. Run(r, before, Kind({"udta"}, level), MetaEnd(level + 1))
        BY <3>1 DEF before
      <4>3. Run(r, before \o xyz, Kind({"udta"}, level), Kind({"xyz"}, level + 1))
        BY <1>3, <1>9, <4>2, RunJoin
      <4>4. Run(r, before \o xyz, Kind({"udta"}, level), MetaEnd(level))
        BY <2>1, <4>3, RunWiden
      <4> QED  BY <4>1, <4>4 DEF before
    <3>3. CASE ~located
      <4>1. placed = <<>> /\ before \in Seq(Written)
        BY <3>1, <3>3 DEF When, Run, Chained, before
      <4>2. before \o placed = before
        BY <4>1, JoinEmpty
      <4>3. MetaEnd(level + 1) \subseteq MetaEnd(level)
        BY DEF MetaEnd, Written, IsWritten
      <4> QED  BY <3>1, <4>2, <4>3, RunWiden DEF before
    <3> QED  BY <3>2, <3>3
  <2>3. CASE ~(tags > 0)
    <3>1. tagged = <<>> /\ placed = xyz /\ udta \in Seq(Written)
      BY <1>1, <1>10, <2>3 DEF When, Run, Chained
    <3>2. udta \o tagged = udta
      BY <3>1, JoinEmpty
    <3>3. Run(r, udta \o xyz, Kind({"udta"}, level), Kind({"xyz"}, level + 1))
      BY <1>1, <1>3, <1>7, RunJoin
    <3>4. Run(r, udta \o xyz, Kind({"udta"}, level), MetaEnd(level))
      BY <2>1, <3>3, RunWiden
    <3> QED  BY <3>1, <3>2, <3>4
  <2> QED  BY <2>2, <2>3
<1> HIDE DEF inside
<1>11. Option(r, other, Kind({"udta"}, level), MetaEnd(level))
  BY <1>10 DEF Option, When
<1> HIDE DEF other
<1>12. Option(r, keyed \o other, Kind({"meta"}, level) \cup Kind({"udta"}, level),
              MetaEnd(level) \cup MetaEnd(level))
  BY <1>4, <1>8, <1>11, OptionMore
<1>13. /\ Kind({"meta"}, level) \cup Kind({"udta"}, level) = MetaFirst(level)
       /\ MetaEnd(level) \cup MetaEnd(level) = MetaEnd(level)
  BY DEF Kind, MetaFirst
<1> QED  BY <1>5, <1>12, <1>13

(* What a track has behind its 'minf', and in its 'stsd', ends with these.  *)
HeaderEnd == Kind({"vmhd", "smhd", "nmhd"}, 4) \cup Kind({"text"}, 5)
EntryEnd  == Kind(Configs, 7) \cup Kind({"mett", "text"}, 6)

LEMMA MediaHeaderRun ==
  ASSUME NEW r, NEW kind \in Kinds
  PROVE  Run(r, MediaHeader(kind), Kind({"vmhd", "smhd", "nmhd", "gmhd"}, 4), HeaderEnd)
<1> DEFINE first == Kind({"vmhd", "smhd", "nmhd", "gmhd"}, 4)
<1>1. /\ Kind({"vmhd"}, 4) \subseteq first /\ Kind({"smhd"}, 4) \subseteq first
      /\ Kind({"nmhd"}, 4) \subseteq first /\ Kind({"gmhd"}, 4) \subseteq first
      /\ Kind({"vmhd"}, 4) \subseteq HeaderEnd /\ Kind({"smhd"}, 4) \subseteq HeaderEnd
      /\ Kind({"nmhd"}, 4) \subseteq HeaderEnd /\ Kind({"text"}, 5) \subseteq HeaderEnd
  BY DEF Kind, HeaderEnd
<1> HIDE DEF first
<1>2. CASE kind \in {"avc", "hevc"}
  <2>1. Run(r, Plain("vmhd", 4), Kind({"vmhd"}, 4), Kind({"vmhd"}, 4))
    BY Known, PlainRun DEF Configs
  <2>2. MediaHeader(kind) = Plain("vmhd", 4)
    BY <1>2 DEF MediaHeader
  <2> QED  BY <1>1, <2>1, <2>2, RunWiden DEF first
<1>3. CASE kind = "audio"
  <2>1. Run(r, Plain("smhd", 4), Kind({"smhd"}, 4), Kind({"smhd"}, 4))
    BY Known, PlainRun DEF Configs
  <2>2. MediaHeader(kind) = Plain("smhd", 4)
    BY <1>3 DEF MediaHeader
  <2> QED  BY <1>1, <2>1, <2>2, RunWiden DEF first
<1>4. CASE kind = "metadata"
  <2>1. Run(r, Plain("nmhd", 4), Kind({"nmhd"}, 4), Kind({"nmhd"}, 4))
    BY Known, PlainRun DEF Configs
  <2>2. MediaHeader(kind) = Plain("nmhd", 4)
    BY <1>4 DEF MediaHeader
  <2> QED  BY <1>1, <2>1, <2>2, RunWiden DEF first
<1>5. CASE kind = "chapters"
  <2> DEFINE gmhd == Plain("gmhd", 4)
             gmin == Plain("gmin", 5)
             text == Plain("text", 5)
  <2>1. /\ Run(r, gmhd, Kind({"gmhd"}, 4), Kind({"gmhd"}, 4))
        /\ Run(r, gmin, Kind({"gmin"}, 5), Kind({"gmin"}, 5))
        /\ Run(r, text, Kind({"text"}, 5), Kind({"text"}, 5))
    BY Known, PlainRun DEF Configs
  <2>2. MediaHeader(kind) = (gmhd \o gmin) \o text
    BY <1>5 DEF MediaHeader
  <2> HIDE DEF gmhd, gmin, text
  <2>3. /\ Meet(r, Kind({"gmhd"}, 4), Kind({"gmin"}, 5))
        /\ Meet(r, Kind({"gmin"}, 5), Kind({"text"}, 5))
    BY DEF Meet, MayFollow, Kind, HeaderEnd, EntryEnd, Nests, Nesting,
       Containers, Configs, Datas, Entries, Ends
  <2>4. Run(r, gmhd \o gmin, Kind({"gmhd"}, 4), Kind({"gmin"}, 5))
    BY <2>1, <2>3, RunJoin
  <2>5. Run(r, (gmhd \o gmin) \o text, Kind({"gmhd"}, 4), Kind({"text"}, 5))
    BY <2>1, <2>3, <2>4, RunJoin
  <2> QED  BY <1>1, <2>2, <2>5, RunWiden DEF first
<1> QED  BY <1>2, <1>3, <1>4, <1>5 DEF Kinds, first

LEMMA SampleEntryRun ==
  ASSUME NEW r, NEW track \in Track
  PROVE  Run(r, SampleEntry(track), Kind(Entries, 6), EntryEnd)
<1>1. track.kind \in Kinds /\ track.params \in Nat
  BY DEF Track
<1>b. NameBytes \in Nat /\ NameBytes >= 1
  BY RecordingAssumption DEF RecordingAssumption
<1>2. /\ Kind({"avc1"}, 6) \subseteq Kind(Entries, 6)
      /\ Kind({"hvc1"}, 6) \subseteq Kind(Entries, 6)
      /\ Kind({"mp4a"}, 6) \subseteq Kind(Entries, 6)
      /\ Kind({"mett"}, 6) \subseteq Kind(Entries, 6)
      /\ Kind({"text"}, 6) \subseteq Kind(Entries, 6)
      /\ Kind({"avcC"}, 7) \subseteq EntryEnd /\ Kind({"hvcC"}, 7) \subseteq EntryEnd
      /\ Kind({"esds"}, 7) \subseteq EntryEnd /\ Kind({"mett"}, 6) \subseteq EntryEnd
      /\ Kind({"text"}, 6) \subseteq EntryEnd
  BY DEF Kind, Entries, EntryEnd, Configs
<1>3. CASE track.kind = "avc"
  <2> DEFINE entry == Plain("avc1", 6)
             config == Box("avcC", 7, 0, track.params)
  <2>1. Run(r, entry, Kind({"avc1"}, 6), Kind({"avc1"}, 6))
    BY Known, PlainRun DEF Configs
  <2>2. Run(r, config, Kind({"avcC"}, 7), Kind({"avcC"}, 7))
    BY <1>1, Known, BoxRun DEF Configs
  <2>3. SampleEntry(track) = entry \o config
    BY <1>3 DEF SampleEntry
  <2> HIDE DEF entry, config
  <2>4. Meet(r, Kind({"avc1"}, 6), Kind({"avcC"}, 7))
    BY DEF Meet, MayFollow, Kind, HeaderEnd, EntryEnd, Nests, Nesting,
       Containers, Configs, Datas, Entries, Ends
  <2>5. Run(r, entry \o config, Kind({"avc1"}, 6), Kind({"avcC"}, 7))
    BY <2>1, <2>2, <2>4, RunJoin
  <2> QED  BY <1>2, <2>3, <2>5, RunWiden
<1>4. CASE track.kind = "hevc"
  <2> DEFINE entry == Plain("hvc1", 6)
             config == Box("hvcC", 7, 0, track.params)
  <2>1. Run(r, entry, Kind({"hvc1"}, 6), Kind({"hvc1"}, 6))
    BY Known, PlainRun DEF Configs
  <2>2. Run(r, config, Kind({"hvcC"}, 7), Kind({"hvcC"}, 7))
    BY <1>1, Known, BoxRun DEF Configs
  <2>3. SampleEntry(track) = entry \o config
    BY <1>4 DEF SampleEntry
  <2> HIDE DEF entry, config
  <2>4. Meet(r, Kind({"hvc1"}, 6), Kind({"hvcC"}, 7))
    BY DEF Meet, MayFollow, Kind, HeaderEnd, EntryEnd, Nests, Nesting,
       Containers, Configs, Datas, Entries, Ends
  <2>5. Run(r, entry \o config, Kind({"hvc1"}, 6), Kind({"hvcC"}, 7))
    BY <2>1, <2>2, <2>4, RunJoin
  <2> QED  BY <1>2, <2>3, <2>5, RunWiden
<1>5. CASE track.kind = "audio"
  <2> DEFINE entry == Plain("mp4a", 6)
             config == Box("esds", 7, 0, track.params)
  <2>1. Run(r, entry, Kind({"mp4a"}, 6), Kind({"mp4a"}, 6))
    BY Known, PlainRun DEF Configs
  <2>2. Run(r, config, Kind({"esds"}, 7), Kind({"esds"}, 7))
    BY <1>1, Known, BoxRun DEF Configs
  <2>3. SampleEntry(track) = entry \o config
    BY <1>5 DEF SampleEntry
  <2> HIDE DEF entry, config
  <2>4. Meet(r, Kind({"mp4a"}, 6), Kind({"esds"}, 7))
    BY DEF Meet, MayFollow, Kind, HeaderEnd, EntryEnd, Nests, Nesting,
       Containers, Configs, Datas, Entries, Ends
  <2>5. Run(r, entry \o config, Kind({"mp4a"}, 6), Kind({"esds"}, 7))
    BY <2>1, <2>2, <2>4, RunJoin
  <2> QED  BY <1>2, <2>3, <2>5, RunWiden
<1>6. CASE track.kind = "metadata"
  <2>1. Run(r, Box("mett", 6, 0, NameBytes), Kind({"mett"}, 6), Kind({"mett"}, 6))
    BY <1>b, Known, BoxRun DEF Configs
  <2>2. SampleEntry(track) = Box("mett", 6, 0, NameBytes)
    BY <1>6 DEF SampleEntry
  <2> QED  BY <1>2, <2>1, <2>2, RunWiden
<1>7. CASE track.kind = "chapters"
  <2>1. Run(r, Plain("text", 6), Kind({"text"}, 6), Kind({"text"}, 6))
    BY Known, PlainRun DEF Configs
  <2>2. SampleEntry(track) = Plain("text", 6)
    BY <1>7 DEF SampleEntry
  <2> QED  BY <1>2, <2>1, <2>2, RunWiden
<1> QED  BY <1>1, <1>3, <1>4, <1>5, <1>6, <1>7 DEF Kinds


(* What a track ends with.                                                 *)
TrackEnd == Kind({"stco"}, 5) \cup MetaEnd(1)

(* A track.                                                                *)
LEMMA TrackBoxesRun ==
  ASSUME NEW r, NEW track \in Track
  PROVE  Run(r, TrackBoxes(track), Kind({"trak"}, 1), TrackEnd)
<1> DEFINE trak == Plain("trak", 1)
           tkhd == Plain("tkhd", 2)
           tref == When(track.refs > 0, Box("tref", 2, track.refs, 0))
           mdia == Plain("mdia", 2)
           mdhd == Plain("mdhd", 3)
           hdlr == Box(IF track.kind = "metadata" THEN "hdlr_meta" ELSE "hdlr", 3, 0, NameBytes)
           minf == Plain("minf", 3)
           header == MediaHeader(track.kind)
           dinf == Plain("dinf", 4)
           dref == Plain("dref", 5)
           url == Plain("url", 6)
           stbl == Plain("stbl", 4)
           stsd == Box("stsd", 5, 1, 0)
           entry == SampleEntry(track)
           stts == Box("stts", 5, track.deltas, 0)
           stss == When(track.kind \in {"avc", "hevc"} /\ track.syncs > 0,
                        Box("stss", 5, track.syncs, 0))
           stsc == Box("stsc", 5, 1, 0)
           stsz == Box("stsz", 5, track.samples, 0)
           stco == Box("stco", 5, track.samples, 0)
           metadata == MetadataBoxes(2, track.keys, track.tags, track.located)
           toTkhd == trak \o tkhd
           toTref == toTkhd \o tref
           toMdia == toTref \o mdia
           toMdhd == toMdia \o mdhd
           toHdlr == toMdhd \o hdlr
           toMinf == toHdlr \o minf
           toHeader == toMinf \o header
           toDinf == toHeader \o dinf
           toDref == toDinf \o dref
           toUrl == toDref \o url
           toStbl == toUrl \o stbl
           toStsd == toStbl \o stsd
           toEntry == toStsd \o entry
           toStts == toEntry \o stts
           toStss == toStts \o stss
           toStsc == toStss \o stsc
           toStsz == toStsc \o stsz
           toStco == toStsz \o stco
           toMetadata == toStco \o metadata
<1>a. /\ track.kind \in Kinds /\ track.refs \in Nat /\ track.samples \in Nat
      /\ track.deltas \in Nat /\ track.syncs \in Nat
      /\ track.keys \in Nat /\ track.tags \in Nat /\ track.located \in BOOLEAN
  BY DEF Track
<1>b. NameBytes \in Nat /\ NameBytes >= 1
  BY RecordingAssumption DEF RecordingAssumption
<1>1. Run(r, trak, Kind({"trak"}, 1), Kind({"trak"}, 1))
  BY Known, PlainRun DEF Configs
<1>2. Run(r, tkhd, Kind({"tkhd"}, 2), Kind({"tkhd"}, 2))
  BY Known, PlainRun DEF Configs
<1>3. Option(r, tref, Kind({"tref"}, 2), Kind({"tref"}, 2))
  <2>1. track.refs > 0
          => Run(r, Box("tref", 2, track.refs, 0), Kind({"tref"}, 2), Kind({"tref"}, 2))
    BY <1>a, Known, BoxRun DEF Configs
  <2> QED  BY <2>1 DEF Option, When
<1>4. Run(r, mdia, Kind({"mdia"}, 2), Kind({"mdia"}, 2))
  BY Known, PlainRun DEF Configs
<1>5. Run(r, mdhd, Kind({"mdhd"}, 3), Kind({"mdhd"}, 3))
  BY Known, PlainRun DEF Configs
<1>6. Run(r, hdlr, Kind({"hdlr", "hdlr_meta"}, 3), Kind({"hdlr", "hdlr_meta"}, 3))
  <2>1. CASE track.kind = "metadata"
    <3>1. Run(r, Box("hdlr_meta", 3, 0, NameBytes), Kind({"hdlr", "hdlr_meta"}, 3),
              Kind({"hdlr", "hdlr_meta"}, 3))
      BY <1>b, Known, BoxRun DEF Configs
    <3> QED  BY <2>1, <3>1
  <2>2. CASE track.kind # "metadata"
    <3>1. Run(r, Box("hdlr", 3, 0, NameBytes), Kind({"hdlr", "hdlr_meta"}, 3),
              Kind({"hdlr", "hdlr_meta"}, 3))
      BY <1>b, Known, BoxRun DEF Configs
    <3> QED  BY <2>2, <3>1
  <2> QED  BY <2>1, <2>2
<1>7. Run(r, minf, Kind({"minf"}, 3), Kind({"minf"}, 3))
  BY Known, PlainRun DEF Configs
<1>8. Run(r, header, Kind({"vmhd", "smhd", "nmhd", "gmhd"}, 4), HeaderEnd)
  BY <1>a, MediaHeaderRun
<1>9. Run(r, dinf, Kind({"dinf"}, 4), Kind({"dinf"}, 4))
  BY Known, PlainRun DEF Configs
<1>10. Run(r, dref, Kind({"dref"}, 5), Kind({"dref"}, 5))
  BY Known, PlainRun DEF Configs
<1>11. Run(r, url, Kind({"url"}, 6), Kind({"url"}, 6))
  BY Known, PlainRun DEF Configs
<1>12. Run(r, stbl, Kind({"stbl"}, 4), Kind({"stbl"}, 4))
  BY Known, PlainRun DEF Configs
<1>13. Run(r, stsd, Kind({"stsd"}, 5), Kind({"stsd"}, 5))
  BY Known, BoxRun DEF Configs
<1>14. Run(r, entry, Kind(Entries, 6), EntryEnd)
  BY SampleEntryRun
<1>15. Run(r, stts, Kind({"stts"}, 5), Kind({"stts"}, 5))
  BY <1>a, Known, BoxRun DEF Configs
<1>16. Option(r, stss, Kind({"stss"}, 5), Kind({"stss"}, 5))
  <2>1. track.kind \in {"avc", "hevc"} /\ track.syncs > 0
          => Run(r, Box("stss", 5, track.syncs, 0), Kind({"stss"}, 5), Kind({"stss"}, 5))
    BY <1>a, Known, BoxRun DEF Configs
  <2> QED  BY <2>1 DEF Option, When
<1>17. Run(r, stsc, Kind({"stsc"}, 5), Kind({"stsc"}, 5))
  BY Known, BoxRun DEF Configs
<1>18. Run(r, stsz, Kind({"stsz"}, 5), Kind({"stsz"}, 5))
  BY <1>a, Known, BoxRun DEF Configs
<1>19. Run(r, stco, Kind({"stco"}, 5), Kind({"stco"}, 5))
  BY <1>a, Known, BoxRun DEF Configs
<1>20. Option(r, metadata, MetaFirst(2), MetaEnd(2))
  BY <1>a, MetadataBoxesRun
<1>21. TrackBoxes(track) = toMetadata
  BY DEF TrackBoxes
<1> HIDE DEF trak, tkhd, tref, mdia, mdhd, hdlr, minf, header, dinf, dref,
       url, stbl, stsd, entry, stts, stss, stsc, stsz, stco, metadata,
       toTkhd, toTref, toMdia, toMdhd, toHdlr, toMinf, toHeader, toDinf,
       toDref, toUrl, toStbl, toStsd, toEntry, toStts, toStss, toStsc,
       toStsz, toStco, toMetadata
<1>22. Meet(r, Kind({"trak"}, 1), Kind({"tkhd"}, 2))
  BY DEF Meet, MayFollow, Kind, HeaderEnd, EntryEnd, MetaFirst, Nests, Nesting,
     Containers, Configs, Datas, Entries, Ends
<1>23. Run(r, toTkhd, Kind({"trak"}, 1), Kind({"tkhd"}, 2))
  BY <1>1, <1>2, <1>22, RunJoin DEF toTkhd
<1>24. Meet(r, Kind({"tkhd"}, 2), Kind({"tref"}, 2))
  BY DEF Meet, MayFollow, Kind, HeaderEnd, EntryEnd, MetaFirst, Nests, Nesting,
     Containers, Configs, Datas, Entries, Ends
<1>25. Run(r, toTref, Kind({"trak"}, 1), Kind({"tkhd"}, 2) \cup Kind({"tref"}, 2))
  BY <1>23, <1>3, <1>24, RunMore DEF toTref
<1>26. Meet(r, Kind({"tkhd"}, 2) \cup Kind({"tref"}, 2), Kind({"mdia"}, 2))
  BY DEF Meet, MayFollow, Kind, HeaderEnd, EntryEnd, MetaFirst, Nests, Nesting,
     Containers, Configs, Datas, Entries, Ends
<1>27. Run(r, toMdia, Kind({"trak"}, 1), Kind({"mdia"}, 2))
  BY <1>25, <1>4, <1>26, RunJoin DEF toMdia
<1>28. Meet(r, Kind({"mdia"}, 2), Kind({"mdhd"}, 3))
  BY DEF Meet, MayFollow, Kind, HeaderEnd, EntryEnd, MetaFirst, Nests, Nesting,
     Containers, Configs, Datas, Entries, Ends
<1>29. Run(r, toMdhd, Kind({"trak"}, 1), Kind({"mdhd"}, 3))
  BY <1>27, <1>5, <1>28, RunJoin DEF toMdhd
<1>30. Meet(r, Kind({"mdhd"}, 3), Kind({"hdlr", "hdlr_meta"}, 3))
  BY DEF Meet, MayFollow, Kind, HeaderEnd, EntryEnd, MetaFirst, Nests, Nesting,
     Containers, Configs, Datas, Entries, Ends
<1>31. Run(r, toHdlr, Kind({"trak"}, 1), Kind({"hdlr", "hdlr_meta"}, 3))
  BY <1>29, <1>6, <1>30, RunJoin DEF toHdlr
<1>32. Meet(r, Kind({"hdlr", "hdlr_meta"}, 3), Kind({"minf"}, 3))
  BY DEF Meet, MayFollow, Kind, HeaderEnd, EntryEnd, MetaFirst, Nests, Nesting,
     Containers, Configs, Datas, Entries, Ends
<1>33. Run(r, toMinf, Kind({"trak"}, 1), Kind({"minf"}, 3))
  BY <1>31, <1>7, <1>32, RunJoin DEF toMinf
<1>34. Meet(r, Kind({"minf"}, 3), Kind({"vmhd", "smhd", "nmhd", "gmhd"}, 4))
  BY DEF Meet, MayFollow, Kind, HeaderEnd, EntryEnd, MetaFirst, Nests, Nesting,
     Containers, Configs, Datas, Entries, Ends
<1>35. Run(r, toHeader, Kind({"trak"}, 1), HeaderEnd)
  BY <1>33, <1>8, <1>34, RunJoin DEF toHeader
<1>36. Meet(r, HeaderEnd, Kind({"dinf"}, 4))
  BY DEF Meet, MayFollow, Kind, HeaderEnd, EntryEnd, MetaFirst, Nests, Nesting,
     Containers, Configs, Datas, Entries, Ends
<1>37. Run(r, toDinf, Kind({"trak"}, 1), Kind({"dinf"}, 4))
  BY <1>35, <1>9, <1>36, RunJoin DEF toDinf
<1>38. Meet(r, Kind({"dinf"}, 4), Kind({"dref"}, 5))
  BY DEF Meet, MayFollow, Kind, HeaderEnd, EntryEnd, MetaFirst, Nests, Nesting,
     Containers, Configs, Datas, Entries, Ends
<1>39. Run(r, toDref, Kind({"trak"}, 1), Kind({"dref"}, 5))
  BY <1>37, <1>10, <1>38, RunJoin DEF toDref
<1>40. Meet(r, Kind({"dref"}, 5), Kind({"url"}, 6))
  BY DEF Meet, MayFollow, Kind, HeaderEnd, EntryEnd, MetaFirst, Nests, Nesting,
     Containers, Configs, Datas, Entries, Ends
<1>41. Run(r, toUrl, Kind({"trak"}, 1), Kind({"url"}, 6))
  BY <1>39, <1>11, <1>40, RunJoin DEF toUrl
<1>42. Meet(r, Kind({"url"}, 6), Kind({"stbl"}, 4))
  BY DEF Meet, MayFollow, Kind, HeaderEnd, EntryEnd, MetaFirst, Nests, Nesting,
     Containers, Configs, Datas, Entries, Ends
<1>43. Run(r, toStbl, Kind({"trak"}, 1), Kind({"stbl"}, 4))
  BY <1>41, <1>12, <1>42, RunJoin DEF toStbl
<1>44. Meet(r, Kind({"stbl"}, 4), Kind({"stsd"}, 5))
  BY DEF Meet, MayFollow, Kind, HeaderEnd, EntryEnd, MetaFirst, Nests, Nesting,
     Containers, Configs, Datas, Entries, Ends
<1>45. Run(r, toStsd, Kind({"trak"}, 1), Kind({"stsd"}, 5))
  BY <1>43, <1>13, <1>44, RunJoin DEF toStsd
<1>46. Meet(r, Kind({"stsd"}, 5), Kind(Entries, 6))
  BY DEF Meet, MayFollow, Kind, HeaderEnd, EntryEnd, MetaFirst, Nests, Nesting,
     Containers, Configs, Datas, Entries, Ends
<1>47. Run(r, toEntry, Kind({"trak"}, 1), EntryEnd)
  BY <1>45, <1>14, <1>46, RunJoin DEF toEntry
<1>48. Meet(r, EntryEnd, Kind({"stts"}, 5))
  BY DEF Meet, MayFollow, Kind, HeaderEnd, EntryEnd, MetaFirst, Nests, Nesting,
     Containers, Configs, Datas, Entries, Ends
<1>49. Run(r, toStts, Kind({"trak"}, 1), Kind({"stts"}, 5))
  BY <1>47, <1>15, <1>48, RunJoin DEF toStts
<1>50. Meet(r, Kind({"stts"}, 5), Kind({"stss"}, 5))
  BY DEF Meet, MayFollow, Kind, HeaderEnd, EntryEnd, MetaFirst, Nests, Nesting,
     Containers, Configs, Datas, Entries, Ends
<1>51. Run(r, toStss, Kind({"trak"}, 1), Kind({"stts"}, 5) \cup Kind({"stss"}, 5))
  BY <1>49, <1>16, <1>50, RunMore DEF toStss
<1>52. Meet(r, Kind({"stts"}, 5) \cup Kind({"stss"}, 5), Kind({"stsc"}, 5))
  BY DEF Meet, MayFollow, Kind, HeaderEnd, EntryEnd, MetaFirst, Nests, Nesting,
     Containers, Configs, Datas, Entries, Ends
<1>53. Run(r, toStsc, Kind({"trak"}, 1), Kind({"stsc"}, 5))
  BY <1>51, <1>17, <1>52, RunJoin DEF toStsc
<1>54. Meet(r, Kind({"stsc"}, 5), Kind({"stsz"}, 5))
  BY DEF Meet, MayFollow, Kind, HeaderEnd, EntryEnd, MetaFirst, Nests, Nesting,
     Containers, Configs, Datas, Entries, Ends
<1>55. Run(r, toStsz, Kind({"trak"}, 1), Kind({"stsz"}, 5))
  BY <1>53, <1>18, <1>54, RunJoin DEF toStsz
<1>56. Meet(r, Kind({"stsz"}, 5), Kind({"stco"}, 5))
  BY DEF Meet, MayFollow, Kind, HeaderEnd, EntryEnd, MetaFirst, Nests, Nesting,
     Containers, Configs, Datas, Entries, Ends
<1>57. Run(r, toStco, Kind({"trak"}, 1), Kind({"stco"}, 5))
  BY <1>55, <1>19, <1>56, RunJoin DEF toStco
<1>58. Meet(r, Kind({"stco"}, 5), MetaFirst(2))
  BY DEF Meet, MayFollow, Kind, HeaderEnd, EntryEnd, MetaFirst, Nests, Nesting,
     Containers, Configs, Datas, Entries, Ends
<1>59. Run(r, toMetadata, Kind({"trak"}, 1), Kind({"stco"}, 5) \cup MetaEnd(2))
  BY <1>57, <1>20, <1>58, RunMore DEF toMetadata
<1>60. /\ Kind({"trak"}, 1) \subseteq Kind({"trak"}, 1)
       /\ Kind({"stco"}, 5) \cup MetaEnd(2) \subseteq TrackEnd
  BY DEF MetaEnd, TrackEnd, Kind, Written, IsWritten
<1> QED  BY <1>21, <1>59, <1>60, RunWiden


(* What the moov ends with.                                                *)
MoovEnds == {b \in Written : b.type \in Ends /\ b.level > 0}

LEMMA TracksRun ==
  ASSUME NEW r, NEW tracks \in Seq(Track)
  PROVE  Option(r, FlattenSeq([i \in DOMAIN tracks |-> TrackBoxes(tracks[i])]),
                Kind({"trak"}, 1), TrackEnd)
<1> DEFINE seqs == [i \in DOMAIN tracks |-> TrackBoxes(tracks[i])]
<1>1. \A i \in DOMAIN tracks : Run(r, TrackBoxes(tracks[i]), Kind({"trak"}, 1), TrackEnd)
  BY TrackBoxesRun
<1>2. \A i \in DOMAIN tracks : TrackBoxes(tracks[i]) \in Lists(Written)
  BY <1>1 DEF Run, Chained, Lists
<1>3. /\ Len(tracks) \in Nat /\ DOMAIN tracks = 1 .. Len(tracks)
      /\ seqs \in Lists(Lists(Written)) /\ Len(seqs) = Len(tracks)
  BY <1>2 DEF Lists
<1>4. \A i \in 1 .. Len(seqs) : Run(r, seqs[i], Kind({"trak"}, 1), TrackEnd)
  BY <1>1, <1>3
<1>5. Meet(r, TrackEnd, Kind({"trak"}, 1))
  <2>1. \A a \in Written : a.level \in Nat
    BY DEF Written
  <2> QED  BY <2>1 DEF Meet, MayFollow, Kind, TrackEnd, MetaEnd, MoovEnds,
       MetaFirst, Nests, Nesting, Containers, Configs, Datas, Entries, Ends
<1> HIDE DEF seqs
<1>6. Option(r, FlattenSeq(seqs), Kind({"trak"}, 1), TrackEnd)
  BY <1>3, <1>4, <1>5, RunMany
<1> QED  BY <1>6 DEF seqs

(* The moov.                                                               *)
LEMMA MoovBoxesRun ==
  ASSUME NEW r, IsRecording(r)
  PROVE  Run(r, MoovBoxes(r), Kind({"moov"}, 0), MoovEnds)
<1> DEFINE moov == Plain("moov", 0)
           mvhd == Plain("mvhd", 1)
           tracks == FlattenSeq([i \in DOMAIN r.tracks |-> TrackBoxes(r.tracks[i])])
           metadata == MetadataBoxes(1, r.keys, r.tags, r.located)
<1>a. /\ r.tracks \in Seq(Track) /\ r.keys \in Nat /\ r.tags \in Nat
      /\ r.located \in BOOLEAN
  BY DEF IsRecording
<1>1. Run(r, moov, Kind({"moov"}, 0), Kind({"moov"}, 0))
  BY Known, PlainRun DEF Configs
<1>2. Run(r, mvhd, Kind({"mvhd"}, 1), Kind({"mvhd"}, 1))
  BY Known, PlainRun DEF Configs
<1>3. Option(r, tracks, Kind({"trak"}, 1), TrackEnd)
  BY <1>a, TracksRun
<1>4. Option(r, metadata, MetaFirst(1), MetaEnd(1))
  BY <1>a, MetadataBoxesRun
<1>5. MoovBoxes(r) = ((moov \o mvhd) \o tracks) \o metadata
  BY DEF MoovBoxes
<1> HIDE DEF moov, mvhd, tracks, metadata
<1>6. Meet(r, Kind({"moov"}, 0), Kind({"mvhd"}, 1))
  BY DEF Meet, MayFollow, Kind, TrackEnd, MetaEnd, MoovEnds,
     MetaFirst, Nests, Nesting, Containers, Configs, Datas, Entries, Ends
<1>7. Run(r, moov \o mvhd, Kind({"moov"}, 0), Kind({"mvhd"}, 1))
  BY <1>1, <1>2, <1>6, RunJoin
<1>8. Meet(r, Kind({"mvhd"}, 1), Kind({"trak"}, 1))
  BY DEF Meet, MayFollow, Kind, TrackEnd, MetaEnd, MoovEnds,
     MetaFirst, Nests, Nesting, Containers, Configs, Datas, Entries, Ends
<1>9. Run(r, (moov \o mvhd) \o tracks, Kind({"moov"}, 0), Kind({"mvhd"}, 1) \cup TrackEnd)
  BY <1>7, <1>3, <1>8, RunMore
<1>10. Meet(r, Kind({"mvhd"}, 1) \cup TrackEnd, MetaFirst(1))
  <2>1. \A a \in Written : a.level \in Nat
    BY DEF Written
  <2> QED  BY <2>1 DEF Meet, MayFollow, Kind, TrackEnd, MetaEnd, MoovEnds,
       MetaFirst, Nests, Nesting, Containers, Configs, Datas, Entries, Ends
<1>11. Run(r, ((moov \o mvhd) \o tracks) \o metadata, Kind({"moov"}, 0),
           Kind({"mvhd"}, 1) \cup TrackEnd \cup MetaEnd(1))
  BY <1>9, <1>4, <1>10, RunMore
<1>12. /\ Kind({"moov"}, 0) \subseteq Kind({"moov"}, 0)
       /\ Kind({"mvhd"}, 1) \cup TrackEnd \cup MetaEnd(1) \subseteq MoovEnds
  BY DEF MetaEnd, TrackEnd, MoovEnds, Ends, Kind, Written, IsWritten
<1> QED  BY <1>5, <1>11, <1>12, RunWiden

(* What the file ends with.                                                *)
FileEnds(r) == IF r.moov = "behind" THEN MoovEnds ELSE Kind(Datas, 0)

LEMMA FileBoxesRun ==
  ASSUME NEW r, IsRecording(r)
  PROVE  Run(r, FileBoxes(r), Kind({"ftyp"}, 0), FileEnds(r))
<1> DEFINE ftyp == Box("ftyp", 0, 2, 0)
           moov == MoovBoxes(r)
           before == When(r.moov = "front", moov)
           room == Box("free", 0, 0, r.padding)
           gap  == When(r.mdat # "wide", Plain("free", 0))
           data == Box(r.mdat, 0, 0, r.data)
           behind == When(r.moov = "behind", moov)
           S == IF r.moov = "front" THEN MoovEnds ELSE Kind({"ftyp"}, 0)
<1>a. /\ r.moov \in {"front", "behind", "none"} /\ r.mdat \in {"mdat", "wide", "open"}
      /\ r.mdat = "open" => r.moov = "none"
      /\ r.padding \in Nat /\ r.data \in Nat
  BY DEF IsRecording
<1>1. Run(r, ftyp, Kind({"ftyp"}, 0), Kind({"ftyp"}, 0))
  BY Known, BoxRun DEF Configs
<1>2. Run(r, moov, Kind({"moov"}, 0), MoovEnds)
  BY MoovBoxesRun
<1>3. Run(r, room, Kind({"free"}, 0), Kind({"free"}, 0))
  BY <1>a, Known, BoxRun DEF Configs
<1>4. Option(r, gap, Kind({"free"}, 0), Kind({"free"}, 0))
  <2>1. Run(r, Plain("free", 0), Kind({"free"}, 0), Kind({"free"}, 0))
    BY Known, PlainRun DEF Configs
  <2> QED  BY <2>1 DEF Option, When
<1>5. Run(r, data, Kind({r.mdat}, 0), Kind({r.mdat}, 0))
  <2>1. r.mdat \in Nests \cup Leaves
    BY <1>a, Known
  <2> QED  BY <1>a, <2>1, BoxRun DEF Configs
<1>6. FileBoxes(r) = ((((ftyp \o before) \o room) \o gap) \o data) \o behind
  BY DEF FileBoxes
<1> HIDE DEF ftyp, moov, room, gap, data
<1>b. \A a \in Written : a.level \in Nat
  BY DEF Written
<1>7. Run(r, ftyp \o before, Kind({"ftyp"}, 0), S)
  <2>1. CASE r.moov = "front"
    <3>1. Meet(r, Kind({"ftyp"}, 0), Kind({"moov"}, 0))
      BY <2>1 DEF Meet, MayFollow, Kind, TrackEnd, MetaEnd, MoovEnds,
       MetaFirst, Nests, Nesting, Containers, Configs, Datas, Entries, Ends
    <3>2. Run(r, ftyp \o moov, Kind({"ftyp"}, 0), MoovEnds)
      BY <1>1, <1>2, <3>1, RunJoin
    <3> QED  BY <2>1, <3>2 DEF When
  <2>2. CASE r.moov # "front"
    <3>1. before = <<>> /\ ftyp \in Seq(Written)
      BY <1>1, <2>2 DEF When, Run, Chained
    <3>2. ftyp \o before = ftyp
      BY <3>1, JoinEmpty
    <3> QED  BY <1>1, <2>2, <3>2
  <2> QED  BY <2>1, <2>2
<1> DEFINE a == ftyp \o before
<1> HIDE DEF before, a
<1>8. Run(r, a \o room, Kind({"ftyp"}, 0), Kind({"free"}, 0))
  <2>1. Meet(r, S, Kind({"free"}, 0))
    <3>1. CASE r.moov = "front"
      BY <1>b, <3>1 DEF Meet, MayFollow, Kind, TrackEnd, MetaEnd, MoovEnds,
       MetaFirst, Nests, Nesting, Containers, Configs, Datas, Entries, Ends
    <3>2. CASE r.moov # "front"
      BY <3>2 DEF Meet, MayFollow, Kind, TrackEnd, MetaEnd, MoovEnds,
       MetaFirst, Nests, Nesting, Containers, Configs, Datas, Entries, Ends
    <3> QED  BY <3>1, <3>2
  <2>2. Run(r, a, Kind({"ftyp"}, 0), S)
    BY <1>7 DEF a
  <2> QED  BY <1>3, <2>1, <2>2, RunJoin
<1> DEFINE b == a \o room
<1> HIDE DEF b
<1>9. Run(r, b \o gap, Kind({"ftyp"}, 0), Kind({"free"}, 0))
  <2>1. Meet(r, Kind({"free"}, 0), Kind({"free"}, 0))
    BY DEF Meet, MayFollow, Kind, TrackEnd, MetaEnd, MoovEnds,
       MetaFirst, Nests, Nesting, Containers, Configs, Datas, Entries, Ends
  <2>2. Run(r, b, Kind({"ftyp"}, 0), Kind({"free"}, 0))
    BY <1>8 DEF b
  <2>3. Run(r, b \o gap, Kind({"ftyp"}, 0), Kind({"free"}, 0) \cup Kind({"free"}, 0))
    BY <1>4, <2>1, <2>2, RunMore
  <2> QED  BY <2>3, RunWiden
<1> DEFINE c == b \o gap
<1> HIDE DEF c
<1>10. Run(r, c \o data, Kind({"ftyp"}, 0), Kind({r.mdat}, 0))
  <2>1. Meet(r, Kind({"free"}, 0), Kind({r.mdat}, 0))
    BY <1>a DEF Meet, MayFollow, Kind, TrackEnd, MetaEnd, MoovEnds,
       MetaFirst, Nests, Nesting, Containers, Configs, Datas, Entries, Ends
  <2>2. Run(r, c, Kind({"ftyp"}, 0), Kind({"free"}, 0))
    BY <1>9 DEF c
  <2> QED  BY <1>5, <2>1, <2>2, RunJoin
<1> DEFINE d == c \o data
<1> HIDE DEF d
<1>11. Run(r, d, Kind({"ftyp"}, 0), Kind({r.mdat}, 0))
  BY <1>10 DEF d
<1>12. Run(r, d \o behind, Kind({"ftyp"}, 0), FileEnds(r))
  <2>1. CASE r.moov = "behind"
    <3>1. Meet(r, Kind({r.mdat}, 0), Kind({"moov"}, 0))
      BY <1>a, <2>1 DEF Meet, MayFollow, Kind, TrackEnd, MetaEnd, MoovEnds,
       MetaFirst, Nests, Nesting, Containers, Configs, Datas, Entries, Ends
    <3>2. Run(r, d \o moov, Kind({"ftyp"}, 0), MoovEnds)
      BY <1>2, <1>11, <3>1, RunJoin
    <3> QED  BY <2>1, <3>2 DEF When, FileEnds
  <2>2. CASE r.moov # "behind"
    <3>1. behind = <<>> /\ d \in Seq(Written)
      BY <1>11, <2>2 DEF When, Run, Chained
    <3>2. d \o behind = d
      BY <3>1, JoinEmpty
    <3>3. Kind({r.mdat}, 0) \subseteq Kind(Datas, 0)
      BY <1>a DEF Kind, Datas
    <3> QED  BY <1>11, <2>2, <3>2, <3>3, RunWiden DEF FileEnds
  <2> QED  BY <2>1, <2>2
<1> QED  BY <1>6, <1>12 DEF a, b, c, d

-----------------------------------------------------------------------------
(* Where the boxes are.                                                    *)

LEMMA OwnSame ==
  ASSUME NEW a, NEW b, IsWritten(a),
         a.type = b.type, a.count = b.count, a.bytes = b.bytes
  PROVE  Own(a) = Own(b)
<1>1. WrittenTref(a) = WrittenTref(b)
  BY DEF WrittenTref
<1>2. WrittenHdlr(a) = WrittenHdlr(b) /\ WrittenMett(a) = WrittenMett(b)
  BY DEF WrittenHdlr, WrittenMett
<1>3. WrittenAvcc(a) = WrittenAvcc(b) /\ WrittenHvcc(a) = WrittenHvcc(b)
  BY DEF WrittenAvcc, WrittenHvcc
<1>4. WrittenEsds(a) = WrittenEsds(b)
  BY DEF WrittenEsds, EsdBytes, DcdBytes, DsiBytes
<1>5. /\ WrittenKeys(a) = WrittenKeys(b) /\ WrittenKeyed(a) = WrittenKeyed(b)
      /\ WrittenData(a) = WrittenData(b) /\ WrittenXyz(a) = WrittenXyz(b)
  BY DEF WrittenKeys, WrittenKeyed, WrittenData, WrittenXyz
<1>6. a.type \in {"stts", "stss", "stsc", "stco", "stsz"} => WrittenTable(a) = WrittenTable(b)
  BY DEF WrittenTable
<1> QED  BY <1>1, <1>2, <1>3, <1>4, <1>5, <1>6, OwnIs
      DEF IsWritten, Nests, Nesting, Leaves, Containers

LEMMA BeforeIs ==
  ASSUME NEW list \in Seq(Written)
  PROVE  /\ Before(list) \in [0 .. Len(list) -> Nat]
         /\ Before(list)[0] = 0
         /\ \A i \in 1 .. Len(list) :
              Before(list)[i] = Before(list)[i - 1] + Own(list[i])
<1> DEFINE m == Len(list)
           step == [p \in Nat \X (1 .. m) |-> p[1] + Own(list[p[2]])]
           Good(f) == f = [i \in 0 .. m |-> IF i = 0 THEN 0 ELSE f[i - 1] + Own(list[i])]
<1>1. m \in Nat /\ \A i \in 1 .. m : list[i] \in Written
  OBVIOUS
<1>2. \A i \in 1 .. m : Own(list[i]) \in Nat
  BY <1>1, Lengths DEF Written, Fits
<1>3. step \in [Nat \X (1 .. m) -> Nat]
  BY <1>2
<1>4. PICK f : Follows(f, Nat, m, 0, step)
  <2> HIDE DEF step
  <2> QED  BY <1>1, <1>3, Recursion
<1>5. /\ f \in [0 .. m -> Nat] /\ f[0] = 0
      /\ \A i \in 1 .. m : f[i] = f[i - 1] + Own(list[i])
  <2>1. /\ f \in [0 .. m -> Nat] /\ f[0] = 0
        /\ \A i \in 1 .. m : f[i] = step[<<f[i - 1], i>>]
    BY <1>4 DEF Follows
  <2>2. ASSUME NEW i \in 1 .. m PROVE f[i] = f[i - 1] + Own(list[i])
    <3>1. i - 1 \in 0 .. m
      BY <1>1
    <3>2. f[i - 1] \in Nat /\ f[i] = step[<<f[i - 1], i>>]
      <4> HIDE DEF step
      <4> QED  BY <2>1, <3>1
    <3> QED  BY <3>2
  <2> QED  BY <2>1, <2>2
<1>6. Good(f)
  <2>1. \A i \in 0 .. m : f[i] = IF i = 0 THEN 0 ELSE f[i - 1] + Own(list[i])
    BY <1>1, <1>5
  <2>2. f = [i \in 0 .. m |-> f[i]]
    BY <1>5
  <2> QED  BY <2>1, <2>2, Zenon
<1>7. Before(list) = CHOOSE g : Good(g)
  BY DEF Before
<1>8. Good(Before(list))
  BY <1>6, <1>7
<1>9. Before(list) = f
  <2> DEFINE b == Before(list)
             P == {i \in 0 .. m : b[i] = f[i]}
  <2>1. b = [i \in 0 .. m |-> IF i = 0 THEN 0 ELSE b[i - 1] + Own(list[i])]
    BY <1>8
  <2> HIDE DEF b
  <2>2. 0 \in P
    BY <1>1, <1>5, <2>1
  <2>3. ASSUME NEW i \in 1 .. m, i - 1 \in P PROVE i \in P
    BY <1>1, <1>5, <2>1, <2>3
  <2>4. \A i \in 0 .. m : i \in P
    <3> HIDE DEF P
    <3> QED  BY <1>1, <2>2, <2>3, Induction
  <2>5. \A i \in 0 .. m : b[i] = f[i]
    BY <2>4
  <2>6. f = [i \in 0 .. m |-> f[i]]
    BY <1>5
  <2>7. b = [i \in 0 .. m |-> b[i]]
    BY <2>1
  <2> QED  BY <2>5, <2>6, <2>7 DEF b
<1> QED  BY <1>5, <1>9

(* Box j is the last inside box i, or i itself.                            *)
IsLastIn(list, i, j) ==
  /\ j \in i .. Len(list)
  /\ j < Len(list) => list[j + 1].level <= list[i].level
  /\ \A k \in i + 1 .. j : list[k].level > list[i].level

Leveled(list) ==
  /\ Len(list) \in Nat /\ DOMAIN list = 1 .. Len(list)
  /\ \A i \in 1 .. Len(list) : list[i].level \in Nat

LEMMA LastInIs ==
  ASSUME NEW list, Leveled(list), NEW i \in 1 .. Len(list)
  PROVE  IsLastIn(list, i, LastIn(list, i))
<1> DEFINE n == Len(list)
           S == {k \in i + 1 .. n : list[k].level <= list[i].level}
<1>1. n \in Nat /\ \A k \in 1 .. n : list[k].level \in Nat
  BY DEF Leveled
<1>2. \E j \in i .. n : IsLastIn(list, i, j)
  <2>1. CASE S = {}
    <3>1. IsLastIn(list, i, n)
      BY <1>1, <2>1 DEF IsLastIn
    <3> QED  BY <1>1, <3>1
  <2>2. CASE S # {}
    <3>1. S \in SUBSET Nat
      BY <1>1
    <3>2. PICK k \in S : \A l \in S : k <= l
      <4> HIDE DEF S
      <4> QED  BY <2>2, <3>1, LeastNumber
    <3>3. k - 1 \in i .. n /\ IsLastIn(list, i, k - 1)
      BY <1>1, <3>2 DEF IsLastIn
    <3> QED  BY <3>3
  <2> QED  BY <2>1, <2>2
<1>3. LastIn(list, i) = CHOOSE j \in i .. n : IsLastIn(list, i, j)
  BY DEF LastIn, IsLastIn
<1> QED  BY <1>2, <1>3

LEMMA LastInOnce ==
  ASSUME NEW list, Leveled(list), NEW i \in 1 .. Len(list), NEW j, NEW k,
         IsLastIn(list, i, j), IsLastIn(list, i, k)
  PROVE  j = k
<1>1. /\ Len(list) \in Nat /\ i \in Nat /\ j \in Nat /\ k \in Nat
      /\ list[i].level \in Nat
  BY DEF Leveled, IsLastIn
<1>2. ~(j < k)
  <2> SUFFICES ASSUME j < k PROVE FALSE
    OBVIOUS
  <2>1. j + 1 \in i + 1 .. k /\ j < Len(list) /\ j + 1 \in 1 .. Len(list)
    BY <1>1 DEF IsLastIn
  <2> QED  BY <1>1, <2>1 DEF IsLastIn, Leveled
<1>3. ~(k < j)
  <2> SUFFICES ASSUME k < j PROVE FALSE
    OBVIOUS
  <2>1. k + 1 \in i + 1 .. j /\ k < Len(list) /\ k + 1 \in 1 .. Len(list)
    BY <1>1 DEF IsLastIn
  <2> QED  BY <1>1, <2>1 DEF IsLastIn, Leveled
<1> QED  BY <1>1, <1>2, <1>3

(* Where box i begins, or where the last one ends.                         *)
Start(list, i) ==
  IF i <= Len(list) THEN list[i].at ELSE list[Len(list)].at + list[Len(list)].size

Laid(r, list) ==
  /\ Leveled(list) /\ Len(list) >= 1
  /\ list[1].type = "ftyp" /\ list[1].at = 0
  /\ IF r.moov = "behind" THEN list[Len(list)].type \in Ends ELSE list[Len(list)].type \in Datas
  /\ \A i \in 1 .. Len(list) :
       /\ IsWritten(list[i]) /\ list[i].at \in Nat
       /\ Start(list, i + 1) = list[i].at + Own(list[i])
       /\ list[i].size = Start(list, LastIn(list, i) + 1) - list[i].at
  /\ \A i \in 1 .. Len(list) - 1 : MayFollow(r, list[i], list[i + 1])

LEMMA PlacedIs ==
  ASSUME NEW r, IsRecording(r)
  PROVE  Laid(r, Placed(FileBoxes(r)))
<1> DEFINE list == FileBoxes(r)
           B == Before(list)
           n == Len(list)
           b == Placed(list)
<1>1. Run(r, list, Kind({"ftyp"}, 0), FileEnds(r))
  BY FileBoxesRun
<1>2. /\ list \in Seq(Written) /\ n \in Nat /\ n >= 1
      /\ \A i \in 1 .. n - 1 : MayFollow(r, list[i], list[i + 1])
      /\ list[1].type = "ftyp" /\ list[n] \in FileEnds(r)
  BY <1>1 DEF Run, Chained, Kind
<1> HIDE DEF list
<1>3. /\ DOMAIN list = 1 .. n
      /\ \A i \in 1 .. n : list[i] \in Written
  BY <1>2
<1>4. /\ B \in [0 .. n -> Nat] /\ B[0] = 0
      /\ \A i \in 1 .. n : B[i] = B[i - 1] + Own(list[i])
  BY <1>2, BeforeIs
<1> HIDE DEF B
<1>5. Leveled(list)
  BY <1>2, <1>3 DEF Leveled, Written, IsWritten
<1>6. b = [i \in 1 .. n |->
             [type |-> list[i].type, level |-> list[i].level,
              count |-> list[i].count, bytes |-> list[i].bytes,
              at   |-> B[i - 1],
              size |-> B[LastIn(list, i)] - B[i - 1]]]
  BY <1>3 DEF Placed, B
<1>7. Len(b) = n /\ DOMAIN b = 1 .. n
  BY <1>2, <1>6
<1>8. ASSUME NEW i \in 1 .. n
      PROVE  /\ b[i].type = list[i].type /\ b[i].level = list[i].level
             /\ b[i].count = list[i].count /\ b[i].bytes = list[i].bytes
             /\ b[i].at = B[i - 1] /\ b[i].size = B[LastIn(list, i)] - B[i - 1]
  BY <1>6
<1> HIDE DEF b
<1>9. \A i \in 1 .. n : IsWritten(b[i])
  <2> SUFFICES ASSUME NEW i \in 1 .. n PROVE IsWritten(b[i])
    OBVIOUS
  <2>1. IsWritten(list[i])
    BY <1>3 DEF Written
  <2> QED  BY <1>8, <2>1 DEF IsWritten
<1>10. Leveled(b)
  BY <1>2, <1>7, <1>9 DEF Leveled, IsWritten
<1>11. ASSUME NEW i \in 1 .. n
       PROVE  LastIn(b, i) = LastIn(list, i) /\ LastIn(b, i) \in i .. n
  <2>1. IsLastIn(b, i, LastIn(b, i)) /\ IsLastIn(list, i, LastIn(list, i))
    BY <1>5, <1>7, <1>10, LastInIs
  <2>2. IsLastIn(list, i, LastIn(b, i))
    <3>1. \A k \in 1 .. n : b[k].level = list[k].level
      BY <1>8
    <3> QED  BY <1>2, <1>7, <2>1, <3>1 DEF IsLastIn
  <2>3. LastIn(b, i) = LastIn(list, i)
    BY <1>5, <2>1, <2>2, LastInOnce
  <2> QED  BY <1>7, <2>1, <2>3 DEF IsLastIn
<1>12. \A i \in 1 .. n : B[i - 1] \in Nat /\ B[i] \in Nat
  <2> SUFFICES ASSUME NEW i \in 1 .. n PROVE B[i - 1] \in Nat /\ B[i] \in Nat
    OBVIOUS
  <2>1. i - 1 \in 0 .. n /\ i \in 0 .. n
    BY <1>2
  <2> QED  BY <1>4, <2>1
<1>13. ASSUME NEW i \in 1 .. n PROVE Start(b, i + 1) = B[i]
  <2>1. CASE i < n
    <3>1. i + 1 \in 1 .. n /\ (i + 1) - 1 = i
      BY <1>2, <2>1
    <3> QED  BY <1>7, <1>8, <3>1 DEF Start
  <2>2. CASE i = n
    <3>1. LastIn(list, n) = n /\ n \in 1 .. n
      BY <1>2, <1>11
    <3>2. b[n].at = B[n - 1] /\ b[n].size = B[n] - B[n - 1]
      BY <1>8, <3>1
    <3>3. B[n] \in Nat /\ B[n - 1] \in Nat
      BY <1>12, <3>1
    <3> QED  BY <1>2, <1>7, <2>2, <3>2, <3>3 DEF Start
  <2> QED  BY <1>2, <2>1, <2>2
<1>14. ASSUME NEW i \in 1 .. n
       PROVE  /\ b[i].at \in Nat
              /\ Start(b, i + 1) = b[i].at + Own(b[i])
              /\ b[i].size = Start(b, LastIn(b, i) + 1) - b[i].at
  <2>1. Own(b[i]) = Own(list[i])
    BY <1>8, <1>9, OwnSame
  <2>2. LastIn(b, i) \in 1 .. n
    BY <1>2, <1>11
  <2> QED  BY <1>4, <1>8, <1>11, <1>12, <1>13, <2>1, <2>2
<1>15. ASSUME NEW i \in 1 .. n - 1 PROVE MayFollow(r, b[i], b[i + 1])
  <2>1. i \in 1 .. n /\ i + 1 \in 1 .. n /\ MayFollow(r, list[i], list[i + 1])
    BY <1>2
  <2>2. /\ b[i].type = list[i].type /\ b[i].level = list[i].level
        /\ b[i].count = list[i].count
        /\ b[i + 1].type = list[i + 1].type /\ b[i + 1].level = list[i + 1].level
        /\ b[i + 1].count = list[i + 1].count
    BY <1>8, <2>1
  <2> QED  BY <2>1, <2>2 DEF MayFollow
<1>16. /\ b[1].type = "ftyp" /\ b[1].at = 0
       /\ IF r.moov = "behind" THEN b[n].type \in Ends ELSE b[n].type \in Datas
  <2>1. 1 \in 1 .. n /\ n \in 1 .. n
    BY <1>2
  <2>2. b[1].type = list[1].type /\ b[1].at = B[0] /\ b[n].type = list[n].type
    BY <1>8, <2>1
  <2> QED  BY <1>2, <1>4, <2>2 DEF FileEnds, MoovEnds, Kind
<1> QED  BY <1>2, <1>7, <1>9, <1>10, <1>14, <1>15, <1>16 DEF Laid, b, list

-----------------------------------------------------------------------------
(* What follows of the boxes of a file.                                    *)

LEMMA Layout ==
  ASSUME NEW r, NEW list, Laid(r, list), NEW i \in 1 .. Len(list)
  PROVE  /\ Len(list) \in Nat /\ Len(list) >= 1
         /\ IsWritten(list[i]) /\ list[i].at \in Nat /\ list[i].level \in Nat
         /\ Start(list, i) = list[i].at
         /\ Own(list[i]) \in Nat /\ Own(list[i]) >= 8
         /\ Start(list, i + 1) = Start(list, i) + Own(list[i])
         /\ LastIn(list, i) \in i .. Len(list) /\ IsLastIn(list, i, LastIn(list, i))
         /\ list[i].size = Start(list, LastIn(list, i) + 1) - list[i].at
<1>1. /\ Leveled(list) /\ Len(list) \in Nat /\ Len(list) >= 1
      /\ IsWritten(list[i]) /\ list[i].at \in Nat /\ list[i].level \in Nat
      /\ Start(list, i + 1) = list[i].at + Own(list[i])
      /\ list[i].size = Start(list, LastIn(list, i) + 1) - list[i].at
  BY DEF Laid, Leveled
<1>2. Own(list[i]) \in Nat /\ Own(list[i]) >= 8
  BY <1>1, Lengths DEF Fits, Header
<1>3. IsLastIn(list, i, LastIn(list, i))
  BY <1>1, LastInIs
<1> QED  BY <1>1, <1>2, <1>3 DEF IsLastIn, Start

LEMMA StartGrows ==
  ASSUME NEW r, NEW list, Laid(r, list),
         NEW i \in 1 .. Len(list) + 1, NEW j \in 1 .. Len(list) + 1
  PROVE  /\ Start(list, i) \in Nat
         /\ i < j => Start(list, i) + Own(list[i]) <= Start(list, j)
         /\ i < j => Start(list, i) + 8 <= Start(list, j)
<1> DEFINE n == Len(list)
           S(k) == Start(list, k)
           P == {k \in 0 .. n :
                   /\ S(k + 1) \in Nat
                   /\ \A l \in 1 .. k : S(l) \in Nat /\ S(l) + Own(list[l]) <= S(k + 1)}
<1>1. n \in Nat /\ n >= 1 /\ S(1) = 0
  BY DEF Laid, Leveled, Start
<1>2. \A k \in 1 .. n :
        Own(list[k]) \in Nat /\ Own(list[k]) >= 8 /\ S(k + 1) = S(k) + Own(list[k])
  BY Layout
<1> HIDE DEF S
<1>3. 0 \in P
  BY <1>1
<1>4. ASSUME NEW k \in 1 .. n, k - 1 \in P PROVE k \in P
  <2>1. /\ S(k) \in Nat
        /\ \A l \in 1 .. k - 1 : S(l) \in Nat /\ S(l) + Own(list[l]) <= S(k)
    BY <1>1, <1>4
  <2>2. Own(list[k]) \in Nat /\ Own(list[k]) >= 8 /\ S(k + 1) = S(k) + Own(list[k])
    BY <1>2
  <2>3. ASSUME NEW l \in 1 .. k PROVE S(l) \in Nat /\ S(l) + Own(list[l]) <= S(k + 1)
    <3>1. CASE l = k
      BY <2>1, <2>2, <3>1
    <3>2. CASE l # k
      <4>1. l \in 1 .. k - 1 /\ l \in 1 .. n
        BY <1>1, <3>2
      <4>2. S(l) \in Nat /\ S(l) + Own(list[l]) <= S(k) /\ Own(list[l]) \in Nat
        BY <1>2, <2>1, <4>1
      <4> QED  BY <2>1, <2>2, <4>2
    <3> QED  BY <3>1, <3>2
  <2>4. S(k + 1) \in Nat
    BY <2>1, <2>2
  <2> QED  BY <2>3, <2>4
<1>5. \A k \in 0 .. n : k \in P
  <2> HIDE DEF P
  <2> QED  BY <1>1, <1>3, <1>4, Induction
<1>6. i - 1 \in 0 .. n /\ j - 1 \in 0 .. n
  BY <1>1
<1>7. S(i) \in Nat /\ S(j) \in Nat
  BY <1>1, <1>5, <1>6
<1>8. ASSUME i < j PROVE S(i) + Own(list[i]) <= S(j) /\ S(i) + 8 <= S(j)
  <2>1. i \in 1 .. j - 1 /\ i \in 1 .. n
    BY <1>1, <1>8
  <2> DEFINE k == j - 1
  <2>a. k \in 0 .. n /\ k + 1 = j /\ i \in 1 .. k
    BY <1>6, <2>1
  <2> HIDE DEF k
  <2>b. S(i) + Own(list[i]) <= S(k + 1)
    BY <1>5, <2>a
  <2>2. S(i) + Own(list[i]) <= S(j)
    BY <2>a, <2>b
  <2> QED  BY <1>2, <1>7, <2>1, <2>2
<1> QED  BY <1>7, <1>8 DEF S

LEMMA Inner ==
  ASSUME NEW r, NEW list, Laid(r, list), NEW i \in 1 .. Len(list),
         NEW c \in i + 1 .. LastIn(list, i)
  PROVE  /\ c \in 1 .. Len(list) /\ list[c].level > list[i].level
         /\ LastIn(list, c) <= LastIn(list, i)
<1> DEFINE e == LastIn(list, i)
           f == LastIn(list, c)
           n == Len(list)
<1>1. /\ n \in Nat /\ e \in i .. n /\ IsLastIn(list, i, e)
  BY Layout
<1>2. c \in 1 .. n
  BY <1>1
<1>3. f \in c .. n /\ IsLastIn(list, c, f)
  BY <1>2, Layout
<1>4. list[i].level \in Nat /\ list[c].level \in Nat
  BY <1>2, Layout
<1> HIDE DEF e, f
<1>5. list[c].level > list[i].level
  BY <1>1 DEF IsLastIn, e
<1>6. f <= e
  <2> SUFFICES ASSUME f > e PROVE FALSE
    BY <1>1, <1>3
  <2>1. e + 1 \in c + 1 .. f /\ e < n /\ e + 1 \in 1 .. n
    BY <1>1, <1>3 DEF e
  <2>2. list[e + 1].level > list[c].level /\ list[e + 1].level <= list[i].level
    BY <1>1, <1>3, <2>1 DEF IsLastIn
  <2>3. list[e + 1].level \in Nat
    BY <2>1, Layout
  <2> QED  BY <1>4, <1>5, <2>2, <2>3
<1> QED  BY <1>2, <1>5, <1>6 DEF e, f

(* The box behind another.                                                 *)
LEMMA NextBox ==
  ASSUME NEW r, NEW list, Laid(r, list), NEW i \in 1 .. Len(list), i < Len(list)
  PROVE  /\ i + 1 \in 1 .. Len(list) /\ MayFollow(r, list[i], list[i + 1])
         /\ IsWritten(list[i]) /\ IsWritten(list[i + 1])
<1>1. Len(list) \in Nat
  BY Layout
<1>2. i + 1 \in 1 .. Len(list) /\ i \in 1 .. Len(list) - 1
  BY <1>1
<1>3. IsWritten(list[i]) /\ IsWritten(list[i + 1])
  BY <1>2, Layout
<1> QED  BY <1>2, <1>3 DEF Laid

LEMMA LevelNext ==
  ASSUME NEW r, NEW list, Laid(r, list), NEW i \in 1 .. Len(list), i < Len(list)
  PROVE  /\ list[i + 1].level \in Nat /\ list[i + 1].level <= list[i].level + 1
         /\ list[i].type \notin Nests => list[i + 1].level <= list[i].level
<1>1. list[i].level \in Nat /\ list[i + 1].level \in Nat
  BY NextBox DEF IsWritten
<1> QED  BY <1>1, NextBox DEF MayFollow

LEMMA LeafEnds ==
  ASSUME NEW r, NEW list, Laid(r, list), NEW i \in 1 .. Len(list),
         list[i].type \notin Nests
  PROVE  LastIn(list, i) = i
<1>1. /\ Len(list) \in Nat /\ Leveled(list)
      /\ IsLastIn(list, i, LastIn(list, i))
  BY Layout DEF Laid
<1>2. i < Len(list) => list[i + 1].level <= list[i].level
  BY LevelNext
<1>3. IsLastIn(list, i, i)
  BY <1>1, <1>2 DEF IsLastIn
<1> QED  BY <1>1, <1>3, LastInOnce

LEMMA NotLast ==
  ASSUME NEW r, NEW list, Laid(r, list), NEW i \in 1 .. Len(list),
         list[i].type \notin Ends \cup Datas
  PROVE  i < Len(list)
<1>1. Len(list) \in Nat
  BY Layout
<1> QED  BY <1>1 DEF Laid

(* Something is in these.                                                  *)
LEMMA NotEmpty ==
  ASSUME NEW r, NEW list, Laid(r, list), NEW i \in 1 .. Len(list),
         list[i].type \in {"moov", "stsd", "avc1", "hvc1", "ilst"}
  PROVE  /\ i < Len(list) /\ i + 1 \in 1 .. Len(list) /\ LastIn(list, i) > i
         /\ list[i + 1].level = list[i].level + 1
         /\ list[i].size >= Own(list[i]) + 8
<1>1. i < Len(list)
  BY NotLast DEF Ends, Datas
<1>2. i + 1 \in 1 .. Len(list) /\ list[i + 1].level = list[i].level + 1
  BY <1>1, NextBox DEF MayFollow
<1> DEFINE e == LastIn(list, i)
<1>3. /\ e \in i .. Len(list) /\ IsLastIn(list, i, e) /\ Len(list) \in Nat
      /\ list[i].level \in Nat
      /\ list[i].size = Start(list, e + 1) - list[i].at
      /\ Start(list, i) = list[i].at /\ Own(list[i]) \in Nat
      /\ Start(list, i + 1) = Start(list, i) + Own(list[i])
  BY Layout
<1> HIDE DEF e
<1>4. e > i
  <2> SUFFICES ASSUME e = i PROVE FALSE
    BY <1>3
  <2> QED  BY <1>1, <1>2, <1>3 DEF IsLastIn
<1>5. i + 1 \in 1 .. Len(list) + 1 /\ e + 1 \in 1 .. Len(list) + 1 /\ i + 1 < e + 1
  BY <1>2, <1>3, <1>4
<1>6. /\ Start(list, i + 1) \in Nat /\ Start(list, e + 1) \in Nat
      /\ Start(list, i + 1) + 8 <= Start(list, e + 1)
  BY <1>5, StartGrows
<1>7. i \in 1 .. Len(list) + 1
  BY <1>3
<1>8. Start(list, i) \in Nat
  BY <1>7, StartGrows
<1> QED  BY <1>1, <1>2, <1>3, <1>4, <1>6, <1>8 DEF e

(* What is behind the entry of a 'stsd'.                                   *)
LEMMA EntryShape ==
  ASSUME NEW r, NEW list, Laid(r, list), NEW i \in 1 .. Len(list),
         list[i].type \in Entries, list[i].level = 6
  PROVE  \E e \in {i, i + 1} :
           /\ LastIn(list, i) = e /\ e < Len(list) /\ list[e + 1].type = "stts"
           /\ list[e + 1].level = 5
           /\ e = i + 1 => list[e].level = 7
           /\ list[i].type \in {"avc1", "hvc1"} => e = i + 1
<1>0. Len(list) \in Nat /\ Leveled(list)
  BY Layout DEF Laid
<1>1. i < Len(list)
  BY NotLast DEF Entries, Ends, Datas
<1>2. CASE list[i].type \in {"avc1", "hvc1", "mp4a"}
  <2>1. i + 1 \in 1 .. Len(list) /\ list[i + 1].type \in Configs
    BY <1>1, <1>2, NextBox DEF MayFollow
  <2>2. list[i + 1].level = 7
    BY <1>1, <2>1, NextBox DEF IsWritten, Configs
  <2>3. i + 1 < Len(list)
    BY <2>1, NotLast DEF Configs, Ends, Datas
  <2>4. list[(i + 1) + 1].type = "stts"
    BY <2>1, <2>3, NextBox DEF MayFollow
  <2>5. list[(i + 1) + 1].level = 5
    BY <2>1, <2>3, <2>4, NextBox DEF IsWritten
  <2>6. IsLastIn(list, i, i + 1)
    BY <1>0, <2>1, <2>2, <2>5 DEF IsLastIn
  <2>7. LastIn(list, i) = i + 1
    BY <1>0, <2>6, LastInIs, LastInOnce
  <2> QED  BY <1>0, <2>2, <2>3, <2>4, <2>5, <2>7
<1>3. CASE list[i].type \in {"mett", "text"}
  <2>1. list[i + 1].type = "stts"
    BY <1>1, <1>3, NextBox DEF MayFollow
  <2>2. list[i + 1].level = 5
    BY <1>1, <2>1, NextBox DEF IsWritten
  <2>3. LastIn(list, i) = i
    BY <1>3, LeafEnds DEF Nests, Nesting, Containers
  <2> QED  BY <1>0, <1>1, <1>3, <2>1, <2>2, <2>3
<1> QED  BY <1>2, <1>3 DEF Entries

(* Only its entry is directly in a 'stsd'.                                 *)
LEMMA StsdShape ==
  ASSUME NEW r, NEW list, Laid(r, list), NEW i \in 1 .. Len(list),
         list[i].type = "stsd"
  PROVE  /\ LastIn(list, i) > i
         /\ LastIn(list, i + 1) = LastIn(list, i)
         /\ list[i].count = 1
         /\ \A c \in i + 1 .. LastIn(list, i) :
              list[c].level = list[i].level + 1 => c = i + 1
<1>0. Len(list) \in Nat /\ Leveled(list) /\ IsWritten(list[i])
  BY Layout DEF Laid
<1>1. list[i].level = 5 /\ list[i].count = 1
  BY <1>0 DEF IsWritten
<1>2. /\ i < Len(list) /\ i + 1 \in 1 .. Len(list) /\ LastIn(list, i) > i
      /\ list[i + 1].level = list[i].level + 1
  BY NotEmpty
<1>3. list[i + 1].type \in Entries /\ list[i + 1].level = 6
  BY <1>1, <1>2, NextBox DEF MayFollow
<1>4. PICK e \in {i + 1, (i + 1) + 1} :
        /\ LastIn(list, i + 1) = e /\ e < Len(list) /\ list[e + 1].level = 5
        /\ e = (i + 1) + 1 => list[e].level = 7
  BY <1>2, <1>3, EntryShape
<1>5. IsLastIn(list, i, e)
  BY <1>0, <1>1, <1>2, <1>3, <1>4 DEF IsLastIn
<1>6. LastIn(list, i) = e
  BY <1>0, <1>5, LastInIs, LastInOnce
<1>7. \A c \in i + 1 .. LastIn(list, i) : list[c].level = 6 => c = i + 1
  BY <1>0, <1>4, <1>6
<1> QED  BY <1>0, <1>1, <1>2, <1>4, <1>6, <1>7

(* What was read before these.                                             *)
LEMMA BoxBefore ==
  ASSUME NEW r, NEW list, Laid(r, list), NEW i \in 1 .. Len(list),
         list[i].type # "ftyp"
  PROVE  /\ i - 1 \in 1 .. Len(list) /\ (i - 1) + 1 = i /\ i - 1 < Len(list)
         /\ MayFollow(r, list[i - 1], list[i]) /\ IsWritten(list[i - 1])
<1>1. Len(list) \in Nat /\ list[1].type = "ftyp"
  BY Layout DEF Laid
<1>2. i # 1
  BY <1>1
<1>3. i - 1 \in 1 .. Len(list) /\ (i - 1) + 1 = i /\ i - 1 < Len(list)
  BY <1>1, <1>2
<1> QED  BY <1>3, NextBox

LEMMA MoovShape ==
  ASSUME NEW r, NEW list, Laid(r, list), NEW m \in 1 .. Len(list),
         list[m].type = "moov"
  PROVE  LET e == LastIn(list, m) IN
         /\ list[m].level = 0
         /\ e \in m + 1 .. Len(list) /\ LastIn(list, e) = e
         /\ list[e].type \in Ends /\ list[e].level > 0
         /\ r.moov = "behind" => e = Len(list)
         /\ r.moov # "behind" => /\ r.moov = "front" /\ e < Len(list)
                                 /\ list[e + 1].type = "free"
                                 /\ \A j \in 1 .. e : list[j].type # "free"
<1> DEFINE e == LastIn(list, m)
           n == Len(list)
<1>1. /\ n \in Nat /\ Leveled(list) /\ IsLastIn(list, m, e)
      /\ IsWritten(list[m]) /\ list[1].type = "ftyp"
  BY Layout DEF Laid
<1>2. list[m].level = 0
  BY <1>1 DEF IsWritten
<1>3. e \in m + 1 .. n
  BY <1>1, NotEmpty DEF IsLastIn
<1> HIDE DEF e
<1>4. e \in 1 .. n /\ IsWritten(list[e])
  BY <1>1, <1>3, Layout
<1>5. list[e].level > 0
  BY <1>1, <1>2, <1>3 DEF IsLastIn
<1>6. /\ m - 1 \in 1 .. n /\ IsWritten(list[m - 1])
      /\ \/ list[m - 1].type = "ftyp" /\ r.moov = "front"
         \/ list[m - 1].type \in Datas /\ r.moov = "behind"
  BY BoxBefore DEF MayFollow
<1>7. e < n => /\ list[e + 1].type = "free" /\ list[e].type \in Ends /\ r.moov = "front"
  <2> SUFFICES ASSUME e < n
               PROVE  list[e + 1].type = "free" /\ list[e].type \in Ends /\ r.moov = "front"
    OBVIOUS
  <2>1. MayFollow(r, list[e], list[e + 1]) /\ list[e + 1].level \in Nat
    BY <1>4, NextBox DEF IsWritten
  <2>2. list[e + 1].level = 0
    BY <1>1, <1>2, <2>1 DEF IsLastIn
  <2> QED  BY <1>5, <2>1, <2>2 DEF MayFollow
<1>8. e = n => r.moov = "behind" /\ list[e].type \in Ends
  <2> SUFFICES ASSUME e = n PROVE r.moov = "behind" /\ list[e].type \in Ends
    OBVIOUS
  <2>1. list[e].type \notin Datas
    BY <1>4, <1>5 DEF IsWritten, Datas
  <2> QED  BY <2>1 DEF Laid
<1>9. e < n \/ e = n
  BY <1>1, <1>3
<1>10. list[e].type \in Ends
  BY <1>7, <1>8, <1>9
<1>11. LastIn(list, e) = e
  <2>1. list[e].type \notin Nests
    BY <1>10 DEF Ends, Nests, Nesting, Containers
  <2> QED  BY <1>4, <2>1, LeafEnds
<1>12. ASSUME r.moov = "front", NEW j \in 1 .. e PROVE list[j].type # "free"
  <2>1. m = 2
    <3>1. list[m - 1].type = "ftyp"
      BY <1>6, <1>12
    <3>2. m - 1 = 1
      <4> SUFFICES ASSUME m - 1 # 1 PROVE FALSE
        OBVIOUS
      <4>1. /\ (m - 1) - 1 \in 1 .. n /\ (m - 1) - 1 < n
            /\ ((m - 1) - 1) + 1 = m - 1
        BY <1>1, <1>6
      <4>2. MayFollow(r, list[(m - 1) - 1], list[m - 1])
        BY <4>1, NextBox
      <4> QED  BY <3>1, <4>2 DEF MayFollow
    <3> QED  BY <3>2
  <2>2. CASE j = 1
    BY <1>1, <2>2
  <2>3. CASE j = 2
    BY <2>1, <2>3
  <2>4. CASE j > 2
    <3>1. j \in 1 .. n /\ j \in m + 1 .. e
      BY <1>3, <2>1, <2>4
    <3>2. list[j].level > 0 /\ IsWritten(list[j])
      BY <1>1, <1>2, <3>1, Layout DEF IsLastIn
    <3> QED  BY <3>2 DEF IsWritten
  <2> QED  BY <1>3, <2>2, <2>3, <2>4
<1> QED  BY <1>2, <1>3, <1>5, <1>6, <1>7, <1>8, <1>9, <1>10, <1>11, <1>12 DEF e

LEMMA MoovEndIs ==
  ASSUME Laid(recording, boxes), NEW m \in 1 .. Len(boxes), boxes[m].type = "moov"
  PROVE  MoovEnd = LastIn(boxes, m)
<1> DEFINE moov  == {i \in DOMAIN boxes : boxes[i].type = "moov"}
           front == {i \in DOMAIN boxes : \A j \in 1 .. i : boxes[j].type # "free"}
           e == LastIn(boxes, m)
<1>1. DOMAIN boxes = 1 .. Len(boxes) /\ Len(boxes) \in Nat
  BY DEF Laid, Leveled
<1>2. moov # {}
  BY <1>1
<1>3. /\ e \in m + 1 .. Len(boxes)
      /\ recording.moov = "behind" => e = Len(boxes)
      /\ recording.moov # "behind" => /\ recording.moov = "front" /\ e < Len(boxes)
                                      /\ boxes[e + 1].type = "free"
                                      /\ \A j \in 1 .. e : boxes[j].type # "free"
  BY MoovShape
<1> HIDE DEF e
<1>4. MoovEnd = IF moov = {} THEN 0
                ELSE IF recording.moov = "front" THEN Max(front) ELSE Len(boxes)
  BY DEF MoovEnd
<1>5. ASSUME recording.moov = "front" PROVE Max(front) = e
  <2>1. /\ e \in 1 .. Len(boxes) /\ e < Len(boxes) /\ boxes[e + 1].type = "free"
        /\ \A j \in 1 .. e : boxes[j].type # "free"
    BY <1>1, <1>3, <1>5
  <2>2. e \in front
    BY <1>1, <2>1
  <2>3. \A i \in front : i <= e
    <3>1. ASSUME NEW i \in front PROVE ~(i > e)
      <4>1. i \in 1 .. Len(boxes) /\ \A j \in 1 .. i : boxes[j].type # "free"
        BY <1>1
      <4>2. i > e => e + 1 \in 1 .. i
        BY <1>1, <2>1, <4>1
      <4> QED  BY <2>1, <4>1, <4>2
    <3>2. \A i \in front : i \in Nat
      BY <1>1
    <3> HIDE DEF front
    <3>3. e \in Nat
      BY <1>1, <2>1
    <3> QED  BY <3>1, <3>2, <3>3
  <2>4. front \subseteq Nat
    BY <1>1
  <2>5. Max(front) = CHOOSE x \in front : \A y \in front : x >= y
    BY DEF Max
  <2> HIDE DEF front
  <2>6. Max(front) \in front /\ \A y \in front : Max(front) >= y
    <3>1. \E x \in front : \A y \in front : x >= y
      BY <2>2, <2>3, <2>4
    <3> QED  BY <2>5, <3>1
  <2> QED  BY <2>2, <2>3, <2>4, <2>6
<1> QED  BY <1>2, <1>3, <1>4, <1>5 DEF e

LEMMA NoMoovEnd ==
  ASSUME \A m \in DOMAIN boxes : boxes[m].type # "moov"
  PROVE  MoovEnd = 0
<1>1. {i \in DOMAIN boxes : boxes[i].type = "moov"} = {}
  OBVIOUS
<1> QED  BY <1>1 DEF MoovEnd

(* Of a table that is skipped its number of entries is demanded.           *)
LEMMA TooManyStrict ==
  ASSUME NEW box, IsWritten(box), TooMany(box)
  PROVE  Strict(box) \in {8, 12} /\ Strict(box) <= Takes(box)
<1>1. /\ box.type \in {"stts", "stss", "stsc", "stsz", "stco"} /\ box.count \in Nat
  <2>1. box.type # "co64"
    BY DEF IsWritten, Nests, Nesting, Containers, Leaves
  <2> QED  BY <2>1 DEF TooMany, Tables, IsWritten
<1>2. Strict(box) = IF box.type = "stsz" THEN 12 ELSE 8
  BY <1>1 DEF Strict, VersionFlags
<1>3. CASE box.type = "stts"
  <2>1. Takes(box) = 8 + box.count * 8
    BY <1>3, TakesIs DEF TakesStts, VersionFlags
  <2> QED  BY <1>1, <1>2, <1>3, <2>1
<1>4. CASE box.type = "stss"
  <2>1. Takes(box) = 8 + box.count * 4
    BY <1>4, TakesIs DEF TakesStss, VersionFlags
  <2> QED  BY <1>1, <1>2, <1>4, <2>1
<1>5. CASE box.type = "stsc"
  <2>1. Takes(box) = 8 + box.count * 12
    BY <1>5, TakesIs DEF TakesStsc, VersionFlags
  <2> QED  BY <1>1, <1>2, <1>5, <2>1
<1>6. CASE box.type = "stsz"
  <2>1. Takes(box) = 12 + box.count * 4
    BY <1>6, TakesIs DEF TakesStsz, VersionFlags
  <2> QED  BY <1>1, <1>2, <1>6, <2>1
<1>7. CASE box.type = "stco"
  <2>1. Takes(box) = 8 + box.count * 4
    BY <1>7, TakesIs DEF TakesStco, VersionFlags
  <2> QED  BY <1>1, <1>2, <1>7, <2>1
<1> QED  BY <1>1, <1>3, <1>4, <1>5, <1>6, <1>7

(* What the dump takes of a box is in it, behind its header.               *)
LEMMA Taken ==
  ASSUME NEW box, IsWritten(box)
  PROVE  /\ HeaderOf(box) \in {8, 16} /\ Own(box) \in Nat
         /\ Takes(box) \in Nat /\ Strict(box) \in Nat
         /\ Strict(box) <= Takes(box)
         /\ HeaderOf(box) + Takes(box) <= Own(box)
         /\ HeaderOf(box) + Strict(box) <= Own(box)
<1>1. /\ Own(box) \in Nat /\ Takes(box) \in Nat /\ Header + Takes(box) <= Own(box)
  BY Lengths DEF Fits
<1>2. HeaderOf(box) \in {8, 16} /\ HeaderOf(box) + Takes(box) <= Own(box)
  <2>1. CASE box.type = "wide"
    <3>1. Own(box) = 2 * Header + box.bytes /\ Takes(box) = 0 /\ box.bytes \in Nat
      BY <2>1, OwnIs, TakesIs DEF IsWritten
    <3> QED  BY <2>1, <3>1 DEF HeaderOf, Header
  <2>2. CASE box.type # "wide"
    BY <1>1, <2>2 DEF HeaderOf, Header
  <2> QED  BY <2>1, <2>2
<1>3. Strict(box) \in Nat /\ Strict(box) <= Takes(box)
  <2>0. CASE TooMany(box)
    BY <2>0, TooManyStrict
  <2>1. CASE box.type \in {"url", "umeta"}
    <3>1. Strict(box) = 0
      BY <2>1 DEF Strict, TooMany, Tables
    <3> QED  BY <1>1, <3>1
  <2>2. CASE box.type = "gmin"
    <3>1. Strict(box) = TakesGmin - 2 /\ Takes(box) = TakesGmin
      BY <2>2, TakesIs DEF Strict, TooMany, Tables
    <3> QED  BY <3>1 DEF TakesGmin, VersionFlags
  <2>3. CASE box.type = "xyz"
    <3>1. Strict(box) = TakesXyz(box) - box.bytes /\ Takes(box) = TakesXyz(box)
      BY <2>3, TakesIs DEF Strict, TooMany, Tables
    <3>2. box.bytes \in Nat
      BY DEF IsWritten
    <3> QED  BY <3>1, <3>2 DEF TakesXyz
  <2>4. CASE ~TooMany(box) /\ box.type \notin {"url", "umeta", "gmin", "xyz"}
    <3>1. Strict(box) = Takes(box)
      BY <2>4 DEF Strict
    <3> QED  BY <1>1, <3>1
  <2> QED  BY <2>0, <2>1, <2>2, <2>3, <2>4
<1> QED  BY <1>1, <1>2, <1>3

LEMMA TimesAtLeast ==
  ASSUME NEW m \in Nat, NEW n \in Nat, m >= 1
  PROVE  m * n \in Nat /\ m * n >= n
OBVIOUS

(* The values of an 'ilst' with keys.                                      *)
LEMMA KeyedTaken ==
  ASSUME NEW box, IsWritten(box), box.type = "keyed"
  PROVE  /\ TakesKeyed(box.count, box) \in Nat
         /\ TakesKeyed(box.count, box) - NameBytes >= 24
         /\ NameBytes \in Nat
         /\ Own(box) = Header + TakesKeyed(box.count, box)
         /\ HeaderOf(box) = Header
<1>1. NameBytes \in Nat
  BY RecordingAssumption DEF RecordingAssumption
<1>2. /\ box.count \in Nat /\ box.count >= 1 /\ box.bytes \in Nat
      /\ box.bytes = box.count * NameBytes
  BY DEF IsWritten
<1>3. box.bytes >= NameBytes
  BY <1>1, <1>2, TimesAtLeast
<1>4. Own(box) = WrittenKeyed(box)
  BY OwnIs
<1> QED  BY <1>1, <1>2, <1>3, <1>4 DEF TakesKeyed, WrittenKeyed, HeaderOf, Header

(* A box is as long as what is written of it alone, at least, and ends in  *)
(* the file.                                                               *)
LEMMA SizeAtLeast ==
  ASSUME NEW r, NEW list, Laid(r, list), NEW i \in 1 .. Len(list)
  PROVE  /\ list[i].size \in Nat /\ list[i].size >= Own(list[i])
         /\ list[i].at + list[i].size = Start(list, LastIn(list, i) + 1)
         /\ LastIn(list, i) = i => list[i].size = Own(list[i])
<1> DEFINE e == LastIn(list, i)
<1>1. /\ e \in i .. Len(list) /\ Len(list) \in Nat /\ list[i].at \in Nat
      /\ list[i].size = Start(list, e + 1) - list[i].at
      /\ Start(list, i) = list[i].at /\ Own(list[i]) \in Nat
      /\ Start(list, i + 1) = Start(list, i) + Own(list[i])
  BY Layout
<1> HIDE DEF e
<1>2. i \in 1 .. Len(list) + 1 /\ e + 1 \in 1 .. Len(list) + 1 /\ i < e + 1
  BY <1>1
<1>3. Start(list, e + 1) \in Nat /\ Start(list, i) + Own(list[i]) <= Start(list, e + 1)
  BY <1>2, StartGrows
<1> QED  BY <1>1, <1>3 DEF e

LEMMA Accepting ==
  ASSUME Laid(recording, boxes)
  PROVE  BodiesAccepted
<1> SUFFICES ASSUME NEW i \in 1 .. Len(boxes)
             PROVE  boxes[i].size - HeaderOf(boxes[i]) >= Needs(boxes[i])
  BY DEF BodiesAccepted, Laid, Leveled
<1> DEFINE b == boxes[i]
           more == IF b.type \in {"ilst", "avc1", "hvc1"} THEN 8 ELSE 0
<1>1. IsWritten(b)
  BY Layout
<1>2. /\ Own(b) \in Nat /\ Needs(b) \in Nat /\ Header + Needs(b) <= Own(b) + more
  BY <1>1, Lengths DEF Fits, Accepted
<1>3. b.size \in Nat /\ b.size >= Own(b)
  BY SizeAtLeast
<1>4. b.size >= Own(b) + more
  <2>1. CASE b.type \in {"ilst", "avc1", "hvc1"}
    BY <2>1, NotEmpty
  <2>2. CASE b.type \notin {"ilst", "avc1", "hvc1"}
    BY <1>2, <1>3, <2>2
  <2> QED  BY <2>1, <2>2
<1>5. CASE b.type = "wide"
  <2>1. Needs(b) = 0 /\ HeaderOf(b) \in {8, 16} /\ HeaderOf(b) <= Own(b)
    BY <1>1, <1>5, NeedsIs, Taken
  <2> QED  BY <1>2, <1>3, <2>1
<1>6. CASE b.type # "wide"
  BY <1>2, <1>3, <1>4, <1>6 DEF HeaderOf, Header
<1> QED  BY <1>5, <1>6

-----------------------------------------------------------------------------
(* The calls in which the dump is.                                         *)

Frame == [size : Nat, read : Nat, left : Nat]

(* A call reads box i, at such a level, up to box next, which is in it or  *)
(* behind it.                                                              *)
Link(list, frame, i, next, level) ==
  /\ i \in 1 .. Len(list) /\ i < next /\ next <= LastIn(list, i) + 1
  /\ list[i].level = level /\ list[i].type \in Nests
  /\ frame.size = list[i].size
  /\ frame.read = Start(list, next) - list[i].at
  /\ list[i].type # "stsd" => frame.left = Unlimited
  /\ list[i].type = "stsd" => frame.left = (IF next = LastIn(list, i) + 1 THEN 0 ELSE 1)

(* The boxes of the calls, and the box at whose beginning the dump stands. *)
Stack(list, stack, w, lift) ==
  /\ w \in Seq(Nat) /\ Len(w) = Len(stack) + 1
  /\ w[Len(w)] \in 1 .. Len(list) + 1
  /\ \A d \in 1 .. Len(stack) : Link(list, stack[d], w[d], w[d + 1], d - 1 + lift)

(* A deeper box is inside.                                                 *)
LEMMA LinkIn ==
  ASSUME NEW r, NEW list, Laid(r, list), NEW frame, NEW i, NEW next, NEW level,
         Link(list, frame, i, next, level),
         next \in 1 .. Len(list), list[next].level > level
  PROVE  next \in i + 1 .. LastIn(list, i) /\ LastIn(list, next) <= LastIn(list, i)
<1> DEFINE e == LastIn(list, i)
<1>1. i \in 1 .. Len(list) /\ i < next /\ next <= e + 1 /\ list[i].level = level
  BY DEF Link
<1>2. e \in i .. Len(list) /\ IsLastIn(list, i, e) /\ Len(list) \in Nat /\ level \in Nat
  BY <1>1, Layout
<1>3. list[next].level \in Nat
  BY Layout
<1> HIDE DEF e
<1>4. next # e + 1
  <2> SUFFICES ASSUME next = e + 1 PROVE FALSE
    OBVIOUS
  <2>1. e < Len(list)
    BY <1>2
  <2>2. list[next].level <= list[i].level
    BY <1>2, <2>1 DEF IsLastIn
  <2> QED  BY <1>1, <1>2, <1>3, <2>2
<1>5. next \in i + 1 .. e
  BY <1>1, <1>2, <1>4
<1> QED  BY <1>1, <1>2, <1>5, Inner DEF e

(* A box is entered.                                                       *)
LEMMA StackPush ==
  ASSUME NEW r, NEW list, Laid(r, list), NEW stack \in Seq(Frame), NEW w,
         NEW lift \in {0, 1}, Stack(list, stack, w, lift), NEW q, q = w[Len(w)],
         NEW frame \in Frame, Link(list, frame, q, q + 1, Len(stack) + lift)
  PROVE  /\ Append(stack, frame) \in Seq(Frame)
         /\ Stack(list, Append(stack, frame), Append(w, q + 1), lift)
<1> DEFINE L == Len(stack)
           s == Append(stack, frame)
           t == Append(w, q + 1)
<1>1. L \in Nat /\ w \in Seq(Nat) /\ Len(w) = L + 1 /\ q \in Nat
  BY DEF Stack
<1>2. /\ s \in Seq(Frame) /\ t \in Seq(Nat) /\ Len(s) = L + 1 /\ Len(t) = L + 2
      /\ \A d \in 1 .. L : s[d] = stack[d] /\ t[d] = w[d] /\ t[d + 1] = w[d + 1]
      /\ s[L + 1] = frame /\ t[L + 1] = q /\ t[L + 2] = q + 1
  BY <1>1
<1>3. q + 1 \in 1 .. Len(list) + 1
  <2>1. q \in 1 .. Len(list)
    BY DEF Link
  <2> QED  BY <2>1, Layout
<1> HIDE DEF s, t
<1>4. ASSUME NEW d \in 1 .. L + 1 PROVE Link(list, s[d], t[d], t[d + 1], d - 1 + lift)
  <2>1. CASE d = L + 1
    <3>1. d + 1 = L + 2 /\ d - 1 + lift = L + lift
      BY <1>1, <2>1
    <3> QED  BY <1>2, <2>1, <3>1
  <2>2. CASE d \in 1 .. L
    BY <1>2, <2>2 DEF Stack
  <2> QED  BY <1>1, <2>1, <2>2
<1>5. Stack(list, s, t, lift)
  <2>1. Len(s) = L + 1 /\ Len(t) = Len(s) + 1 /\ t[Len(t)] = q + 1
    BY <1>1, <1>2
  <2> QED  BY <1>2, <1>3, <1>4, <2>1 DEF Stack
<1> QED  BY <1>2, <1>5 DEF s, t

(* A box is left, and not counted yet.                                     *)
LEMMA StackPop ==
  ASSUME NEW r, NEW list, Laid(r, list), NEW stack \in Seq(Frame), NEW w,
         NEW lift \in {0, 1}, Stack(list, stack, w, lift), stack # <<>>
  PROVE  LET s == SubSeq(stack, 1, Len(stack) - 1)
             t == SubSeq(w, 1, Len(stack))
         IN /\ s \in Seq(Frame) /\ Len(s) = Len(stack) - 1
            /\ Stack(list, s, t, lift) /\ t[Len(t)] = w[Len(stack)]
            /\ t[1] = w[1]
<1> DEFINE L == Len(stack)
           s == SubSeq(stack, 1, L - 1)
           t == SubSeq(w, 1, L)
<1>1. L \in Nat /\ L >= 1 /\ w \in Seq(Nat) /\ Len(w) = L + 1
  BY DEF Stack
<1>2. /\ s \in Seq(Frame) /\ t \in Seq(Nat) /\ Len(s) = L - 1 /\ Len(t) = L
      /\ \A d \in 1 .. L - 1 : s[d] = stack[d] /\ t[d] = w[d] /\ t[d + 1] = w[d + 1]
      /\ t[L] = w[L] /\ t[1] = w[1]
  <2>1. s \in Seq(Frame) /\ Len(s) = L - 1 /\ \A d \in 1 .. L - 1 : s[d] = stack[d]
    <3>1. s = [d \in 1 .. L - 1 |-> stack[d]] /\ L - 1 \in Nat
      BY <1>1
    <3>2. \A d \in 1 .. L - 1 : stack[d] \in Frame
      BY <1>1
    <3> HIDE DEF s
    <3> QED  BY <3>1, <3>2
  <2>2. t \in Seq(Nat) /\ Len(t) = L /\ \A d \in 1 .. L : t[d] = w[d]
    <3>1. L \in 0 .. Len(w)
      BY <1>1
    <3>2. t = [d \in 1 .. L |-> w[d]]
      BY <1>1
    <3>3. \A d \in 1 .. L : w[d] \in Nat
      BY <1>1
    <3> HIDE DEF t
    <3> QED  BY <1>1, <3>2, <3>3
  <2>3. \A d \in 1 .. L - 1 : d \in 1 .. L /\ d + 1 \in 1 .. L
    BY <1>1
  <2>4. 1 \in 1 .. L /\ L \in 1 .. L
    BY <1>1
  <2> HIDE DEF s, t
  <2> QED  BY <2>1, <2>2, <2>3, <2>4
<1>3. w[L] \in 1 .. Len(list) + 1
  <2>1. L \in 1 .. L
    BY <1>1
  <2>2. w[L] \in 1 .. Len(list) /\ Len(list) \in Nat
    BY <2>1 DEF Stack, Link, Laid, Leveled
  <2> QED  BY <2>2
<1>4. \A d \in 1 .. L - 1 : Link(list, s[d], t[d], t[d + 1], d - 1 + lift)
  <2> SUFFICES ASSUME NEW d \in 1 .. L - 1
               PROVE  Link(list, s[d], t[d], t[d + 1], d - 1 + lift)
    OBVIOUS
  <2>1. d \in 1 .. L
    BY <1>1
  <2>2. Link(list, stack[d], w[d], w[d + 1], d - 1 + lift)
    BY <2>1 DEF Stack
  <2> QED  BY <1>2, <2>2
<1> HIDE DEF s, t
<1>5. Stack(list, s, t, lift)
  BY <1>1, <1>2, <1>3, <1>4 DEF Stack
<1> QED  BY <1>2, <1>5 DEF s, t

(* Box c was read and is counted in box i around it.                       *)
Reading(frame, bytes) ==
  [size |-> frame.size, read |-> frame.read + bytes,
   left |-> IF frame.left = Unlimited THEN frame.left ELSE frame.left - 1]

LEMMA LinkCount ==
  ASSUME NEW r, NEW list, Laid(r, list), NEW frame \in Frame, NEW i, NEW level,
         NEW c \in 1 .. Len(list), Link(list, frame, i, c, level),
         list[c].level = level + 1
  PROVE  /\ Reading(frame, list[c].size) \in Frame
         /\ Link(list, Reading(frame, list[c].size), i, LastIn(list, c) + 1, level)
<1> DEFINE e == LastIn(list, c)
           f == LastIn(list, i)
           z == list[c].size
           g == Reading(frame, z)
<1>1. /\ i \in 1 .. Len(list) /\ list[i].level = level
      /\ list[i].type \in Nests /\ frame.size = list[i].size
      /\ frame.read = Start(list, c) - list[i].at
      /\ list[i].type # "stsd" => frame.left = Unlimited
      /\ list[i].type = "stsd" => frame.left = (IF c = f + 1 THEN 0 ELSE 1)
  BY DEF Link
<1>2. /\ e \in c .. Len(list) /\ Len(list) \in Nat /\ z \in Nat
      /\ Start(list, e + 1) = list[c].at + z /\ Start(list, c) = list[c].at
      /\ list[c].at \in Nat
  BY Layout, SizeAtLeast
<1>3. f \in i .. Len(list) /\ list[i].at \in Nat /\ list[i].level \in Nat
  BY <1>1, Layout
<1>4. c \in i + 1 .. f /\ e <= f
  <2>1. list[c].level > level
    BY <1>1, <1>3
  <2> QED  BY <2>1, LinkIn
<1> HIDE DEF e, f, z, g
<1>5. list[i].type = "stsd" => e = f /\ frame.left = 1
  <2> SUFFICES ASSUME list[i].type = "stsd" PROVE e = f /\ frame.left = 1
    OBVIOUS
  <2>1. c = i + 1
    BY <1>1, <1>4, StsdShape DEF f
  <2>2. e = f
    BY <1>1, <2>1, StsdShape DEF e, f
  <2>3. c # f + 1
    BY <1>1, <1>3, <1>4
  <2> QED  BY <1>1, <2>2, <2>3
<1>6. frame.size \in Nat /\ frame.read \in Nat /\ frame.left \in Nat
  BY DEF Frame
<1>7. /\ g.size = frame.size /\ g.read = frame.read + z
      /\ g.left = IF frame.left = Unlimited THEN frame.left ELSE frame.left - 1
      /\ g = [size |-> g.size, read |-> g.read, left |-> g.left]
  BY DEF g, Reading
<1>8. /\ list[i].type # "stsd" => g.left = Unlimited
      /\ list[i].type = "stsd" => g.left = 0
  BY <1>1, <1>5, <1>7 DEF Unlimited
<1>9. g.read = Start(list, e + 1) - list[i].at
  BY <1>1, <1>2, <1>3, <1>7
<1>10. g \in Frame
  <2>1. g.read \in Nat
    BY <1>2, <1>6, <1>7
  <2>2. g.left \in Nat
    BY <1>8 DEF Unlimited
  <2> QED  BY <1>6, <1>7, <2>1, <2>2 DEF Frame
<1>11. Link(list, g, i, e + 1, level)
  <2>1. i < e + 1 /\ e + 1 <= f + 1
    BY <1>1, <1>2, <1>3, <1>4
  <2> QED  BY <1>1, <1>5, <1>7, <1>8, <1>9, <2>1 DEF Link, f
<1> QED  BY <1>10, <1>11 DEF e, z, g

LEMMA CountedIs ==
  ASSUME NEW stack \in Seq(Frame), stack # <<>>, NEW z \in Nat
  PROVE  LET L == Len(stack) IN
         /\ L \in Nat /\ L >= 1 /\ L \in 1 .. L /\ stack[L] \in Frame
         /\ Len(Counted(stack, z)) = L
         /\ Counted(stack, z) =
              [d \in 1 .. L |-> IF d = L THEN Reading(stack[L], z) ELSE stack[d]]
<1> DEFINE L == Len(stack)
           f == stack[L]
           x == [stack EXCEPT ![L].read = @ + z]
           s == Counted(stack, z)
<1>1. L \in Nat /\ L >= 1 /\ L \in 1 .. L /\ f \in Frame
  OBVIOUS
<1>2. s = [x EXCEPT ![L].left = IF @ = Unlimited THEN @ ELSE @ - 1]
  BY DEF Counted
<1>3. f = [size |-> f.size, read |-> f.read, left |-> f.left]
  BY <1>1 DEF Frame
<1>4. stack = [d \in 1 .. L |-> stack[d]]
  BY <1>1
<1> HIDE DEF f, s
<1>5. x = [d \in 1 .. L |-> IF d = L THEN [f EXCEPT !.read = @ + z] ELSE stack[d]]
  BY <1>1, <1>4 DEF f
<1>6. [f EXCEPT !.read = @ + z] = [size |-> f.size, read |-> f.read + z, left |-> f.left]
  BY <1>3
<1> HIDE DEF x
<1>7. x[L] = [size |-> f.size, read |-> f.read + z, left |-> f.left]
  BY <1>1, <1>5, <1>6
<1>8. s = [d \in 1 .. L |-> IF d = L THEN [x[L] EXCEPT !.left = IF @ = Unlimited THEN @ ELSE @ - 1]
                           ELSE stack[d]]
  BY <1>1, <1>2, <1>5
<1>9. [x[L] EXCEPT !.left = IF @ = Unlimited THEN @ ELSE @ - 1] = Reading(f, z)
  BY <1>7 DEF Reading
<1>10. s = [d \in 1 .. L |-> IF d = L THEN Reading(f, z) ELSE stack[d]]
  BY <1>8, <1>9
<1>11. Len(s) = L
  BY <1>1, <1>10
<1> QED  BY <1>1, <1>10, <1>11 DEF f, s

(* The dump stands at box c, in the innermost call.                        *)
AtBox(list, stack, w, lift, c) ==
  /\ stack \in Seq(Frame) /\ lift \in {0, 1}
  /\ Stack(list, stack, w, lift) /\ c \in 1 .. Len(list) /\ c = w[Len(w)]
  /\ list[c].level = Len(stack) + lift

Onto(w, t, next) ==
  /\ t \in Seq(Nat) /\ Len(t) = Len(w) /\ t[Len(w)] = next
  /\ \A d \in 1 .. Len(w) - 1 : t[d] = w[d]

LEMMA OntoExists ==
  ASSUME NEW w \in Seq(Nat), w # <<>>, NEW next \in Nat
  PROVE  \E t : Onto(w, t, next)
<1> DEFINE u == [w EXCEPT ![Len(w)] = next]
<1>1. /\ u \in Seq(Nat) /\ Len(u) = Len(w) /\ u[Len(w)] = next
      /\ \A d \in 1 .. Len(w) - 1 : u[d] = w[d]
  OBVIOUS
<1> HIDE DEF u
<1> QED  BY <1>1 DEF Onto

LEMMA StackCount ==
  ASSUME NEW r, NEW list, Laid(r, list), NEW stack, NEW w, NEW lift, NEW c,
         AtBox(list, stack, w, lift, c), NEW t, Onto(w, t, LastIn(list, c) + 1)
  PROVE  /\ Counted(stack, list[c].size) \in Seq(Frame)
         /\ Len(Counted(stack, list[c].size)) = Len(stack)
         /\ Stack(list, Counted(stack, list[c].size), t, lift)
         /\ t \in Seq(Nat) /\ t[Len(t)] = LastIn(list, c) + 1
         /\ stack # <<>> => t[1] = w[1]
<1> DEFINE e == LastIn(list, c)
           z == list[c].size
           s == Counted(stack, z)
<1>0. /\ stack \in Seq(Frame) /\ lift \in {0, 1}
      /\ Stack(list, stack, w, lift) /\ c \in 1 .. Len(list) /\ c = w[Len(w)]
      /\ list[c].level = Len(stack) + lift
  BY DEF AtBox
<1> DEFINE L == Len(stack)
<1>1. L \in Nat /\ w \in Seq(Nat) /\ Len(w) = L + 1 /\ stack \in Seq(Frame)
  BY <1>0 DEF Stack
<1> HIDE DEF e, s, z
<1>2. e \in Nat /\ e + 1 \in 1 .. Len(list) + 1 /\ z \in Nat
  <2>1. e \in c .. Len(list) /\ Len(list) \in Nat
    BY <1>0, Layout DEF e
  <2>2. z \in Nat
    BY <1>0, SizeAtLeast DEF z
  <2> QED  BY <1>0, <2>1, <2>2
<1>3. /\ t \in Seq(Nat) /\ Len(t) = L + 1 /\ t[L + 1] = e + 1
      /\ \A d \in 1 .. L : t[d] = w[d]
  BY <1>1, <1>2 DEF Onto, e
<1>4. CASE stack = <<>>
  <2>1. L = 0 /\ s = stack
    BY <1>4 DEF Counted, s
  <2>2. Stack(list, s, t, lift)
    BY <1>1, <1>2, <1>3, <2>1 DEF Stack
  <2> QED  BY <1>0, <1>1, <1>3, <1>4, <2>1, <2>2 DEF s, e, z
<1>5. CASE stack # <<>>
  <2> DEFINE g == Reading(stack[L], z)
  <2>1. /\ L >= 1 /\ L \in 1 .. L /\ stack[L] \in Frame /\ Len(s) = L
        /\ s = [d \in 1 .. L |-> IF d = L THEN g ELSE stack[d]]
    BY <1>1, <1>2, <1>5, CountedIs DEF s
  <2>2. Link(list, stack[L], w[L], c, L - 1 + lift)
    BY <1>0, <1>1, <2>1 DEF Stack
  <2>3. list[c].level = (L - 1 + lift) + 1
    BY <1>0, <1>1
  <2>4. g \in Frame /\ Link(list, g, w[L], e + 1, L - 1 + lift)
    <3> DEFINE level == L - 1 + lift
    <3>1. Link(list, stack[L], w[L], c, level) /\ list[c].level = level + 1
      BY <2>2, <2>3
    <3> HIDE DEF level
    <3>2. g \in Frame /\ Link(list, g, w[L], e + 1, level)
      BY <1>0, <2>1, <3>1, LinkCount DEF e, z
    <3> QED  BY <3>2 DEF level
  <2> HIDE DEF g
  <2>5. \A d \in 1 .. L : s[d] \in Frame
    <3>1. \A d \in 1 .. L : stack[d] \in Frame
      BY <1>1
    <3> QED  BY <2>1, <2>4, <3>1
  <2>6. s \in Seq(Frame)
    <3>1. s = [d \in 1 .. L |-> s[d]]
      BY <2>1
    <3> QED  BY <1>1, <2>5, <3>1
  <2>7. \A d \in 1 .. L : Link(list, s[d], t[d], t[d + 1], d - 1 + lift)
    <3> SUFFICES ASSUME NEW d \in 1 .. L
                 PROVE  Link(list, s[d], t[d], t[d + 1], d - 1 + lift)
      OBVIOUS
    <3>1. CASE d = L
      BY <1>3, <2>1, <2>4, <3>1
    <3>2. CASE d # L
      <4>1. d + 1 \in 1 .. L
        BY <1>1, <3>2
      <4>2. Link(list, stack[d], w[d], w[d + 1], d - 1 + lift)
        BY <1>0 DEF Stack
      <4> QED  BY <1>3, <2>1, <3>2, <4>1, <4>2
    <3> QED  BY <3>1, <3>2
  <2>8. Stack(list, s, t, lift)
    BY <1>1, <1>2, <1>3, <2>1, <2>7 DEF Stack
  <2>9. t[1] = w[1]
    <3>1. L >= 1
      BY <2>1, Zenon
    <3>2. L \in Nat
      BY <1>1
    <3> HIDE DEF L
    <3>3. 1 \in 1 .. L
      BY <3>1, <3>2
    <3> QED  BY <1>3, <3>3
  <2> QED  BY <1>1, <1>3, <2>1, <2>6, <2>8, <2>9 DEF s, e, z
<1> QED  BY <1>3, <1>4, <1>5

-----------------------------------------------------------------------------
(* Where the dump stands.                                                  *)

Line == [level : Nat, size : Nat]

Fixed == recording \in Recordings /\ Laid(recording, boxes) /\ size \in 1 .. Whole

Types ==
  /\ pos \in Nat /\ readBytes \in Nat /\ last \in BOOLEAN
  /\ boxSize \in Nat /\ keyCount \in Nat
  /\ trackType \in {"none", "metadata", "other"}
  /\ phase \in {"dumping", "dumped", "failed", "lost", "undefined"}
  /\ frames \in Seq(Frame) /\ shown \in Seq(Line)
  /\ \A d \in 1 .. Len(frames) : frames[d].read <= frames[d].size

NoMoov(q) == \A m \in 1 .. q - 1 : boxes[m].type # "moov"

(* The box at which the dump stands is in the innermost call or behind it, *)
(* one level below its own behind a wide 'mdat'.                           *)
Place(w, q, lift) ==
  /\ Stack(boxes, frames, w, lift) /\ q = w[Len(w)]
  /\ q <= Len(boxes) => boxes[q].level <= Len(frames) + lift
  /\ lift = 1 => BehindWide /\ ~NoMoov(q)

(* What was read: all of it up to the first box of the moov.               *)
Bytes(w, q, lift) ==
  /\ \/ pos = Start(boxes, q) /\ ~last
     \/ q = Len(boxes) + 1 /\ frames = <<>> /\ (last \/ readBytes >= size)
  /\ ~last => readBytes + 8 * lift >= Start(boxes, w[1])
  /\ ~last /\ frames = <<>> /\ NoMoov(q) => readBytes = Start(boxes, q)

(* Boxes were skipped, and the header of the next is cut.                  *)
Skipped(q) ==
  q \in 1 .. Len(boxes) /\ boxes[q].type = "stts" /\ boxes[q].at + Header > size

Told(q) ==
  ~BehindWide => \/ Len(shown) = q - 1
                 \/ Len(shown) < q - 1 /\ Skipped(q)

(* What the dump keeps of the box before.                                  *)
Remembered(q) ==
  q > 1 =>
    /\ boxes[q - 1].type \in {"mdta", "keys"} => trackType = "metadata"
    /\ boxes[q - 1].type = "mdir" => trackType = "other"
    /\ boxes[q - 1].type = "keys" => keyCount = boxes[q - 1].count
    /\ boxes[q - 1].type = "free" => boxSize = boxes[q - 1].size

Cursor(w, q, lift) ==
  Place(w, q, lift) /\ Bytes(w, q, lift) /\ Told(q) /\ Remembered(q)

(* In a 'meta' that was taken for one of the root: nothing begins here.    *)
Off ==
  /\ BehindWide /\ Len(frames) = 1 /\ frames[1].read + Header <= frames[1].size
  /\ frames[1].left = Unlimited /\ Here = {} /\ ~last /\ pos + Header <= Whole

(* What was read of a box that was printed is in the file.                 *)
Passed(box) ==
  IF box.type = "keyed" THEN InFile(box, TakesKeyed(box.count, box) - NameBytes)
  ELSE InFile(box, Strict(box)) \/ NameCut(box)

Standing ==
  Off \/ \E w \in Seq(Nat), q \in Nat, lift \in {0, 1} : Cursor(w, q, lift)

DumpInv ==
  /\ Fixed /\ Types
  /\ phase = "dumping" => Standing
  /\ phase \in {"dumping", "dumped"} /\ ~BehindWide
       => \A j \in 1 .. Len(shown) : Passed(boxes[j])
  /\ phase \in {"failed", "undefined"} => IsCut
  /\ ShownInStep /\ WholeShown /\ CutNoticed

LEMMA WholeIs ==
  ASSUME Fixed
  PROVE  /\ Len(boxes) \in Nat /\ Len(boxes) >= 1 /\ DOMAIN boxes = 1 .. Len(boxes)
         /\ Whole \in Nat /\ size \in Nat /\ size <= Whole /\ size >= 1
         /\ Whole = Start(boxes, Len(boxes) + 1)
         /\ \A i \in 1 .. Len(boxes) :
              boxes[i].at \in Nat /\ boxes[i].at + Own(boxes[i]) <= Whole
<1>1. Laid(recording, boxes) /\ size \in 1 .. Whole
  BY DEF Fixed
<1>2. Len(boxes) \in Nat /\ Len(boxes) >= 1 /\ DOMAIN boxes = 1 .. Len(boxes)
  BY <1>1 DEF Laid, Leveled
<1>3. Whole = Start(boxes, Len(boxes) + 1)
  BY <1>2 DEF Whole, Start
<1>4. Len(boxes) + 1 \in 1 .. Len(boxes) + 1
  BY <1>2
<1>5. Whole \in Nat
  BY <1>1, <1>3, <1>4, StartGrows
<1>6. ASSUME NEW i \in 1 .. Len(boxes)
      PROVE  boxes[i].at \in Nat /\ boxes[i].at + Own(boxes[i]) <= Whole
  <2>1. i \in 1 .. Len(boxes) + 1 /\ i < Len(boxes) + 1
    BY <1>2
  <2>2. Start(boxes, i) = boxes[i].at /\ boxes[i].at \in Nat
    BY <1>1, Layout
  <2> QED  BY <1>1, <1>3, <1>4, <2>1, <2>2, StartGrows
<1> QED  BY <1>1, <1>2, <1>3, <1>5, <1>6

(* A box begins here, and no other.                                        *)
LEMMA HereIs ==
  ASSUME Fixed, NEW q \in 1 .. Len(boxes), pos = Start(boxes, q)
  PROVE  Here = {q} /\ Found = boxes[q] /\ boxes[q].at = pos
<1>1. Laid(recording, boxes) /\ DOMAIN boxes = 1 .. Len(boxes) /\ Len(boxes) \in Nat
  BY WholeIs DEF Fixed
<1>2. boxes[q].at = pos
  BY <1>1, Layout
<1>3. ASSUME NEW i \in 1 .. Len(boxes), boxes[i].at = pos PROVE i = q
  <2>1. Start(boxes, i) = boxes[i].at
    BY <1>1, Layout
  <2>2. i \in 1 .. Len(boxes) + 1 /\ q \in 1 .. Len(boxes) + 1 /\ i \in Nat /\ q \in Nat
    BY <1>1
  <2>3. Start(boxes, i) \in Nat /\ Start(boxes, q) \in Nat
    BY <1>1, <2>2, StartGrows
  <2>4. ~(i < q)
    BY <1>1, <1>3, <2>1, <2>2, <2>3, StartGrows
  <2>5. ~(q < i)
    BY <1>1, <1>3, <2>1, <2>2, <2>3, StartGrows
  <2> QED  BY <2>2, <2>4, <2>5
<1>4. Here = {q}
  BY <1>1, <1>2, <1>3 DEF Here
<1> QED  BY <1>2, <1>4 DEF Found

(* The loop in a box, by where the next box is.                            *)
LEMMA LoopIs ==
  ASSUME NEW r, NEW list, Laid(r, list), NEW frame \in Frame, NEW i,
         NEW next \in Nat, NEW level, Link(list, frame, i, next, level), last \in BOOLEAN
  PROVE  /\ next \in 1 .. Len(list) + 1 /\ LastIn(list, i) \in 1 .. Len(list)
         /\ frame.read <= frame.size
         /\ GoesOn(frame) => next # LastIn(list, i) + 1 /\ (list[i].type # "stsd" => ~last)
         /\ ~GoesOn(frame) /\ ~last => next = LastIn(list, i) + 1
<1> DEFINE f == LastIn(list, i)
<1>1. /\ i \in 1 .. Len(list) /\ i < next /\ next <= f + 1
      /\ frame.size = list[i].size
      /\ frame.read = Start(list, next) - list[i].at
      /\ list[i].type # "stsd" => frame.left = Unlimited
      /\ list[i].type = "stsd" => frame.left = (IF next = f + 1 THEN 0 ELSE 1)
  BY DEF Link
<1>2. /\ f \in i .. Len(list) /\ Len(list) \in Nat /\ list[i].at \in Nat
      /\ list[i].size = Start(list, f + 1) - list[i].at
  BY <1>1, Layout
<1> HIDE DEF f
<1>3. f + 1 \in 1 .. Len(list) + 1 /\ f \in 1 .. Len(list)
  BY <1>1, <1>2
<1>4. next \in 1 .. Len(list) + 1
  BY <1>1, <1>2
<1>5. Start(list, next) \in Nat /\ Start(list, f + 1) \in Nat
  BY <1>3, <1>4, StartGrows
<1>6. next < f + 1 => Start(list, next) + 8 <= Start(list, f + 1)
  BY <1>3, <1>4, StartGrows
<1>7. frame.read <= frame.size
  <2>1. Start(list, next) <= Start(list, f + 1)
    <3>1. next < f + 1 \/ next = f + 1
      BY <1>1, <1>2
    <3> QED  BY <1>5, <1>6, <3>1
  <2> QED  BY <1>1, <1>2, <1>5, <2>1
<1>8. CASE list[i].type = "stsd"
  <2>1. frame.left # Unlimited
    BY <1>1, <1>8 DEF Unlimited
  <2>2. GoesOn(frame) <=> next # f + 1
    BY <1>1, <1>8, <2>1 DEF GoesOn
  <2> QED  BY <1>3, <1>4, <1>7, <1>8, <2>2 DEF f
<1>9. CASE list[i].type # "stsd"
  <2>1. GoesOn(frame) <=> frame.read + 8 <= frame.size /\ ~last
    BY <1>1, <1>9 DEF GoesOn, Header
  <2>2. frame.read + 8 <= frame.size <=> next # f + 1
    <3>1. frame.read + 8 <= frame.size <=> Start(list, next) + 8 <= Start(list, f + 1)
      BY <1>1, <1>2, <1>5
    <3>2. CASE next = f + 1
      <4>1. Start(list, next) = Start(list, f + 1)
        BY <3>2
      <4> QED  BY <1>5, <3>1, <3>2, <4>1
    <3>3. CASE next < f + 1
      BY <1>6, <3>1, <3>3
    <3> QED  BY <1>1, <1>2, <3>2, <3>3
  <2> QED  BY <1>3, <1>4, <1>7, <2>1, <2>2 DEF f
<1> QED  BY <1>8, <1>9

(* Where the innermost call is.                                            *)
LEMMA TopIs ==
  ASSUME Fixed, Types, NEW w, NEW q, NEW lift \in {0, 1}, Place(w, q, lift),
         frames # <<>>
  PROVE  LET L == Len(frames) IN
         /\ L \in Nat /\ L >= 1 /\ Top \in Frame /\ w \in Seq(Nat) /\ Len(w) = L + 1
         /\ q = w[L + 1] /\ q \in Nat /\ w[L] \in 1 .. Len(boxes)
         /\ Link(boxes, Top, w[L], q, L - 1 + lift)
<1> DEFINE L == Len(frames)
<1>1. frames \in Seq(Frame)
  BY DEF Types
<1>2. /\ Stack(boxes, frames, w, lift) /\ q = w[Len(w)]
  BY DEF Place
<1>3. w \in Seq(Nat) /\ Len(w) = L + 1 /\ L \in Nat /\ L >= 1
  BY <1>1, <1>2 DEF Stack
<1>4. L \in 1 .. L /\ q = w[L + 1] /\ q \in Nat /\ Top \in Frame
  BY <1>1, <1>2, <1>3 DEF Top
<1>5. Link(boxes, Top, w[L], q, L - 1 + lift)
  BY <1>2, <1>4 DEF Stack, Top
<1>6. w[L] \in 1 .. Len(boxes)
  BY <1>5 DEF Link
<1> QED  BY <1>3, <1>4, <1>5, <1>6

(* The dump goes on with the next box.                                     *)
LEMMA Onward ==
  ASSUME Fixed, Types, NEW w, NEW q \in Nat, NEW lift \in {0, 1}, Cursor(w, q, lift), Going
  PROVE  /\ q \in 1 .. Len(boxes) /\ pos = Start(boxes, q) /\ ~last
         /\ Here = {q} /\ Found = boxes[q] /\ boxes[q].at = pos
         /\ boxes[q].level = Len(frames) + lift
<1>1. /\ Stack(boxes, frames, w, lift) /\ q = w[Len(w)] /\ q \in 1 .. Len(boxes) + 1
      /\ q <= Len(boxes) => boxes[q].level <= Len(frames) + lift
      /\ lift = 1 => BehindWide /\ ~NoMoov(q)
  BY DEF Cursor, Place, Stack
<1>2. /\ Laid(recording, boxes) /\ last \in BOOLEAN /\ readBytes \in Nat
      /\ frames \in Seq(Frame) /\ Len(boxes) \in Nat /\ size \in Nat /\ size <= Whole
      /\ Whole = Start(boxes, Len(boxes) + 1)
  BY WholeIs DEF Fixed, Types
<1>3. /\ pos = Start(boxes, q) /\ ~last
      /\ q <= Len(boxes)
      /\ boxes[q].level = Len(frames) + lift
  <2>1. CASE frames = <<>>
    <3>1. ~last /\ readBytes + 8 < size /\ Len(frames) = 0
      BY <2>1 DEF Going, RootGoes, Header
    <3>2. pos = Start(boxes, q)
      BY <1>2, <3>1 DEF Cursor, Bytes
    <3>3. Len(w) = 1 /\ w[1] = q
      BY <1>1, <2>1 DEF Stack
    <3>4. readBytes + 8 * lift >= Start(boxes, q)
      BY <3>1, <3>3 DEF Cursor, Bytes
    <3>5. q # Len(boxes) + 1
      <4> SUFFICES ASSUME q = Len(boxes) + 1 PROVE FALSE
        OBVIOUS
      <4>1. Start(boxes, q) = Whole /\ Whole \in Nat
        BY <1>2, WholeIs
      <4>2. lift = 0 \/ lift = 1
        OBVIOUS
      <4> QED  BY <1>2, <3>1, <3>4, <4>1, <4>2
    <3>6. q \in 1 .. Len(boxes)
      BY <1>1, <1>2, <3>5
    <3>7. boxes[q].level \in Nat /\ boxes[q].level <= lift
      <4>1. boxes[q].level \in Nat
        BY <1>2, <3>6, Layout
      <4> QED  BY <1>1, <1>2, <3>1, <3>6, <4>1
    <3>8. lift = 1 => boxes[q].level > 0
      <4> SUFFICES ASSUME lift = 1 PROVE boxes[q].level > 0
        OBVIOUS
      <4>1. recording.moov = "behind" /\ ~NoMoov(q)
        BY <1>1 DEF BehindWide
      <4>2. PICK m \in 1 .. q - 1 : boxes[m].type = "moov"
        BY <4>1 DEF NoMoov
      <4>3. m \in 1 .. Len(boxes)
        BY <1>2, <3>6
      <4>4. LastIn(boxes, m) = Len(boxes) /\ boxes[m].level = 0
        BY <1>2, <4>1, <4>2, <4>3, MoovShape
      <4>5. q \in m + 1 .. LastIn(boxes, m)
        BY <1>2, <3>6, <4>2, <4>3, <4>4
      <4> QED  BY <1>2, <4>3, <4>4, <4>5, Inner
    <3>9. boxes[q].level = Len(frames) + lift
      BY <3>1, <3>7, <3>8
    <3> QED  BY <3>1, <3>2, <3>6, <3>9
  <2>2. CASE frames # <<>>
    <3> DEFINE L == Len(frames)
               i == w[L]
    <3>1. /\ L \in Nat /\ L >= 1 /\ Top \in Frame /\ q \in Nat /\ i \in 1 .. Len(boxes)
          /\ Link(boxes, Top, i, q, L - 1 + lift)
      BY <2>2, TopIs DEF Cursor
    <3>2. GoesOn(Top)
      BY <2>2 DEF Going
    <3> HIDE DEF i
    <3>3. q # LastIn(boxes, i) + 1 /\ LastIn(boxes, i) \in 1 .. Len(boxes)
      BY <1>2, <3>1, <3>2, LoopIs
    <3>4. /\ i < q /\ q <= LastIn(boxes, i) + 1 /\ boxes[i].level = L - 1 + lift
      BY <3>1 DEF Link
    <3>5. q \in i + 1 .. LastIn(boxes, i)
      BY <1>2, <3>1, <3>3, <3>4
    <3>6. q \in 1 .. Len(boxes) /\ boxes[q].level > boxes[i].level
      BY <1>2, <3>1, <3>5, Inner
    <3>7. boxes[q].level \in Nat /\ boxes[q].level <= L + lift
      <4>1. boxes[q].level \in Nat
        BY <1>2, <3>6, Layout
      <4> QED  BY <1>1, <1>2, <3>6, <4>1
    <3>8. boxes[q].level = L + lift
      BY <3>1, <3>4, <3>6, <3>7
    <3>9. pos = Start(boxes, q) /\ ~last
      BY <2>2 DEF Cursor, Bytes
    <3> QED  BY <3>6, <3>8, <3>9
  <2> QED  BY <2>1, <2>2
<1>4. q \in 1 .. Len(boxes)
  BY <1>1, <1>2, <1>3
<1>5. Here = {q} /\ Found = boxes[q] /\ boxes[q].at = pos
  BY <1>3, <1>4, HereIs
<1> QED  BY <1>3, <1>4, <1>5

(* Nothing is read in the wrong place but off the boxes.                   *)
LEMMA OffHere ==
  ASSUME NEW box, Off PROVE ~At(box)
BY DEF Off, At

(* A box is cut when its header or its fields are.                         *)
LEMMA CutIs ==
  ASSUME Fixed, NEW q \in 1 .. Len(boxes), NEW bytes \in Nat,
         ~InFile(boxes[q], bytes), HeaderOf(boxes[q]) + bytes <= Own(boxes[q])
  PROVE  IsCut
<1>1. /\ Whole \in Nat /\ size \in Nat /\ boxes[q].at \in Nat
      /\ boxes[q].at + Own(boxes[q]) <= Whole
  BY WholeIs
<1>2. IsWritten(boxes[q])
  BY Layout DEF Fixed
<1>3. HeaderOf(boxes[q]) \in Nat /\ Own(boxes[q]) \in Nat
  BY <1>2, Taken
<1>4. boxes[q].at + HeaderOf(boxes[q]) + bytes > size
  BY <1>1, <1>3 DEF InFile
<1> QED  BY <1>1, <1>3, <1>4 DEF IsCut

(* A box with keys is read with the keys that were read before it; the     *)
(* 'ilst' of an 'udta' is never taken for one.                             *)
LEMMA KeyedIs ==
  ASSUME Fixed, NEW q \in 1 .. Len(boxes), Remembered(q)
  PROVE  /\ IsKeyed(boxes[q]) <=> boxes[q].type = "keyed"
         /\ boxes[q].type = "keyed" => keyCount = boxes[q].count
<1>1. Laid(recording, boxes) /\ q \in Nat
  BY WholeIs DEF Fixed
<1>2. ASSUME boxes[q].type \in {"keyed", "ilst"}
      PROVE  /\ q > 1 /\ MayFollow(recording, boxes[q - 1], boxes[q])
  <2>1. boxes[q].type # "ftyp"
    BY <1>2
  <2>2. q - 1 \in 1 .. Len(boxes) /\ MayFollow(recording, boxes[q - 1], boxes[q])
    BY <1>1, <2>1, BoxBefore
  <2> QED  BY <1>1, <2>2
<1>3. boxes[q].type = "keyed" => trackType = "metadata" /\ keyCount = boxes[q].count
  BY <1>2 DEF MayFollow, Remembered
<1>4. boxes[q].type = "ilst" => trackType = "other"
  BY <1>2 DEF MayFollow, Remembered
<1> QED  BY <1>3, <1>4 DEF IsKeyed

(* The boxes printed are those of the file.                                *)
ShowsBoxes ==
  /\ Len(shown) <= Len(boxes)
  /\ \A i \in 1 .. Len(shown) :
       shown[i] = [level |-> boxes[i].level,
                   size |-> boxes[IF boxes[i].type = "open" THEN i - 1 ELSE i].size]

LEMMA InStepIs ==
  ASSUME shown \in Seq(Line)
  PROVE  ShownInStep <=> (~BehindWide => phase # "lost" /\ ShowsBoxes)
<1>1. DOMAIN shown = 1 .. Len(shown)
  OBVIOUS
<1> QED  BY <1>1 DEF ShownInStep, ShowsBoxes

(* The file stays as it is.                                                *)
LEMMA FileSame ==
  ASSUME UNCHANGED fileVars
  PROVE  /\ boxes' = boxes /\ recording' = recording /\ size' = size
         /\ Fixed' <=> Fixed
         /\ IsCut' <=> IsCut
         /\ BehindWide' <=> BehindWide
         /\ MoovEnd' = MoovEnd
         /\ \A j : Passed(boxes[j])' <=> Passed(boxes[j])
<1>1. boxes' = boxes /\ recording' = recording /\ size' = size
  BY DEF fileVars
<1>2. Whole' = Whole
  BY <1>1 DEF Whole
<1>3. Fixed' <=> Fixed
  BY <1>1, <1>2 DEF Fixed
<1>4. (IsCut' <=> IsCut) /\ (BehindWide' <=> BehindWide)
  BY <1>1, <1>2 DEF IsCut, BehindWide
<1>5. MoovEnd' = MoovEnd
  BY <1>1 DEF MoovEnd
<1>6. ASSUME NEW j PROVE Passed(boxes[j])' <=> Passed(boxes[j])
  BY <1>1 DEF Passed, InFile, NameCut
<1> QED  BY <1>1, <1>3, <1>4, <1>5, <1>6

(* A box is printed: it is the next one.                                   *)
LEMMA Showing ==
  ASSUME DumpInv, UNCHANGED fileVars, NEW i \in Here, At(boxes[i])
  PROVE  /\ Fixed /\ Types /\ phase = "dumping" /\ Going /\ DOMAIN boxes = 1 .. Len(boxes)
         /\ InFile(boxes[i], 0) /\ boxSize' = SizeRead(boxes[i])
         /\ i \in 1 .. Len(boxes) /\ pos = Start(boxes, i) /\ ~last
         /\ Here = {i} /\ boxes[i].at = pos
         /\ \E w \in Seq(Nat), lift \in {0, 1} :
              Cursor(w, i, lift) /\ boxes[i].level = Len(frames) + lift
         /\ boxSize' \in Nat /\ shown' \in Seq(Line) /\ Len(shown') = Len(shown) + 1
         /\ ~BehindWide => Len(shown) = i - 1 /\ ShowsBoxes'
<1>1. Going /\ InFile(boxes[i], 0) /\ boxSize' = SizeRead(boxes[i]) /\ Show(boxes[i])
  BY DEF At
<1>2. phase = "dumping" /\ Fixed /\ Types /\ ~Off /\ DOMAIN boxes = 1 .. Len(boxes)
  BY <1>1, OffHere, WholeIs DEF Going, DumpInv
<1>3. PICK w \in Seq(Nat), q \in Nat, lift \in {0, 1} : Cursor(w, q, lift)
  BY <1>2 DEF DumpInv, Standing
<1>4. /\ q \in 1 .. Len(boxes) /\ pos = Start(boxes, q) /\ ~last
      /\ Here = {q} /\ boxes[q].at = pos /\ boxes[q].level = Len(frames) + lift
  BY <1>1, <1>2, <1>3, Onward
<1>5. i = q
  BY <1>4
<1>6. IsWritten(boxes[i]) /\ boxes[i].size \in Nat /\ boxes[i].level \in Nat
  BY <1>2, <1>4, <1>5, Layout, SizeAtLeast DEF Fixed
<1>7. shown \in Seq(Line) /\ boxSize \in Nat /\ frames \in Seq(Frame)
  BY <1>2 DEF Types
<1>8. boxSize' \in Nat
  BY <1>1, <1>6, <1>7 DEF SizeRead
<1>9. shown' = Append(shown, [level |-> Len(frames), size |-> boxSize'])
  BY <1>1 DEF Show
<1>10. [level |-> Len(frames), size |-> boxSize'] \in Line
  BY <1>7, <1>8 DEF Line
<1>11. /\ shown' \in Seq(Line) /\ Len(shown') = Len(shown) + 1
       /\ \A j \in 1 .. Len(shown) : shown'[j] = shown[j]
       /\ shown'[Len(shown) + 1] = [level |-> Len(frames), size |-> boxSize']
  BY <1>7, <1>9, <1>10
<1>12. ASSUME ~BehindWide PROVE Len(shown) = i - 1 /\ ShowsBoxes'
  <2>1. lift = 0 /\ boxes[i].level = Len(frames)
    <3>1. lift # 1
      BY <1>3, <1>12 DEF Cursor, Place
    <3> QED  BY <1>4, <1>5, <1>7, <3>1
  <2>2. ~Skipped(i)
    <3>1. ASSUME boxes[i].type = "stts" PROVE boxes[i].at + Header <= size
      <4>1. HeaderOf(boxes[i]) = Header /\ boxes[i].at \in Nat
        BY <1>2, <1>4, <1>5, <3>1, WholeIs DEF HeaderOf
      <4> QED  BY <1>1, <4>1 DEF InFile, Header
    <3>2. boxes[i].at \in Nat /\ size \in Nat
      BY <1>2, <1>4, <1>5, WholeIs
    <3> QED  BY <3>1, <3>2 DEF Skipped, Header
  <2>3. Len(shown) = i - 1
    BY <1>3, <1>5, <1>12, <2>2 DEF Cursor, Told
  <2>4. boxSize' = boxes[IF boxes[i].type = "open" THEN i - 1 ELSE i].size
    <3>1. CASE boxes[i].type = "open"
      <4>1. Laid(recording, boxes) /\ boxes[i].type # "ftyp" /\ boxes[i].type \in Datas
        BY <1>2, <3>1 DEF Fixed, Datas
      <4>2. i - 1 \in 1 .. Len(boxes) /\ MayFollow(recording, boxes[i - 1], boxes[i])
        BY <1>4, <1>5, <4>1, BoxBefore
      <4>3. boxes[i - 1].type = "free"
        BY <4>1, <4>2 DEF MayFollow
      <4>5. i > 1
        BY <1>2, <1>4, <1>5, <4>2, WholeIs
      <4>4. boxSize = boxes[i - 1].size
        BY <1>3, <1>5, <4>3, <4>5 DEF Cursor, Remembered
      <4> QED  BY <1>1, <3>1, <4>4 DEF SizeRead
    <3>2. CASE boxes[i].type # "open"
      BY <1>1, <3>2 DEF SizeRead
    <3> QED  BY <3>1, <3>2
  <2>5. ShowsBoxes
    BY <1>7, <1>12, InStepIs DEF DumpInv
  <2>6. boxes' = boxes
    BY DEF fileVars
  <2>7. Len(shown) + 1 = i /\ Len(shown') = i
    BY <1>4, <1>5, <1>7, <1>11, <2>3
  <2>8. shown'[i] = [level |-> boxes[i].level,
                     size |-> boxes[IF boxes[i].type = "open" THEN i - 1 ELSE i].size]
    BY <1>11, <2>1, <2>4, <2>7
  <2>9. \A j \in 1 .. Len(shown') :
          shown'[j] = [level |-> boxes[j].level,
                       size |-> boxes[IF boxes[j].type = "open" THEN j - 1 ELSE j].size]
    <3> SUFFICES ASSUME NEW j \in 1 .. i, j # i PROVE j \in 1 .. Len(shown)
      BY <1>11, <2>5, <2>7, <2>8 DEF ShowsBoxes
    <3> QED  BY <1>4, <1>5, <1>7, <2>3
  <2>10. Len(shown') <= Len(boxes)
    BY <1>2, <1>4, <1>5, <2>7, WholeIs
  <2>11. ShowsBoxes'
    BY <2>6, <2>9, <2>10 DEF ShowsBoxes
  <2> QED  BY <2>3, <2>11
<1> QED  BY <1>1, <1>2, <1>3, <1>4, <1>5, <1>8, <1>11, <1>12

(* The dump ends here, in a box or in what is none.                        *)
LEMMA Refusing ==
  ASSUME DumpInv, phase = "dumping", UNCHANGED <<fileVars, pos, readBytes, last, boxVars, frames>>,
         phase' \in {"failed", "undefined"}, IsCut,
         boxSize' \in Nat, shown' \in Seq(Line), ~BehindWide => ShowsBoxes'
  PROVE  DumpInv'
<1>1. Fixed' /\ IsCut' /\ (BehindWide' <=> BehindWide)
  BY FileSame DEF DumpInv
<1>2. Types'
  BY DEF DumpInv, Types, boxVars
<1>3. ShownInStep'
  <2>1. DOMAIN shown' = 1 .. Len(shown')
    OBVIOUS
  <2>2. phase' # "lost"
    OBVIOUS
  <2> QED  BY <1>1, <2>1, <2>2 DEF ShownInStep, ShowsBoxes
<1>4. phase' # "dumping" /\ phase' # "dumped"
  OBVIOUS
<1>5. WholeShown'
  BY <1>1 DEF WholeShown
<1>6. CutNoticed'
  BY <1>4 DEF CutNoticed
<1> QED  BY <1>1, <1>2, <1>3, <1>4, <1>5, <1>6 DEF DumpInv

(* The dump goes on.                                                       *)
LEMMA Moving ==
  ASSUME DumpInv, phase = "dumping", UNCHANGED fileVars, phase' = "dumping",
         Types', Standing',
         ~BehindWide => ShowsBoxes' /\ \A j \in 1 .. Len(shown') : Passed(boxes[j])
  PROVE  DumpInv'
<1>1. Fixed' /\ (IsCut' <=> IsCut) /\ (BehindWide' <=> BehindWide)
  BY FileSame DEF DumpInv
<1>2. shown' \in Seq(Line) /\ DOMAIN shown' = 1 .. Len(shown')
  BY DEF Types
<1>3. ShownInStep'
  BY <1>1, <1>2 DEF ShownInStep, ShowsBoxes
<1>4. WholeShown' /\ CutNoticed'
  BY DEF WholeShown, CutNoticed
<1>5. ~BehindWide' => \A j \in 1 .. Len(shown') : Passed(boxes[j])'
  BY <1>1, FileSame
<1> QED  BY <1>1, <1>3, <1>4, <1>5 DEF DumpInv

LEMMA HeaderCutStep == ASSUME DumpInv, HeaderCut PROVE DumpInv'
<1>1. /\ Going /\ Fixed /\ Types /\ phase = "dumping" /\ phase' = "failed"
      /\ UNCHANGED <<fileVars, pos, readBytes, last, boxVars, frames>>
      /\ UNCHANGED <<boxSize, shown>>
      /\ pos + Header > size \/ (Here # {} /\ ~InFile(Found, 0))
  BY DEF HeaderCut, Fail, Going, DumpInv
<1>2. IsCut
  <2>1. CASE Off
    <3>1. Here = {} /\ pos + Header <= Whole
      BY <2>1 DEF Off
    <3>2. pos \in Nat /\ Whole \in Nat /\ size \in Nat
      BY <1>1, WholeIs DEF Types
    <3> QED  BY <1>1, <3>1, <3>2 DEF IsCut, Header
  <2>2. CASE \E w \in Seq(Nat), q \in Nat, lift \in {0, 1} : Cursor(w, q, lift)
    <3>1. PICK w \in Seq(Nat), q \in Nat, lift \in {0, 1} : Cursor(w, q, lift)
      BY <2>2
    <3>2. q \in 1 .. Len(boxes) /\ Found = boxes[q] /\ boxes[q].at = pos
      BY <1>1, <3>1, Onward
    <3>3. /\ IsWritten(boxes[q]) /\ Own(boxes[q]) \in Nat /\ Own(boxes[q]) >= 8
          /\ HeaderOf(boxes[q]) + Takes(boxes[q]) <= Own(boxes[q])
          /\ Takes(boxes[q]) \in Nat /\ HeaderOf(boxes[q]) \in {8, 16}
      BY <1>1, <3>2, Layout, Taken DEF Fixed
    <3>4. CASE pos + Header > size
      <4>1. /\ Whole \in Nat /\ size \in Nat /\ pos \in Nat
            /\ pos + Own(boxes[q]) <= Whole
        BY <1>1, <3>2, WholeIs DEF Types
      <4> QED  BY <3>3, <3>4, <4>1 DEF IsCut, Header
    <3>5. CASE ~InFile(boxes[q], 0)
      <4>1. HeaderOf(boxes[q]) + 0 <= Own(boxes[q])
        BY <3>3
      <4>2. 0 \in Nat
        OBVIOUS
      <4> QED  BY <1>1, <3>2, <3>5, <4>1, <4>2, CutIs
    <3> QED  BY <1>1, <3>2, <3>4, <3>5
  <2> QED  BY <1>1, <2>1, <2>2 DEF DumpInv, Standing
<1>3. boxSize' \in Nat /\ shown' \in Seq(Line)
  BY <1>1 DEF Types
<1>4. ~BehindWide => ShowsBoxes'
  <2> SUFFICES ASSUME ~BehindWide PROVE ShowsBoxes'
    OBVIOUS
  <2>1. ShowsBoxes
    BY <1>1, InStepIs DEF DumpInv, Types
  <2> QED  BY <1>1, <2>1 DEF ShowsBoxes, fileVars
<1> QED  BY <1>1, <1>2, <1>3, <1>4, Refusing

LEMMA OutOfStepStep == ASSUME DumpInv, OutOfStep PROVE DumpInv'
<1>1. /\ Going /\ Fixed /\ Types /\ phase = "dumping" /\ phase' = "lost" /\ Here = {}
      /\ UNCHANGED <<fileVars, pos, readBytes, last, boxSize, boxVars, frames, shown>>
  BY DEF OutOfStep, Going, DumpInv
<1>2. Off
  <2> SUFFICES ASSUME NEW w \in Seq(Nat), NEW q \in Nat, NEW lift \in {0, 1},
                      Cursor(w, q, lift)
               PROVE  FALSE
    BY <1>1 DEF DumpInv, Standing
  <2>1. Here = {q}
    BY <1>1, Onward
  <2> QED  BY <1>1, <2>1
<1>3. BehindWide' /\ Fixed'
  BY <1>1, <1>2, FileSame DEF Off
<1>4. Types'
  BY <1>1 DEF Types, boxVars
<1>5. ShownInStep' /\ WholeShown' /\ CutNoticed'
  BY <1>1, <1>3 DEF ShownInStep, WholeShown, CutNoticed
<1> QED  BY <1>1, <1>3, <1>4, <1>5 DEF DumpInv

LEMMA BodyCutStep == ASSUME DumpInv, NEW i \in Here, BodyCut(boxes[i]) PROVE DumpInv'
<1>1. /\ At(boxes[i]) /\ ~IsKeyed(boxes[i]) /\ ~InFile(boxes[i], Strict(boxes[i]))
      /\ phase' = "failed"
      /\ UNCHANGED <<fileVars, pos, readBytes, last, boxVars, frames>>
  BY DEF BodyCut, Fail
<1>2. UNCHANGED fileVars
  BY <1>1
<1>3. /\ Fixed /\ phase = "dumping" /\ i \in 1 .. Len(boxes)
      /\ boxSize' \in Nat /\ shown' \in Seq(Line) /\ (~BehindWide => ShowsBoxes')
  BY <1>1, <1>2, Showing
<1>4. IsWritten(boxes[i])
  BY <1>3, Layout DEF Fixed
<1>5. IsCut
  BY <1>1, <1>3, <1>4, Taken, CutIs
<1> QED  BY <1>1, <1>3, <1>5, Refusing

LEMMA KeyedCutStep == ASSUME DumpInv, NEW i \in Here, KeyedCut(boxes[i]) PROVE DumpInv'
<1>1. /\ At(boxes[i]) /\ IsKeyed(boxes[i])
      /\ ~InFile(boxes[i], TakesKeyed(keyCount, boxes[i]) - NameBytes)
      /\ phase' = "undefined"
      /\ UNCHANGED <<fileVars, pos, readBytes, last, boxVars, frames>>
  BY DEF KeyedCut
<1>2. UNCHANGED fileVars
  BY <1>1
<1>3. /\ Fixed /\ phase = "dumping" /\ i \in 1 .. Len(boxes)
      /\ boxSize' \in Nat /\ shown' \in Seq(Line) /\ (~BehindWide => ShowsBoxes')
      /\ \E w \in Seq(Nat), lift \in {0, 1} : Cursor(w, i, lift)
  BY <1>1, <1>2, Showing
<1>4. IsWritten(boxes[i]) /\ boxes[i].type = "keyed" /\ keyCount = boxes[i].count
  BY <1>1, <1>3, Layout, KeyedIs DEF Fixed, Cursor
<1> DEFINE bytes == TakesKeyed(boxes[i].count, boxes[i])
<1>5. /\ bytes \in Nat /\ bytes - NameBytes >= 24 /\ NameBytes \in Nat
      /\ Own(boxes[i]) = Header + bytes /\ HeaderOf(boxes[i]) = Header
  BY <1>4, KeyedTaken
<1>6. IsCut
  <2>1. ~InFile(boxes[i], bytes - NameBytes)
    BY <1>1, <1>4
  <2> HIDE DEF bytes
  <2>2. bytes - NameBytes \in Nat
    BY <1>5
  <2>3. HeaderOf(boxes[i]) + (bytes - NameBytes) <= Own(boxes[i])
    BY <1>5 DEF Header
  <2> QED  BY <1>3, <2>1, <2>2, <2>3, CutIs
<1> QED  BY <1>1, <1>3, <1>6, Refusing

(* A 'meta' holds its 'mdta'.                                              *)
LEMMA MetaShape ==
  ASSUME NEW r, NEW list, Laid(r, list), NEW i \in 1 .. Len(list), list[i].type = "meta"
  PROVE  /\ i + 1 \in 1 .. Len(list) /\ list[i].level > 0
         /\ Start(list, i + 1) = list[i].at + 8
         /\ Start(list, i + 2) = list[i].at + 41 /\ i + 2 \in 1 .. Len(list) + 1
         /\ list[i].size \in Nat /\ list[i].size >= 41 /\ list[i].at \in Nat
<1>1. i < Len(list)
  BY NotLast DEF Ends, Datas
<1>2. /\ i + 1 \in 1 .. Len(list) /\ IsWritten(list[i]) /\ IsWritten(list[i + 1])
      /\ list[i + 1].type = "mdta" /\ list[i + 1].level = list[i].level + 1
  BY <1>1, NextBox DEF MayFollow
<1>3. /\ Len(list) \in Nat /\ Start(list, i) = list[i].at /\ list[i].at \in Nat
      /\ Start(list, i + 1) = Start(list, i) + Own(list[i]) /\ list[i].level \in Nat
      /\ LastIn(list, i) \in i .. Len(list) /\ IsLastIn(list, i, LastIn(list, i))
  BY Layout
<1>4. Own(list[i]) = 8
  BY OwnIs DEF Header
<1>5. Own(list[i + 1]) = 33
  <2> DEFINE b == list[i + 1]
  <2>1. b.type = "mdta"
    BY <1>2
  <2> HIDE DEF b
  <2>2. Own(b) = WrittenMetaHdlr
    BY <2>1, OwnIs
  <2>3. WrittenMetaHdlr = 33
    BY DEF WrittenMetaHdlr, Header
  <2>4. Own(b) = 33
    BY <2>2, <2>3
  <2> QED  BY <2>4 DEF b
<1> DEFINE k == i + 1
           e == LastIn(list, i)
<1>6. Start(list, k + 1) = Start(list, k) + Own(list[k])
  BY <1>2, Layout
<1>7. Start(list, i + 2) = list[i].at + 41
  <2>1. k + 1 = i + 2
    BY <1>3
  <2> QED  BY <1>3, <1>4, <1>5, <1>6, <2>1
<1> HIDE DEF k, e
<1>8. e # i
  <2> SUFFICES ASSUME e = i PROVE FALSE
    OBVIOUS
  <2>1. list[i + 1].level <= list[i].level
    <3>1. IsLastIn(list, i, e) /\ e < Len(list)
      BY <1>1, <1>3 DEF e
    <3>2. list[e + 1].level <= list[i].level
      BY <3>1 DEF IsLastIn
    <3> QED  BY <3>2
  <2> QED  BY <1>2, <1>3, <2>1
<1>9. i + 2 \in 1 .. Len(list) + 1 /\ e + 1 \in 1 .. Len(list) + 1 /\ i + 2 <= e + 1
  BY <1>2, <1>3, <1>8 DEF e
<1>10. Start(list, i + 2) <= Start(list, e + 1) /\ Start(list, e + 1) \in Nat
  <2>1. i + 2 = e + 1 \/ i + 2 < e + 1
    BY <1>9
  <2>2. Start(list, e + 1) \in Nat /\ Start(list, i + 2) \in Nat
    BY <1>9, StartGrows
  <2>3. i + 2 < e + 1 => Start(list, i + 2) + 8 <= Start(list, e + 1)
    BY <1>9, StartGrows
  <2> QED  BY <2>1, <2>2, <2>3
<1>11. list[i].size = Start(list, e + 1) - list[i].at
  BY Layout DEF e
<1>12. list[i].level > 0
  BY <1>2, <1>3 DEF IsWritten
<1>13. Start(list, i + 1) = list[i].at + 8
  BY <1>3, <1>4
<1>14. list[i].size \in Nat /\ list[i].size >= 41
  <2>1. Start(list, e + 1) >= list[i].at + 41
    BY <1>3, <1>7, <1>10
  <2> QED  BY <1>3, <1>10, <1>11, <2>1
<1> QED  BY <1>2, <1>3, <1>7, <1>9, <1>12, <1>13, <1>14

(* The box was printed and what is looked at of it is there.               *)
LEMMA PassedAll ==
  ASSUME DumpInv, UNCHANGED fileVars, NEW i \in Here, At(boxes[i]), ~BehindWide,
         Passed(boxes[i])
  PROVE  \A j \in 1 .. Len(shown') : Passed(boxes[j])
<1>1. /\ phase = "dumping" /\ Len(shown) = i - 1 /\ Len(shown') = Len(shown) + 1
      /\ i \in 1 .. Len(boxes) /\ Types
  BY Showing
<1>2. \A j \in 1 .. Len(shown) : Passed(boxes[j])
  BY <1>1 DEF DumpInv
<1>3. Len(shown) \in Nat
  BY <1>1 DEF Types
<1>4. ASSUME NEW j \in 1 .. Len(shown') PROVE j \in 1 .. Len(shown) \/ j = i
  BY <1>1, <1>3
<1> QED  BY <1>2, <1>4

(* A 'meta' of the moov behind a wide 'mdat' is entered 4 bytes too far.   *)
LEMMA EnterOff ==
  ASSUME Fixed, Types, NEW q \in 1 .. Len(boxes), boxes[q].type = "meta",
         pos = Start(boxes, q), frames = <<>>, ~last, BehindWide, UNCHANGED <<fileVars, last>>,
         pos' = pos + 12,
         frames' = <<[size |-> boxes[q].size, read |-> 12, left |-> Unlimited]>>
  PROVE  Off' /\ frames' \in Seq(Frame) /\ frames'[1].read <= frames'[1].size
         /\ Len(frames') = 1
<1>1. /\ q + 1 \in 1 .. Len(boxes) /\ Start(boxes, q + 1) = boxes[q].at + 8
      /\ Start(boxes, q + 2) = boxes[q].at + 41 /\ q + 2 \in 1 .. Len(boxes) + 1
      /\ boxes[q].size \in Nat /\ boxes[q].size >= 41 /\ boxes[q].at \in Nat
      /\ Start(boxes, q) = boxes[q].at /\ Len(boxes) \in Nat /\ DOMAIN boxes = 1 .. Len(boxes)
  <2>1. Laid(recording, boxes)
    BY DEF Fixed
  <2>2. Start(boxes, q) = boxes[q].at
    BY <2>1, Layout
  <2>3. Len(boxes) \in Nat /\ DOMAIN boxes = 1 .. Len(boxes)
    BY WholeIs
  <2>4. /\ q + 1 \in 1 .. Len(boxes) /\ Start(boxes, q + 1) = boxes[q].at + 8
        /\ Start(boxes, q + 2) = boxes[q].at + 41 /\ q + 2 \in 1 .. Len(boxes) + 1
        /\ boxes[q].size \in Nat /\ boxes[q].size >= 41 /\ boxes[q].at \in Nat
    BY <2>1, MetaShape
  <2> QED  BY <2>2, <2>3, <2>4
<1>2. /\ frames'[1].size = boxes[q].size /\ frames'[1].read = 12
      /\ frames'[1].left = Unlimited /\ Len(frames') = 1
  OBVIOUS
<1>3. frames' \in Seq(Frame)
  BY <1>1 DEF Frame, Unlimited
<1>4. boxes' = boxes /\ size' = size /\ BehindWide' /\ Whole' = Whole
  BY FileSame DEF fileVars, Whole
<1>5. ASSUME NEW j \in 1 .. Len(boxes) PROVE boxes[j].at # boxes[q].at + 12
  <2>1. Start(boxes, j) = boxes[j].at /\ boxes[j].at \in Nat /\ Laid(recording, boxes)
    BY Layout DEF Fixed
  <2>2. j \in 1 .. Len(boxes) + 1 /\ q + 1 \in 1 .. Len(boxes) + 1
    BY <1>1
  <2>3. CASE j < q + 1
    <3>1. Start(boxes, j) + 8 <= Start(boxes, q + 1)
      BY <2>1, <2>2, <2>3, StartGrows
    <3>2. Start(boxes, q + 1) = boxes[q].at + 8 /\ boxes[q].at \in Nat
      BY <1>1
    <3> QED  BY <2>1, <3>1, <3>2
  <2>4. CASE j = q + 1
    BY <1>1, <2>1, <2>4
  <2>5. CASE j > q + 1
    <3>1. j = q + 2 \/ q + 2 < j
      BY <1>1, <2>5
    <3>2. q + 2 < j => Start(boxes, q + 2) + 8 <= Start(boxes, j)
      BY <1>1, <2>1, <2>2, StartGrows
    <3> QED  BY <1>1, <2>1, <3>1, <3>2
  <2> QED  BY <1>1, <2>3, <2>4, <2>5
<1>6. Here' = {}
  BY <1>1, <1>4, <1>5 DEF Here
<1>7. pos' + 8 <= Whole
  <2>1. Own(boxes[q + 1]) \in Nat /\ Start(boxes, (q + 1) + 1) = Start(boxes, q + 1) + Own(boxes[q + 1])
        /\ boxes[q + 1].at = Start(boxes, q + 1)
    BY <1>1, Layout DEF Fixed
  <2>2. boxes[q + 1].at + Own(boxes[q + 1]) <= Whole /\ Whole \in Nat
    BY <1>1, WholeIs
  <2>3. (q + 1) + 1 = q + 2
    BY <1>1
  <2>4. boxes[q].at + 41 <= Whole
    BY <1>1, <2>1, <2>2, <2>3
  <2> QED  BY <1>1, <2>2, <2>4
<1>8. frames'[1].read + 8 <= frames'[1].size
  BY <1>1, <1>2
<1>9. Off'
  BY <1>2, <1>4, <1>6, <1>7, <1>8 DEF Off, Header
<1> QED  BY <1>1, <1>2, <1>3, <1>9

(* What is read before the boxes inside of a box is what was written.      *)
LEMMA EnterLink ==
  ASSUME NEW r, NEW list, Laid(r, list), NEW q \in 1 .. Len(list), list[q].type \in Nests,
         NEW level, list[q].level = level,
         NEW frame, frame = [size |-> list[q].size, read |-> Own(list[q]),
                             left |-> IF list[q].type = "stsd" THEN list[q].count ELSE Unlimited]
  PROVE  frame \in Frame /\ frame.read <= frame.size /\ Link(list, frame, q, q + 1, level)
<1>1. /\ IsWritten(list[q]) /\ Own(list[q]) \in Nat /\ Len(list) \in Nat
      /\ Start(list, q) = list[q].at /\ list[q].at \in Nat
      /\ Start(list, q + 1) = Start(list, q) + Own(list[q])
      /\ LastIn(list, q) \in q .. Len(list)
  BY Layout
<1>2. list[q].size \in Nat /\ list[q].size >= Own(list[q])
  BY SizeAtLeast
<1>3. list[q].type = "stsd" => list[q].count = 1 /\ LastIn(list, q) > q
  BY StsdShape
<1>4. /\ frame.size = list[q].size /\ frame.read = Own(list[q])
      /\ list[q].type # "stsd" => frame.left = Unlimited
      /\ list[q].type = "stsd" => frame.left = 1
  BY <1>3
<1>5. frame.left \in Nat
  BY <1>4 DEF Unlimited
<1>6. frame \in Frame
  <2>1. frame = [size |-> frame.size, read |-> frame.read, left |-> frame.left]
    OBVIOUS
  <2> QED  BY <1>1, <1>2, <1>4, <1>5, <2>1 DEF Frame
<1>7. frame.read = Start(list, q + 1) - list[q].at
  BY <1>1, <1>4
<1>8. q < q + 1 /\ q + 1 <= LastIn(list, q) + 1
  BY <1>1
<1>9. list[q].type = "stsd" => q + 1 # LastIn(list, q) + 1
  BY <1>1, <1>3
<1>10. Link(list, frame, q, q + 1, level)
  BY <1>4, <1>7, <1>8, <1>9 DEF Link
<1> QED  BY <1>1, <1>2, <1>4, <1>6, <1>10

(* The loop inside of a box begins at the first box in it.                 *)
LEMMA EnterCursor ==
  ASSUME Fixed, Types, NEW q \in 1 .. Len(boxes), NEW w \in Seq(Nat), NEW lift \in {0, 1},
         Cursor(w, q, lift), boxes[q].level = Len(frames) + lift, boxes[q].type \in Nests,
         pos = Start(boxes, q), ~last, UNCHANGED <<fileVars, readBytes, last, boxVars>>,
         Len(shown') = Len(shown) + 1, ~BehindWide => Len(shown) = q - 1,
         pos' = pos + Own(boxes[q]),
         frames' = Append(frames, [size |-> boxes[q].size, read |-> Own(boxes[q]),
                                   left |-> IF boxes[q].type = "stsd" THEN boxes[q].count
                                            ELSE Unlimited])
  PROVE  /\ Standing' /\ frames' \in Seq(Frame)
         /\ \A d \in 1 .. Len(frames') : frames'[d].read <= frames'[d].size
<1> DEFINE frame == [size |-> boxes[q].size, read |-> Own(boxes[q]),
                     left |-> IF boxes[q].type = "stsd" THEN boxes[q].count ELSE Unlimited]
<1>1. Laid(recording, boxes) /\ Len(boxes) \in Nat /\ boxes' = boxes
  BY WholeIs DEF Fixed, fileVars
<1>2. /\ Stack(boxes, frames, w, lift) /\ q = w[Len(w)] /\ frames \in Seq(Frame)
      /\ Len(w) = Len(frames) + 1 /\ Len(frames) \in Nat
  BY DEF Cursor, Place, Types, Stack
<1>3. /\ frame \in Frame /\ frame.read <= frame.size
      /\ Link(boxes, frame, q, q + 1, Len(frames) + lift)
  BY <1>1, EnterLink
<1>4. frames' = Append(frames, frame)
  OBVIOUS
<1> HIDE DEF frame
<1>5. PICK t : t = Append(w, q + 1)
  OBVIOUS
<1>6. /\ frames' \in Seq(Frame) /\ Stack(boxes, frames', t, lift)
  <2>1. /\ Append(frames, frame) \in Seq(Frame)
        /\ Stack(boxes, Append(frames, frame), Append(w, q + 1), lift)
    BY <1>1, <1>2, <1>3, StackPush
  <2> QED  BY <1>4, <1>5, <2>1
<1>7. /\ t \in Seq(Nat) /\ Len(t) = Len(w) + 1 /\ t[Len(t)] = q + 1 /\ t[1] = w[1]
      /\ Len(frames') = Len(frames) + 1 /\ q + 1 \in Nat
  BY <1>1, <1>2, <1>4, <1>5
<1>8. \A d \in 1 .. Len(frames') : frames'[d].read <= frames'[d].size
  <2> SUFFICES ASSUME NEW d \in 1 .. Len(frames') PROVE frames'[d].read <= frames'[d].size
    OBVIOUS
  <2>1. CASE d = Len(frames) + 1
    BY <1>2, <1>3, <1>4, <2>1
  <2>2. CASE d \in 1 .. Len(frames)
    <3>1. frames'[d] = frames[d]
      BY <1>2, <1>4, <2>2
    <3> QED  BY <2>2, <3>1 DEF Types
  <2>3. d = Len(frames) + 1 \/ d \in 1 .. Len(frames)
    <3> DEFINE L == Len(frames)
    <3>1. d \in 1 .. L + 1 /\ L \in Nat
      BY <1>2, <1>7
    <3> HIDE DEF L
    <3>2. d = L + 1 \/ d \in 1 .. L
      BY <3>1
    <3> QED  BY <3>2 DEF L
  <2> QED  BY <2>1, <2>2, <2>3
<1>9. Place(t, q + 1, lift)'
  <2>1. q + 1 <= Len(boxes) => boxes[q + 1].level <= Len(frames') + lift
    <3> SUFFICES ASSUME q + 1 <= Len(boxes) PROVE boxes[q + 1].level <= Len(frames') + lift
      OBVIOUS
    <3>1. q < Len(boxes)
      BY <1>1
    <3>2. boxes[q + 1].level \in Nat /\ boxes[q + 1].level <= boxes[q].level + 1
      BY <1>1, <3>1, LevelNext
    <3> QED  BY <1>2, <1>7, <3>2
  <2>2. lift = 1 => BehindWide' /\ ~NoMoov(q + 1)'
    <3> SUFFICES ASSUME lift = 1 PROVE BehindWide' /\ ~NoMoov(q + 1)'
      OBVIOUS
    <3>1. BehindWide /\ ~NoMoov(q)
      BY DEF Cursor, Place
    <3>2. PICK m \in 1 .. q - 1 : boxes[m].type = "moov"
      BY <3>1 DEF NoMoov
    <3>3. m \in 1 .. (q + 1) - 1
      BY <1>1
    <3>4. ~NoMoov(q + 1)'
      BY <1>1, <3>2, <3>3 DEF NoMoov
    <3> QED  BY <3>1, <3>4, FileSame
  <2> QED  BY <1>1, <1>6, <1>7, <2>1, <2>2 DEF Place
<1>10. Bytes(t, q + 1, lift)'
  <2>1. pos' = Start(boxes, q + 1)
    BY <1>1, Layout
  <2>2. frames' # <<>> /\ ~last'
    <3>1. frames' # <<>>
      BY <1>4
    <3>2. last' = last
      OBVIOUS
    <3> QED  BY <3>1, <3>2
  <2>3. readBytes' + 8 * lift >= Start(boxes, t[1])
    <3>1. readBytes + 8 * lift >= Start(boxes, w[1])
      BY DEF Cursor, Bytes
    <3>2. readBytes' = readBytes
      OBVIOUS
    <3> QED  BY <1>7, <3>1, <3>2
  <2> QED  BY <1>1, <2>1, <2>2, <2>3 DEF Bytes
<1>11. Told(q + 1)'
  <2>1. ~BehindWide => Len(shown') = (q + 1) - 1
    <3>1. shown \in Seq(Line)
      BY DEF Types
    <3> QED  BY <1>1, <3>1
  <2>2. BehindWide' <=> BehindWide
    BY FileSame
  <2> QED  BY <2>1, <2>2 DEF Told
<1>12. Remembered(q + 1)'
  <2>1. (q + 1) - 1 = q
    BY <1>1
  <2> QED  BY <1>1, <2>1 DEF Remembered, Nests, Nesting, Containers
<1>13. Cursor(t, q + 1, lift)'
  BY <1>9, <1>10, <1>11, <1>12 DEF Cursor
<1> QED  BY <1>6, <1>7, <1>8, <1>13 DEF Standing

LEMMA EnterStep == ASSUME DumpInv, NEW q \in Here, Enter(boxes[q]) PROVE DumpInv'
<1>1. /\ At(boxes[q]) /\ boxes[q].type \in Nesting \cup {"ilst", "keyed"}
      /\ ~IsKeyed(boxes[q]) /\ InFile(boxes[q], Strict(boxes[q]))
      /\ pos' = pos + BeforeInside(boxes[q])
      /\ frames' = Append(frames, [size |-> boxes[q].size, read |-> BeforeInside(boxes[q]),
                                   left |-> IF boxes[q].type = "stsd" THEN boxes[q].count
                                            ELSE Unlimited])
      /\ UNCHANGED <<fileVars, readBytes, last, boxVars, phase>>
  BY DEF Enter
<1>2. UNCHANGED fileVars
  BY <1>1
<1>3. /\ Fixed /\ Types /\ phase = "dumping" /\ q \in 1 .. Len(boxes)
      /\ pos = Start(boxes, q) /\ ~last
      /\ boxSize' \in Nat /\ shown' \in Seq(Line) /\ Len(shown') = Len(shown) + 1
      /\ ~BehindWide => Len(shown) = q - 1 /\ ShowsBoxes'
  BY <1>1, <1>2, Showing
<1>4. PICK w \in Seq(Nat), lift \in {0, 1} :
        Cursor(w, q, lift) /\ boxes[q].level = Len(frames) + lift
  BY <1>1, <1>2, Showing
<1>5. boxes[q].type \in Nests /\ boxes[q].type # "keyed"
  <2>1. boxes[q].type # "keyed"
    BY <1>1, <1>3, <1>4, KeyedIs DEF Cursor
  <2> QED  BY <1>1, <2>1 DEF Nests
<1>6. Own(boxes[q]) = 8 + Takes(boxes[q]) /\ Own(boxes[q]) \in Nat
  <2>1. IsWritten(boxes[q])
    BY <1>3, Layout DEF Fixed
  <2> QED  BY <1>5, <2>1, Lengths DEF Tight, Fits, Header
<1>7. /\ Standing' /\ frames' \in Seq(Frame) /\ pos' \in Nat
      /\ \A d \in 1 .. Len(frames') : frames'[d].read <= frames'[d].size
  <2>1. CASE boxes[q].type = "meta" /\ frames = <<>>
    <3>1. BeforeInside(boxes[q]) = 12
      BY <2>1 DEF BeforeInside, Header, VersionFlags
    <3>2. lift = 1
      <4>1. boxes[q].level > 0
        BY <1>3, <2>1, MetaShape DEF Fixed
      <4> QED  BY <1>4, <2>1, <4>1
    <3>3. BehindWide
      BY <1>4, <3>2 DEF Cursor, Place
    <3>4. frames' = <<[size |-> boxes[q].size, read |-> 12, left |-> Unlimited]>>
      BY <1>1, <2>1, <3>1
    <3>5. pos' = pos + 12 /\ UNCHANGED <<fileVars, last>>
      BY <1>1, <3>1
    <3>6. Off' /\ frames' \in Seq(Frame) /\ frames'[1].read <= frames'[1].size /\ Len(frames') = 1
      BY <1>3, <2>1, <3>3, <3>4, <3>5, EnterOff
    <3>7. pos' \in Nat
      BY <1>3, <3>5 DEF Types
    <3>8. \A d \in 1 .. Len(frames') : d = 1
      BY <3>6
    <3> QED  BY <3>6, <3>7, <3>8 DEF Standing
  <2>2. CASE ~(boxes[q].type = "meta" /\ frames = <<>>)
    <3>1. BeforeInside(boxes[q]) = Own(boxes[q])
      <4>1. boxes[q].type = "meta" => Takes(boxes[q]) = 0
        BY TakesIs
      <4> QED  BY <1>6, <2>2, <4>1 DEF BeforeInside, Header
    <3>2. pos' = pos + Own(boxes[q])
      BY <1>1, <3>1
    <3>3. frames' = Append(frames, [size |-> boxes[q].size, read |-> Own(boxes[q]),
                                    left |-> IF boxes[q].type = "stsd" THEN boxes[q].count
                                             ELSE Unlimited])
      BY <1>1, <3>1
    <3>4. UNCHANGED <<fileVars, readBytes, last, boxVars>>
      BY <1>1
    <3>5. /\ Standing' /\ frames' \in Seq(Frame)
          /\ \A d \in 1 .. Len(frames') : frames'[d].read <= frames'[d].size
      BY <1>3, <1>4, <1>5, <3>2, <3>3, <3>4, EnterCursor
    <3>6. pos' \in Nat
      BY <1>3, <1>6, <3>2 DEF Types
    <3> QED  BY <3>5, <3>6
  <2> QED  BY <2>1, <2>2
<1>8. Types'
  BY <1>1, <1>3, <1>7 DEF Types, boxVars
<1>9. ~BehindWide => \A j \in 1 .. Len(shown') : Passed(boxes[j])
  BY <1>1, <1>2, <1>5, PassedAll DEF Passed
<1> QED  BY <1>1, <1>3, <1>7, <1>8, <1>9, Moving

(* A box was read to its end: the dump stands behind it.                   *)
Ending(stack, v, lift, c) ==
  AtBox(boxes, stack, v, lift, c) /\ (lift = 1 => BehindWide /\ ~NoMoov(c))

LEMMA PlaceCount ==
  ASSUME Fixed, Types, UNCHANGED fileVars, NEW stack, NEW v, NEW lift, NEW c,
         Ending(stack, v, lift, c), frames' = Counted(stack, boxes[c].size),
         NEW e, e = LastIn(boxes, c)
  PROVE  /\ frames' \in Seq(Frame)
         /\ \A d \in 1 .. Len(frames') : frames'[d].read <= frames'[d].size
         /\ \E t \in Seq(Nat) :
              /\ Place(t, e + 1, lift)'
              /\ stack # <<>> => t[1] = v[1] /\ frames' # <<>>
              /\ stack = <<>> => t[1] = e + 1 /\ frames' = <<>>
<1>1. Laid(recording, boxes) /\ Len(boxes) \in Nat /\ boxes' = boxes /\ last \in BOOLEAN
  BY WholeIs DEF Fixed, Types, fileVars
<1>0. /\ AtBox(boxes, stack, v, lift, c) /\ (lift = 1 => BehindWide /\ ~NoMoov(c))
      /\ stack \in Seq(Frame) /\ lift \in {0, 1}
  BY DEF Ending, AtBox
<1>2. /\ e \in c .. Len(boxes) /\ IsLastIn(boxes, c, e) /\ boxes[c].level \in Nat
      /\ c \in 1 .. Len(boxes) /\ boxes[c].level = Len(stack) + lift
  <2>1. c \in 1 .. Len(boxes) /\ boxes[c].level = Len(stack) + lift
    BY <1>0 DEF AtBox
  <2> QED  BY <1>1, <2>1, Layout
<1>3. PICK t : Onto(v, t, LastIn(boxes, c) + 1)
  <2>1. v \in Seq(Nat) /\ v # <<>>
    BY <1>0 DEF AtBox, Stack
  <2>2. LastIn(boxes, c) + 1 \in Nat
    BY <1>2
  <2> QED  BY <2>1, <2>2, OntoExists
<1>4. /\ frames' \in Seq(Frame) /\ Len(frames') = Len(stack)
      /\ Stack(boxes, frames', t, lift) /\ t[Len(t)] = e + 1
      /\ stack # <<>> => t[1] = v[1]
  <2>1. /\ Counted(stack, boxes[c].size) \in Seq(Frame)
        /\ Len(Counted(stack, boxes[c].size)) = Len(stack)
        /\ Stack(boxes, Counted(stack, boxes[c].size), t, lift)
        /\ t[Len(t)] = LastIn(boxes, c) + 1
        /\ stack # <<>> => t[1] = v[1]
    BY <1>0, <1>1, <1>3, StackCount
  <2> QED  BY <2>1
<1>5. t \in Seq(Nat) /\ Len(t) = Len(stack) + 1 /\ Len(stack) \in Nat
  BY <1>0, <1>4 DEF Stack
<1>6. /\ stack # <<>> => frames' # <<>>
      /\ stack = <<>> => t[1] = e + 1 /\ frames' = <<>>
  BY <1>4, <1>5 DEF Counted
<1>7. \A d \in 1 .. Len(frames') : frames'[d].read <= frames'[d].size
  <2> SUFFICES ASSUME NEW d \in 1 .. Len(frames') PROVE frames'[d].read <= frames'[d].size
    OBVIOUS
  <2>1. /\ Link(boxes, frames'[d], t[d], t[d + 1], d - 1 + lift)
        /\ frames'[d] \in Frame
    <3>1. frames'[d] \in Frame
      BY <1>4
    <3> QED  BY <1>4, <3>1 DEF Stack
  <2>2. t[d + 1] \in Nat
    <3>1. d \in Nat /\ d >= 1 /\ d <= Len(stack)
      BY <1>4, <1>5
    <3> DEFINE k == d + 1
    <3>2. k \in 1 .. Len(t)
      BY <1>5, <3>1
    <3> HIDE DEF k
    <3>3. t[k] \in Nat
      BY <1>5, <3>2
    <3> QED  BY <3>3 DEF k
  <2> QED  BY <1>1, <2>1, <2>2, LoopIs
<1>8. Place(t, e + 1, lift)'
  <2>1. e + 1 <= Len(boxes) => boxes[e + 1].level <= Len(frames') + lift
    <3> SUFFICES ASSUME e + 1 <= Len(boxes) PROVE boxes[e + 1].level <= Len(frames') + lift
      OBVIOUS
    <3>1. e < Len(boxes)
      BY <1>1, <1>2
    <3>2. boxes[e + 1].level <= boxes[c].level
      BY <1>2, <3>1 DEF IsLastIn
    <3> QED  BY <1>2, <1>4, <3>2
  <2>2. lift = 1 => BehindWide' /\ ~NoMoov(e + 1)'
    <3> SUFFICES ASSUME lift = 1 PROVE BehindWide' /\ ~NoMoov(e + 1)'
      OBVIOUS
    <3>1. PICK m \in 1 .. c - 1 : boxes[m].type = "moov"
      BY <1>0 DEF NoMoov
    <3>2. m \in 1 .. (e + 1) - 1
      BY <1>1, <1>2
    <3>3. ~NoMoov(e + 1)'
      BY <1>1, <3>1, <3>2 DEF NoMoov
    <3> QED  BY <1>0, <3>3, FileSame
  <2>3. (e + 1 <= Len(boxes) => boxes[e + 1].level <= Len(frames) + lift)'
    BY <1>1, <2>1
  <2>4. Stack(boxes, frames, t, lift)'
    BY <1>1, <1>4
  <2> QED  BY <1>4, <2>2, <2>3, <2>4 DEF Place
<1> QED  BY <1>4, <1>5, <1>6, <1>7, <1>8

LEMMA LeaveStep == ASSUME DumpInv, Leave PROVE DumpInv'
<1> DEFINE L == Len(frames)
           s == SubSeq(frames, 1, L - 1)
           done == IF Top.read < Top.size THEN Top.size ELSE Top.read
<1>1. /\ phase = "dumping" /\ frames # <<>> /\ ~GoesOn(Top)
      /\ pos' = pos + (done - Top.read) /\ readBytes' = readBytes + done
      /\ boxSize' = Top.size /\ frames' = Counted(s, Top.size)
      /\ UNCHANGED <<fileVars, last, boxVars, phase, shown>>
  BY DEF Leave
<1>2. Fixed /\ Types /\ Laid(recording, boxes) /\ Len(boxes) \in Nat /\ DOMAIN boxes = 1 .. Len(boxes)
  BY WholeIs DEF DumpInv, Fixed
<1>3. ~Off
  <2> SUFFICES ASSUME Off PROVE FALSE
    OBVIOUS
  <2>1. Top.left = Unlimited /\ Top.read + Header <= Top.size /\ ~last
    BY DEF Off, Top
  <2> QED  BY <1>1, <2>1 DEF GoesOn
<1>4. PICK w \in Seq(Nat), q \in Nat, lift \in {0, 1} : Cursor(w, q, lift)
  BY <1>1, <1>3 DEF DumpInv, Standing
<1>5. pos = Start(boxes, q) /\ ~last
  BY <1>1, <1>4 DEF Cursor, Bytes
<1>6. PICK c \in 1 .. Len(boxes) :
        /\ L \in Nat /\ L >= 1 /\ Top \in Frame /\ Len(w) = L + 1 /\ c = w[L]
        /\ Link(boxes, Top, c, q, L - 1 + lift)
  BY <1>1, <1>2, <1>4, TopIs DEF Cursor
<1>7. q = LastIn(boxes, c) + 1
  BY <1>1, <1>2, <1>5, <1>6, LoopIs DEF Types
<1>e. PICK e \in Nat : e = LastIn(boxes, c) /\ q = e + 1 /\ e \in c .. Len(boxes)
  <2>1. LastIn(boxes, c) \in c .. Len(boxes)
    BY <1>2, Layout
  <2> QED  BY <1>2, <1>7, <2>1
<1>8. /\ Top.size = boxes[c].size /\ Top.read = Start(boxes, q) - boxes[c].at
      /\ boxes[c].level = L - 1 + lift /\ boxes[c].type \in Nests
  BY <1>6 DEF Link
<1>9. /\ boxes[c].size \in Nat /\ boxes[c].at \in Nat /\ IsWritten(boxes[c])
      /\ boxes[c].at + boxes[c].size = Start(boxes, q) /\ Start(boxes, c) = boxes[c].at
  BY <1>2, <1>7, Layout, SizeAtLeast
<1>10. done = boxes[c].size /\ done = Top.read /\ done \in Nat
  BY <1>8, <1>9
<1>11. pos' = pos /\ readBytes' = readBytes + boxes[c].size
  <2>1. pos \in Nat
    BY <1>2 DEF Types
  <2> HIDE DEF done
  <2> QED  BY <1>1, <1>10, <2>1
<1>12. PICK v : v = SubSeq(w, 1, L)
  OBVIOUS
<1>13. /\ s \in Seq(Frame) /\ Len(s) = L - 1 /\ Stack(boxes, s, v, lift)
       /\ c = v[Len(v)] /\ v[1] = w[1]
  <2>1. Stack(boxes, frames, w, lift) /\ frames \in Seq(Frame)
    BY <1>2, <1>4 DEF Cursor, Place, Types
  <2> QED  BY <1>1, <1>2, <1>6, <1>12, <2>1, StackPop
<1> HIDE DEF s, done
<1>14. lift = 1 => BehindWide /\ ~NoMoov(c)
  <2> SUFFICES ASSUME lift = 1 PROVE BehindWide /\ ~NoMoov(c)
    OBVIOUS
  <2>1. BehindWide /\ ~NoMoov(q)
    BY <1>4 DEF Cursor, Place
  <2>2. PICK m \in 1 .. q - 1 : boxes[m].type = "moov"
    BY <2>1 DEF NoMoov
  <2>3. m \in 1 .. Len(boxes) /\ m \in Nat /\ c \in Nat /\ m <= e
    BY <1>2, <1>e, <2>2
  <2>4. boxes[m].level = 0 /\ boxes[c].level \in Nat /\ boxes[c].level >= 1
    <3>1. boxes[m].level = 0
      BY <1>2, <2>2, <2>3, MoovShape
    <3>2. boxes[c].level \in Nat
      BY <1>2, Layout
    <3> QED  BY <1>6, <1>8, <3>1, <3>2
  <2>5. ~(m >= c)
    <3> SUFFICES ASSUME m >= c PROVE FALSE
      OBVIOUS
    <3>1. m # c
      BY <2>4
    <3>2. m \in c + 1 .. LastIn(boxes, c)
      <4>1. m \in c + 1 .. e
        BY <2>3, <3>1
      <4> QED  BY <1>e, <4>1
    <3>3. boxes[m].level > boxes[c].level
      BY <1>2, <3>2, Inner
    <3> QED  BY <2>4, <3>3
  <2>6. m \in 1 .. c - 1
    BY <2>3, <2>5
  <2> QED  BY <2>1, <2>2, <2>6 DEF NoMoov
<1>15. /\ frames' \in Seq(Frame)
       /\ \A d \in 1 .. Len(frames') : frames'[d].read <= frames'[d].size
       /\ \E t \in Seq(Nat) :
            /\ Place(t, q, lift)'
            /\ s # <<>> => t[1] = v[1] /\ frames' # <<>>
            /\ s = <<>> => t[1] = q /\ frames' = <<>>
  <2>1. Ending(s, v, lift, c)
    BY <1>8, <1>13, <1>14 DEF AtBox, Ending
  <2>2. frames' = Counted(s, boxes[c].size) /\ UNCHANGED fileVars
    BY <1>1, <1>8
  <2>3. /\ frames' \in Seq(Frame)
        /\ \A d \in 1 .. Len(frames') : frames'[d].read <= frames'[d].size
        /\ \E t \in Seq(Nat) :
             /\ Place(t, e + 1, lift)'
             /\ s # <<>> => t[1] = v[1] /\ frames' # <<>>
             /\ s = <<>> => t[1] = e + 1 /\ frames' = <<>>
    BY <1>2, <1>e, <2>1, <2>2, PlaceCount
  <2> QED  BY <1>e, <2>3
<1>16. PICK t \in Seq(Nat) :
         /\ Place(t, q, lift)'
         /\ s # <<>> => t[1] = v[1] /\ frames' # <<>>
         /\ s = <<>> => t[1] = q /\ frames' = <<>>
  BY <1>15
<1>17. boxes' = boxes /\ last' = last /\ shown' = shown /\ trackType' = trackType /\ keyCount' = keyCount
  BY <1>1 DEF fileVars, boxVars
<1>18. s = <<>> => v[1] = c /\ L = 1
  <2> SUFFICES ASSUME s = <<>> PROVE v[1] = c /\ L = 1
    OBVIOUS
  <2>1. Len(s) = 0
    OBVIOUS
  <2>2. L = 1
    BY <1>6, <1>13, <2>1
  <2> QED  BY <1>6, <1>13, <2>2
<1>19. Bytes(t, q, lift)'
  <2>1. readBytes \in Nat /\ readBytes + 8 * lift >= Start(boxes, w[1])
    BY <1>2, <1>4, <1>5 DEF Cursor, Bytes, Types
  <2>2. readBytes' + 8 * lift >= Start(boxes, t[1])
    <3>1. CASE s = <<>>
      <4>1. Start(boxes, t[1]) = boxes[c].at + boxes[c].size
        BY <1>9, <1>16, <3>1
      <4>2. Start(boxes, w[1]) = boxes[c].at
        BY <1>9, <1>13, <1>18, <3>1
      <4>3. ASSUME NEW x \in Nat, NEW l \in {0, 1}, NEW y \in Nat, NEW z \in Nat,
                   x + 8 * l >= y
            PROVE  x + z + 8 * l >= y + z
        BY <4>3
      <4> QED  BY <1>9, <1>11, <2>1, <4>1, <4>2, <4>3
    <3>2. CASE s # <<>>
      <4>1. t[1] = w[1]
        BY <1>13, <1>16, <3>2
      <4>2. Start(boxes, w[1]) \in Int
        <5>1. 1 \in 1 .. L
          BY <1>6
        <5>2. w[1] \in 1 .. Len(boxes)
          BY <1>4, <5>1 DEF Cursor, Place, Stack, Link
        <5>3. Start(boxes, w[1]) = boxes[w[1]].at /\ boxes[w[1]].at \in Nat
          BY <1>2, <5>2, Layout
        <5> QED  BY <5>3
      <4>3. readBytes' >= readBytes /\ readBytes' \in Nat
        BY <1>9, <1>11, <2>1
      <4> QED  BY <2>1, <4>1, <4>2, <4>3
    <3> QED  BY <3>1, <3>2
  <2>3. frames' = <<>> => ~NoMoov(q)
    <3> SUFFICES ASSUME frames' = <<>> PROVE ~NoMoov(q)
      OBVIOUS
    <3>1. L = 1
      BY <1>16, <1>18
    <3>2. CASE lift = 1
      BY <1>4, <3>2 DEF Cursor, Place
    <3>3. CASE lift = 0
      <4>1. boxes[c].level = 0
        BY <1>8, <3>1, <3>3
      <4>2. boxes[c].type = "moov"
        BY <1>8, <1>9, <4>1 DEF IsWritten, Nests, Nesting, Containers
      <4>3. c \in 1 .. q - 1
        <5>1. LastIn(boxes, c) \in c .. Len(boxes)
          BY <1>2, <1>6, Layout
        <5> QED  BY <1>2, <1>7, <5>1
      <4> QED  BY <4>2, <4>3 DEF NoMoov
    <3> QED  BY <3>2, <3>3
  <2>4. NoMoov(q)' <=> NoMoov(q)
    BY <1>17 DEF NoMoov
  <2> QED  BY <1>5, <1>11, <1>17, <2>2, <2>3, <2>4 DEF Bytes
<1>20. Told(q)'
  <2>1. Told(q)
    BY <1>4 DEF Cursor
  <2>2. (BehindWide' <=> BehindWide) /\ size' = size
    BY <1>1, FileSame
  <2> QED  BY <1>17, <2>1, <2>2 DEF Told, Skipped
<1>21. Remembered(q)'
  <2>1. Remembered(q)
    BY <1>4 DEF Cursor
  <2>2. q > 1 => boxes[q - 1].type # "free"
    <3>1. q - 1 = e /\ e \in c .. Len(boxes) /\ IsLastIn(boxes, c, e) /\ boxes[c].level \in Nat
      <4>1. q - 1 = e
        BY <1>e
      <4>2. IsLastIn(boxes, c, LastIn(boxes, c)) /\ boxes[c].level \in Nat
        BY <1>2, Layout
      <4> QED  BY <1>e, <4>1, <4>2
    <3>2. CASE e = c
      BY <1>8, <3>1, <3>2 DEF Nests, Nesting, Containers
    <3>3. CASE e # c
      <4>1. e \in c + 1 .. e /\ e \in 1 .. Len(boxes)
        BY <1>2, <1>6, <3>1, <3>3
      <4>2. boxes[e].level > boxes[c].level
        BY <3>1, <4>1 DEF IsLastIn
      <4>3. IsWritten(boxes[e]) /\ boxes[e].level \in Nat
        BY <1>2, <4>1, Layout
      <4>4. boxes[e].level # 0
        BY <3>1, <4>2, <4>3
      <4> QED  BY <3>1, <4>3, <4>4 DEF IsWritten
    <3> QED  BY <3>2, <3>3
  <2> QED  BY <1>17, <2>1, <2>2 DEF Remembered
<1>22. Standing'
  <2>1. Cursor(t, q, lift)'
    BY <1>16, <1>19, <1>20, <1>21 DEF Cursor
  <2> QED  BY <2>1 DEF Standing
<1>23. Types'
  <2>1. pos' \in Nat /\ readBytes' \in Nat /\ boxSize' \in Nat
    <3>1. pos \in Nat /\ readBytes \in Nat
      BY <1>2 DEF Types
    <3>2. boxSize' \in Nat
      BY <1>1, <1>8, <1>9
    <3> QED  BY <1>9, <1>11, <3>1, <3>2
  <2> QED  BY <1>1, <1>2, <1>15, <1>17, <2>1 DEF Types
<1>24. ~BehindWide => ShowsBoxes' /\ \A j \in 1 .. Len(shown') : Passed(boxes[j])
  <2> SUFFICES ASSUME ~BehindWide
               PROVE  ShowsBoxes' /\ \A j \in 1 .. Len(shown') : Passed(boxes[j])
    OBVIOUS
  <2>1. ShowsBoxes
    BY <1>2, InStepIs DEF DumpInv, Types
  <2>2. \A j \in 1 .. Len(shown) : Passed(boxes[j])
    BY <1>1 DEF DumpInv
  <2> QED  BY <1>17, <2>1, <2>2 DEF ShowsBoxes
<1>25. UNCHANGED fileVars /\ phase' = "dumping"
  BY <1>1
<1> QED  BY <1>1, <1>22, <1>23, <1>24, <1>25, Moving

(* A box without boxes is read, or one whose name is cut.                  *)
LEMMA LeafIs ==
  ASSUME DumpInv, NEW q \in Here, Leaf(boxes[q])
  PROVE  /\ Fixed /\ Types /\ phase = "dumping" /\ phase' = "dumping" /\ UNCHANGED fileVars
         /\ q \in 1 .. Len(boxes) /\ Laid(recording, boxes) /\ boxes' = boxes
         /\ pos = boxes[q].at /\ pos = Start(boxes, q) /\ ~last
         /\ \E w \in Seq(Nat), lift \in {0, 1} :
              Cursor(w, q, lift) /\ boxes[q].level = Len(frames) + lift
         /\ boxes[q].type \notin Nests \/ NameCut(boxes[q])
         /\ Passed(boxes[q])
         /\ boxSize' \in Nat /\ shown' \in Seq(Line) /\ Len(shown') = Len(shown) + 1
         /\ ~BehindWide => Len(shown) = q - 1 /\ ShowsBoxes'
<1>1. /\ At(boxes[q]) /\ UNCHANGED <<fileVars, phase>>
      /\ \/ boxes[q].type \notin Nesting \cup {"ilst", "keyed"}
            /\ InFile(boxes[q], Strict(boxes[q]))
         \/ IsKeyed(boxes[q]) /\ InFile(boxes[q], TakesKeyed(keyCount, boxes[q]) - NameBytes)
         \/ NameCut(boxes[q])
  BY DEF Leaf
<1>2. UNCHANGED fileVars
  BY <1>1
<1>3. /\ Fixed /\ Types /\ phase = "dumping" /\ q \in 1 .. Len(boxes)
      /\ pos = Start(boxes, q) /\ boxes[q].at = pos /\ ~last
      /\ \E w \in Seq(Nat), lift \in {0, 1} :
           Cursor(w, q, lift) /\ boxes[q].level = Len(frames) + lift
      /\ boxSize' \in Nat /\ shown' \in Seq(Line) /\ Len(shown') = Len(shown) + 1
      /\ ~BehindWide => Len(shown) = q - 1 /\ ShowsBoxes'
  BY <1>1, <1>2, Showing
<1>4. /\ IsKeyed(boxes[q]) <=> boxes[q].type = "keyed"
      /\ boxes[q].type = "keyed" => keyCount = boxes[q].count
  BY <1>3, KeyedIs DEF Cursor
<1>5. Laid(recording, boxes) /\ boxes' = boxes
  BY <1>2, <1>3 DEF Fixed, fileVars
<1>6. boxes[q].type \notin Nests \/ NameCut(boxes[q])
  BY <1>1, <1>4 DEF Nests, Nesting, Containers
<1>7. Passed(boxes[q])
  BY <1>1, <1>4 DEF Passed, NameCut
<1> QED  BY <1>1, <1>2, <1>3, <1>5, <1>6, <1>7

(* The next box read is the one behind, but when its name is cut.          *)
LEMMA LeafTold ==
  ASSUME DumpInv, NEW q \in Here, Leaf(boxes[q]), NEW e, e = LastIn(boxes, q)
  PROVE  Told(e + 1)' /\ Remembered(e + 1)'
<1>1. /\ Fixed /\ Types /\ UNCHANGED fileVars
      /\ q \in 1 .. Len(boxes) /\ Laid(recording, boxes) /\ boxes' = boxes
      /\ boxes[q].type \notin Nests \/ NameCut(boxes[q])
      /\ Len(shown') = Len(shown) + 1 /\ (~BehindWide => Len(shown) = q - 1)
  BY LeafIs
<1>2. PICK w \in Seq(Nat), lift \in {0, 1} : Cursor(w, q, lift)
  BY LeafIs
<1>3. /\ boxSize' = SizeRead(boxes[q])
      /\ keyCount' = IF boxes[q].type = "keys" THEN boxes[q].count ELSE keyCount
      /\ trackType' = CASE boxes[q].type \in {"mdta", "hdlr_meta"} -> "metadata"
                        [] boxes[q].type \in {"mdir", "hdlr"} -> "other"
                        [] OTHER -> trackType
  BY DEF Leaf, At
<1>4. /\ Len(boxes) \in Nat /\ shown \in Seq(Line) /\ (BehindWide' <=> BehindWide)
      /\ size' = size /\ size \in Nat
  BY <1>1, FileSame, WholeIs DEF Types
<1>5. CASE boxes[q].type \notin Nests
  <2>1. e = q /\ (e + 1) - 1 = q
    BY <1>1, <1>4, <1>5, LeafEnds
  <2>2. Told(e + 1)'
    <3>1. ~BehindWide => Len(shown') = (e + 1) - 1
      BY <1>1, <1>4, <2>1
    <3> QED  BY <1>4, <3>1 DEF Told
  <2>3. boxes[q].type = "keys" => trackType = "metadata"
    <3> SUFFICES ASSUME boxes[q].type = "keys" PROVE trackType = "metadata"
      OBVIOUS
    <3>1. q - 1 \in 1 .. Len(boxes) /\ MayFollow(recording, boxes[q - 1], boxes[q])
      BY <1>1, BoxBefore
    <3>2. boxes[q - 1].type = "mdta" /\ q > 1
      BY <1>1, <1>4, <3>1 DEF MayFollow
    <3> QED  BY <1>2, <3>2 DEF Cursor, Remembered
  <2>4. boxes[q].type \in {"mdta", "keys"} => trackType' = "metadata"
    BY <1>3, <2>3
  <2>5. boxes[q].type = "mdir" => trackType' = "other"
    BY <1>3
  <2>6. boxes[q].type = "keys" => keyCount' = boxes[q].count
    BY <1>3
  <2>7. boxes[q].type = "free" => boxSize' = boxes[q].size
    BY <1>3 DEF SizeRead
  <2>8. Remembered(e + 1)'
    BY <1>1, <2>1, <2>4, <2>5, <2>6, <2>7 DEF Remembered
  <2> QED  BY <2>2, <2>8
<1>6. CASE NameCut(boxes[q])
  <2>1. boxes[q].type \in {"avc1", "hvc1"} /\ ~InFile(boxes[q], BeforeName + 32)
    BY <1>6 DEF NameCut
  <2>2. boxes[q].level = 6 /\ boxes[q].at \in Nat
    BY <1>1, <2>1, Layout DEF IsWritten
  <2>3. /\ e = q + 1 /\ e < Len(boxes) /\ boxes[e + 1].type = "stts"
    <3>1. boxes[q].type \in Entries
      BY <2>1 DEF Entries
    <3> QED  BY <1>1, <2>1, <2>2, <3>1, EntryShape
  <2>4. e \in 1 .. Len(boxes) /\ (e + 1) - 1 = e /\ e + 1 \in 1 .. Len(boxes)
    BY <1>1, <1>4, <2>3
  <2>5. boxes[e].type \in Configs
    <3>1. MayFollow(recording, boxes[q], boxes[q + 1])
      <4>1. q < Len(boxes)
        BY <1>1, <1>4, <2>3
      <4> QED  BY <1>1, <4>1, NextBox
    <3> QED  BY <2>1, <2>3, <3>1 DEF MayFollow
  <2>6. boxes[e + 1].at + 8 > size
    <3>1. Own(boxes[q]) = 86 /\ HeaderOf(boxes[q]) = 8 /\ BeforeName + 32 = 74
      <4>1. Own(boxes[q]) = WrittenVisual
        BY <2>1, OwnIs
      <4>2. WrittenVisual = 86 /\ BeforeName + 32 = 74
        BY DEF WrittenVisual, BeforeName, TakesVisual, Header
      <4>3. HeaderOf(boxes[q]) = 8
        BY <2>1 DEF HeaderOf, Header
      <4> QED  BY <4>1, <4>2, <4>3
    <3>2. boxes[q].at + 82 > size
      BY <1>4, <2>1, <2>2, <3>1 DEF InFile
    <3> DEFINE k == e + 1
    <3>3. k \in 1 .. Len(boxes) /\ q \in 1 .. Len(boxes) + 1 /\ k \in 1 .. Len(boxes) + 1 /\ q < k
      BY <1>1, <1>4, <2>3, <2>4
    <3> HIDE DEF k
    <3>4. Start(boxes, q) + Own(boxes[q]) <= Start(boxes, k)
      BY <1>1, <3>3, StartGrows
    <3>5. Start(boxes, q) = boxes[q].at
      BY <1>1, Layout
    <3>6. Start(boxes, k) = boxes[k].at /\ boxes[k].at \in Nat
      BY <1>1, <3>3, Layout
    <3>7. boxes[k].at + 8 > size
      <4>1. boxes[q].at + 86 <= boxes[k].at
        BY <3>1, <3>4, <3>5, <3>6
      <4>2. size \in Nat /\ boxes[q].at \in Nat /\ boxes[k].at \in Nat
        BY <1>4, <2>2, <3>6
      <4>3. ASSUME NEW x \in Nat, NEW y \in Nat, NEW z \in Nat, x + 82 > z, x + 86 <= y
            PROVE  y + 8 > z
        BY <4>3
      <4> QED  BY <3>2, <4>1, <4>2, <4>3
    <3> QED  BY <3>7 DEF k
  <2>7. Told(e + 1)'
    <3>1. Skipped(e + 1)'
      BY <1>1, <1>4, <2>3, <2>4, <2>6 DEF Skipped, Header
    <3>2. ~BehindWide => Len(shown') < (e + 1) - 1
      <4>1. ~BehindWide => Len(shown') = q
        BY <1>1, <1>4
      <4> QED  BY <1>1, <2>3, <2>4, <4>1
    <3> QED  BY <1>4, <3>1, <3>2 DEF Told
  <2>8. Remembered(e + 1)'
    BY <1>1, <2>4, <2>5 DEF Remembered, Configs
  <2> QED  BY <2>7, <2>8
<1> QED  BY <1>1, <1>5, <1>6

(* A box is read to its end.                                               *)
LEMMA LeafEnd ==
  ASSUME Fixed, NEW q \in 1 .. Len(boxes), Remembered(q),
         boxes[q].type \notin {"wide", "open"}
  PROVE  /\ EndOf(boxes[q]) = boxes[q].at + boxes[q].size
         /\ SizeInside(boxes[q]) = boxes[q].size
         /\ BytesCounted(boxes[q]) \in Nat /\ BytesCounted(boxes[q]) >= boxes[q].size
         /\ boxes[q].level = 0 => BytesCounted(boxes[q]) = boxes[q].size
<1>1. /\ Laid(recording, boxes) /\ IsWritten(boxes[q]) /\ boxes[q].at \in Nat
      /\ Own(boxes[q]) \in Nat
  BY Layout DEF Fixed
<1>2. /\ boxes[q].size \in Nat /\ boxes[q].size >= Own(boxes[q])
      /\ LastIn(boxes, q) = q => boxes[q].size = Own(boxes[q])
  BY <1>1, SizeAtLeast
<1>3. /\ IsKeyed(boxes[q]) <=> boxes[q].type = "keyed"
      /\ boxes[q].type = "keyed" => keyCount = boxes[q].count
  BY KeyedIs
<1>4. EndOf(boxes[q]) = boxes[q].at + boxes[q].size
  <2>1. CASE boxes[q].type = "keyed"
    <3>1. LastIn(boxes, q) = q
      BY <1>1, <2>1, LeafEnds DEF Nests, Nesting, Containers
    <3>2. EndOf(boxes[q]) = boxes[q].at + 8 + TakesKeyed(boxes[q].count, boxes[q])
      BY <1>3, <2>1 DEF EndOf, Header
    <3>3. /\ Own(boxes[q]) = 8 + TakesKeyed(boxes[q].count, boxes[q])
          /\ TakesKeyed(boxes[q].count, boxes[q]) \in Nat
      BY <1>1, <2>1, KeyedTaken DEF Header
    <3> DEFINE n == TakesKeyed(boxes[q].count, boxes[q])
    <3>4. EndOf(boxes[q]) = boxes[q].at + 8 + n /\ Own(boxes[q]) = 8 + n /\ n \in Nat
      BY <3>2, <3>3
    <3> HIDE DEF n
    <3> QED  BY <1>1, <1>2, <3>1, <3>4
  <2>2. CASE boxes[q].type # "keyed"
    <3>1. EndOf(boxes[q]) = boxes[q].at + (IF 8 + Takes(boxes[q]) > boxes[q].size
                                           THEN 8 + Takes(boxes[q]) ELSE boxes[q].size)
      BY <1>3, <2>2 DEF EndOf, Header
    <3>2. 8 + Takes(boxes[q]) <= Own(boxes[q]) /\ Takes(boxes[q]) \in Nat
      BY <1>1, Lengths DEF Fits, Header
    <3>3. ~(8 + Takes(boxes[q]) > boxes[q].size)
      BY <1>1, <1>2, <3>2
    <3> QED  BY <3>1, <3>3
  <2> QED  BY <2>1, <2>2
<1>5. SizeInside(boxes[q]) = boxes[q].size
  BY DEF SizeInside, SizeRead
<1>6. BytesCounted(boxes[q]) =
        IF boxes[q].type = "hvcC" THEN boxes[q].size + boxes[q].bytes ELSE boxes[q].size
  BY DEF BytesCounted
<1>7. boxes[q].bytes \in Nat /\ (boxes[q].type = "hvcC" => boxes[q].level = 7)
  BY <1>1 DEF IsWritten
<1> QED  BY <1>2, <1>4, <1>5, <1>6, <1>7

(* The dump stands at box k at the root, or behind the last.               *)
LEMMA AtRoot ==
  ASSUME Fixed, UNCHANGED fileVars, frames' = <<>>, NEW k \in 1 .. Len(boxes) + 1,
         NEW lift \in {0, 1}, k <= Len(boxes) => boxes[k].level <= lift,
         lift = 1 => BehindWide /\ ~NoMoov(k)
  PROVE  \E t \in Seq(Nat) : Place(t, k, lift)' /\ t[1] = k
<1>1. PICK t : t = <<k>>
  OBVIOUS
<1>2. boxes' = boxes /\ Len(boxes) \in Nat
  BY WholeIs DEF fileVars
<1>3. t \in Seq(Nat) /\ Len(t) = 1 /\ t[1] = k /\ Len(frames') = 0
  BY <1>1, <1>2
<1>4. Stack(boxes, frames', t, lift)
  BY <1>3 DEF Stack
<1>5. NoMoov(k)' <=> NoMoov(k)
  BY <1>2 DEF NoMoov
<1>6. k <= Len(boxes) => boxes[k].level <= Len(frames') + lift
  BY <1>3
<1>7. BehindWide' <=> BehindWide
  BY FileSame
<1>8. Stack(boxes, frames, t, lift)'
  BY <1>2, <1>4
<1>9. (k <= Len(boxes) => boxes[k].level <= Len(frames) + lift)'
  BY <1>2, <1>6
<1>10. k = t[Len(t)] /\ (lift = 1 => BehindWide' /\ ~NoMoov(k)')
  BY <1>3, <1>5, <1>7
<1>11. Place(t, k, lift)'
  BY <1>8, <1>9, <1>10 DEF Place
<1> QED  BY <1>3, <1>11

(* The data is at the root, and so is the dump when it reads it.           *)
LEMMA DataAtRoot ==
  ASSUME DumpInv, NEW q \in Here, Leaf(boxes[q]), boxes[q].type \in {"wide", "open"}
  PROVE  /\ frames = <<>> /\ frames' = <<>> /\ boxes[q].level = 0
         /\ LastIn(boxes, q) = q
         /\ boxes[q].size = Own(boxes[q]) /\ boxes[q].size \in Nat /\ boxes[q].at \in Nat
         /\ Start(boxes, q + 1) = boxes[q].at + boxes[q].size
         /\ readBytes \in Nat /\ readBytes >= boxes[q].at
         /\ NoMoov(q) => readBytes = boxes[q].at
         /\ boxes[q].type = "open" => q = Len(boxes)
<1>1. /\ Fixed /\ Types /\ q \in 1 .. Len(boxes) /\ Laid(recording, boxes)
      /\ pos = Start(boxes, q) /\ ~last
  BY LeafIs
<1>2. PICK w \in Seq(Nat), lift \in {0, 1} :
        Cursor(w, q, lift) /\ boxes[q].level = Len(frames) + lift
  BY LeafIs
<1>3. IsWritten(boxes[q]) /\ boxes[q].at \in Nat /\ Start(boxes, q) = boxes[q].at
  BY <1>1, Layout
<1>4. boxes[q].level = 0
  BY <1>3 DEF IsWritten
<1>5. frames = <<>> /\ lift = 0
  <2>1. frames \in Seq(Frame)
    BY <1>1 DEF Types
  <2>2. Len(frames) = 0 /\ lift = 0
    BY <1>2, <1>4, <2>1
  <2> QED  BY <2>1, <2>2
<1>6. frames' = <<>>
  BY <1>5 DEF Leaf, Counted
<1>7. LastIn(boxes, q) = q
  BY <1>1, LeafEnds DEF Nests, Nesting, Containers
<1>8. /\ boxes[q].size = Own(boxes[q]) /\ boxes[q].size \in Nat
      /\ boxes[q].at + boxes[q].size = Start(boxes, q + 1)
  BY <1>1, <1>7, SizeAtLeast
<1>9. readBytes \in Nat /\ readBytes >= boxes[q].at /\ (NoMoov(q) => readBytes = boxes[q].at)
  <2>1. w[1] = q
    BY <1>2, <1>5 DEF Cursor, Place, Stack
  <2>2. readBytes \in Nat
    BY <1>1 DEF Types
  <2>3. readBytes + 8 * lift >= Start(boxes, q)
    BY <1>1, <1>2, <2>1 DEF Cursor, Bytes
  <2>4. NoMoov(q) => readBytes = Start(boxes, q)
    BY <1>1, <1>2, <1>5 DEF Cursor, Bytes
  <2> QED  BY <1>3, <1>5, <2>2, <2>3, <2>4
<1>10. boxes[q].type = "open" => q = Len(boxes)
  <2> SUFFICES ASSUME boxes[q].type = "open", q # Len(boxes) PROVE FALSE
    OBVIOUS
  <2>1. q < Len(boxes)
    <3>1. Len(boxes) \in Nat
      BY <1>1, WholeIs
    <3> QED  BY <1>1, <3>1
  <2>2. MayFollow(recording, boxes[q], boxes[q + 1])
    BY <1>1, <2>1, NextBox
  <2> QED  BY <2>2 DEF MayFollow
<1> QED  BY <1>3, <1>4, <1>5, <1>6, <1>7, <1>8, <1>9, <1>10

(* The size of the data is not written yet: nothing is behind it.          *)
LEMMA OpenCursor ==
  ASSUME DumpInv, NEW q \in Here, Leaf(boxes[q]), boxes[q].type = "open"
  PROVE  Standing' /\ pos' \in Nat /\ readBytes' \in Nat
<1>1. /\ Fixed /\ UNCHANGED fileVars /\ q \in 1 .. Len(boxes) /\ boxes' = boxes
      /\ pos = boxes[q].at
  BY LeafIs
<1>2. /\ frames' = <<>> /\ LastIn(boxes, q) = q /\ q = Len(boxes) /\ readBytes \in Nat
      /\ boxes[q].at \in Nat
  BY DataAtRoot
<1>3. Told(q + 1)' /\ Remembered(q + 1)'
  BY <1>2, LeafTold
<1>4. Len(boxes) \in Nat /\ q + 1 \in 1 .. Len(boxes) + 1 /\ ~(q + 1 <= Len(boxes))
  BY <1>1, <1>2, WholeIs
<1>5. PICK t \in Seq(Nat) : Place(t, q + 1, 0)'
  BY <1>1, <1>2, <1>4, AtRoot
<1>6. last' /\ pos' = boxes[q].at + 8 /\ readBytes' = readBytes + 8
  <2>1. ~IsKeyed(boxes[q])
    BY DEF IsKeyed
  <2> QED  BY <2>1 DEF Leaf, EndOf, BytesCounted, Header
<1>7. Bytes(t, q + 1, 0)'
  BY <1>1, <1>2, <1>6 DEF Bytes
<1>8. Cursor(t, q + 1, 0)'
  BY <1>3, <1>5, <1>7 DEF Cursor
<1>9. Standing'
  BY <1>4, <1>8 DEF Standing
<1> QED  BY <1>2, <1>6, <1>9

(* Behind a wide 'mdat' the dump stands in the moov, 8 bytes too far.      *)
LEMMA WideCursor ==
  ASSUME DumpInv, NEW q \in Here, Leaf(boxes[q]), boxes[q].type = "wide"
  PROVE  Standing' /\ pos' \in Nat /\ readBytes' \in Nat
<1>1. /\ Fixed /\ UNCHANGED fileVars /\ q \in 1 .. Len(boxes) /\ boxes' = boxes
      /\ pos = boxes[q].at /\ Laid(recording, boxes) /\ ~last
  BY LeafIs
<1>2. /\ frames' = <<>> /\ LastIn(boxes, q) = q /\ readBytes \in Nat
      /\ boxes[q].at \in Nat /\ boxes[q].size \in Nat
      /\ Start(boxes, q + 1) = boxes[q].at + boxes[q].size
      /\ readBytes >= boxes[q].at
      /\ NoMoov(q) => readBytes = boxes[q].at
  BY DataAtRoot
<1>3. Told(q + 1)' /\ Remembered(q + 1)'
  BY <1>2, LeafTold
<1>4. Len(boxes) \in Nat /\ q + 1 \in 1 .. Len(boxes) + 1 /\ q \in Nat
  BY <1>1, WholeIs
<1>5. /\ ~last' /\ pos' = boxes[q].at + boxes[q].size + 8
      /\ readBytes' = readBytes + boxes[q].size
  <2>1. ~IsKeyed(boxes[q])
    BY DEF IsKeyed
  <2>2. EndOf(boxes[q]) = boxes[q].at + 16 + (boxes[q].size - 8)
    BY <2>1 DEF EndOf, HeaderOf, Header
  <2>3. BytesCounted(boxes[q]) = boxes[q].size
    BY DEF BytesCounted
  <2>4. /\ pos' = EndOf(boxes[q]) /\ readBytes' = readBytes + BytesCounted(boxes[q])
        /\ last' = (boxes[q].type = "open")
    BY DEF Leaf
  <2>5. ASSUME NEW x \in Nat, NEW y \in Nat PROVE x + 16 + (y - 8) = x + y + 8
    OBVIOUS
  <2>6. EndOf(boxes[q]) = boxes[q].at + boxes[q].size + 8
    BY <1>2, <2>2, <2>5
  <2>7. last' = FALSE
    BY <2>4
  <2> QED  BY <2>3, <2>4, <2>6, <2>7
<1>6. CASE q = Len(boxes)
  <2>1. PICK t \in Seq(Nat) : Place(t, q + 1, 0)' /\ t[1] = q + 1
    <3>1. ~(q + 1 <= Len(boxes))
      BY <1>4, <1>6
    <3> QED  BY <1>1, <1>2, <1>4, <3>1, AtRoot
  <2>2. readBytes' >= Start(boxes, q + 1)
    BY <1>2, <1>5
  <2>3. readBytes' >= size /\ size' = size
    <3>1. size \in Nat /\ Whole \in Nat /\ size <= Whole /\ Whole = Start(boxes, q + 1)
      BY <1>1, <1>6, WholeIs
    <3> QED  BY <1>1, <1>2, <1>5, <2>2, <3>1 DEF fileVars
  <2>4. NoMoov(q + 1)' => readBytes' = Start(boxes, q + 1)
    <3> SUFFICES ASSUME NoMoov(q + 1)' PROVE readBytes' = Start(boxes, q + 1)
      OBVIOUS
    <3>1. NoMoov(q)
      BY <1>1, <1>4 DEF NoMoov
    <3> QED  BY <1>2, <1>5, <3>1
  <2>5. Bytes(t, q + 1, 0)'
    <3>1. readBytes' + 8 * 0 >= Start(boxes, q + 1)
      BY <1>2, <1>5, <2>2
    <3> QED  BY <1>1, <1>2, <1>5, <1>6, <2>1, <2>3, <2>4, <3>1 DEF Bytes
  <2>6. Cursor(t, q + 1, 0)'
    BY <1>3, <2>1, <2>5 DEF Cursor
  <2>7. Standing'
    BY <1>4, <2>6 DEF Standing
  <2> QED  BY <1>2, <1>5, <2>7
<1>7. CASE q < Len(boxes)
  <2>1. boxes[q + 1].type = "moov" /\ BehindWide /\ q + 1 \in 1 .. Len(boxes)
    <3>1. q + 1 \in 1 .. Len(boxes) /\ MayFollow(recording, boxes[q], boxes[q + 1])
      BY <1>1, <1>7, NextBox
    <3>2. boxes[q + 1].type = "moov" /\ recording.mdat = "wide" /\ recording.moov = "behind"
      BY <3>1 DEF MayFollow
    <3> QED  BY <3>1, <3>2 DEF BehindWide
  <2> DEFINE k == q + 1
  <2>2. k \in 1 .. Len(boxes) /\ boxes[k].type = "moov" /\ k \in Nat
    BY <1>4, <2>1
  <2> HIDE DEF k
  <2>3. /\ boxes[k].level = 0 /\ k < Len(boxes) /\ boxes[k + 1].level <= 1
        /\ Start(boxes, k + 1) = Start(boxes, k) + 8
    <3>1. boxes[k].level = 0
      BY <1>1, <2>2, MoovShape
    <3>2. k < Len(boxes)
      BY <1>1, <2>2, NotEmpty
    <3>3. boxes[k + 1].level <= 1
      <4>1. boxes[k + 1].level <= boxes[k].level + 1
        BY <1>1, <2>2, <3>2, LevelNext
      <4> QED  BY <3>1, <4>1
    <3>4. Start(boxes, k + 1) = Start(boxes, k) + Own(boxes[k])
      BY <1>1, <2>2, Layout
    <3>5. Own(boxes[k]) = 8
      BY <2>2, OwnIs DEF Header
    <3> QED  BY <3>1, <3>2, <3>3, <3>4, <3>5
  <2>4. k + 1 \in 1 .. Len(boxes) + 1 /\ k \in 1 .. (k + 1) - 1 /\ (k + 1) - 1 = k
    BY <1>4, <2>2
  <2>5. ~NoMoov(k + 1)
    BY <2>2, <2>4 DEF NoMoov
  <2>6. PICK t \in Seq(Nat) : Place(t, k + 1, 1)' /\ t[1] = k + 1
    BY <1>1, <1>2, <2>1, <2>3, <2>4, <2>5, AtRoot
  <2>7. pos' = Start(boxes, k + 1) /\ readBytes' + 8 * 1 >= Start(boxes, k + 1)
    <3>1. Start(boxes, k) = boxes[q].at + boxes[q].size
      BY <1>2 DEF k
    <3>2. Start(boxes, k + 1) = boxes[q].at + boxes[q].size + 8
      BY <2>3, <3>1
    <3>3. readBytes' + 8 * 1 >= boxes[q].at + boxes[q].size + 8
      <4>1. ASSUME NEW x \in Nat, NEW y \in Nat, NEW z \in Nat, x >= y
            PROVE  (x + z) + 8 * 1 >= y + z + 8
        BY <4>1
      <4> QED  BY <1>2, <1>5, <4>1
    <3> QED  BY <1>5, <3>2, <3>3
  <2>8. ~NoMoov(k + 1)'
    BY <1>1, <2>5 DEF NoMoov
  <2>9. Bytes(t, k + 1, 1)'
    BY <1>1, <1>5, <2>6, <2>7, <2>8 DEF Bytes
  <2>10. Told(k + 1)' /\ Remembered(k + 1)'
    <3>1. BehindWide'
      BY <1>1, <2>1, FileSame
    <3> QED  BY <1>1, <2>2, <2>4, <3>1 DEF Told, Remembered
  <2>11. Cursor(t, k + 1, 1)'
    BY <2>6, <2>9, <2>10 DEF Cursor
  <2>12. k + 1 \in Nat
    BY <2>2
  <2>13. Standing'
    BY <2>11, <2>12 DEF Standing
  <2> QED  BY <1>2, <1>5, <2>13
<1> QED  BY <1>1, <1>4, <1>6, <1>7

(* Every other box is counted by the loop around it.                       *)
LEMMA LeafCursor ==
  ASSUME DumpInv, NEW q \in Here, Leaf(boxes[q]), boxes[q].type \notin {"wide", "open"}
  PROVE  /\ Standing' /\ pos' \in Nat /\ readBytes' \in Nat /\ frames' \in Seq(Frame)
         /\ \A d \in 1 .. Len(frames') : frames'[d].read <= frames'[d].size
<1>1. /\ Fixed /\ Types /\ UNCHANGED fileVars /\ q \in 1 .. Len(boxes) /\ boxes' = boxes
      /\ pos = boxes[q].at /\ pos = Start(boxes, q) /\ Laid(recording, boxes) /\ ~last
  BY LeafIs
<1>2. PICK w \in Seq(Nat), lift \in {0, 1} :
        Cursor(w, q, lift) /\ boxes[q].level = Len(frames) + lift
  BY LeafIs
<1>3. PICK e \in Nat : e = LastIn(boxes, q) /\ e \in q .. Len(boxes)
  <2>1. LastIn(boxes, q) \in q .. Len(boxes)
    BY <1>1, Layout
  <2>2. Len(boxes) \in Nat
    BY <1>1, WholeIs
  <2>3. LastIn(boxes, q) \in Nat
    BY <1>1, <2>1, <2>2
  <2> QED  BY <2>1, <2>3
<1>4. Told(e + 1)' /\ Remembered(e + 1)'
  BY <1>3, LeafTold
<1>5. /\ EndOf(boxes[q]) = boxes[q].at + boxes[q].size
      /\ SizeInside(boxes[q]) = boxes[q].size
      /\ BytesCounted(boxes[q]) \in Nat /\ BytesCounted(boxes[q]) >= boxes[q].size
      /\ boxes[q].level = 0 => BytesCounted(boxes[q]) = boxes[q].size
  BY <1>1, <1>2, LeafEnd DEF Cursor
<1>6. PICK n \in Nat : n = BytesCounted(boxes[q])
  BY <1>5
<1>7. /\ pos' = boxes[q].at + boxes[q].size /\ readBytes' = readBytes + n
      /\ last' = FALSE /\ frames' = Counted(frames, boxes[q].size)
  <2>1. /\ pos' = EndOf(boxes[q]) /\ readBytes' = readBytes + BytesCounted(boxes[q])
        /\ last' = (boxes[q].type = "open") /\ frames' = Counted(frames, SizeInside(boxes[q]))
    BY DEF Leaf
  <2>2. last' = FALSE
    BY <2>1
  <2> QED  BY <1>5, <1>6, <2>1, <2>2
<1>8. /\ boxes[q].at \in Nat /\ boxes[q].size \in Nat /\ boxes[q].level \in Nat
      /\ Start(boxes, e + 1) = boxes[q].at + boxes[q].size
      /\ Start(boxes, q) = boxes[q].at
  BY <1>1, <1>3, SizeAtLeast, Layout
<1>9. /\ Stack(boxes, frames, w, lift) /\ frames \in Seq(Frame) /\ q = w[Len(w)]
      /\ lift = 1 => BehindWide /\ ~NoMoov(q)
  BY <1>1, <1>2 DEF Cursor, Place, Types
<1>10. Ending(frames, w, lift, q)
  BY <1>1, <1>2, <1>9 DEF Ending, AtBox
<1>11. /\ frames' \in Seq(Frame)
       /\ \A d \in 1 .. Len(frames') : frames'[d].read <= frames'[d].size
       /\ \E t \in Seq(Nat) :
            /\ Place(t, e + 1, lift)'
            /\ frames # <<>> => t[1] = w[1] /\ frames' # <<>>
            /\ frames = <<>> => t[1] = e + 1 /\ frames' = <<>>
  BY <1>1, <1>3, <1>7, <1>10, PlaceCount
<1>12. PICK t \in Seq(Nat) :
         /\ Place(t, e + 1, lift)'
         /\ frames # <<>> => t[1] = w[1] /\ frames' # <<>>
         /\ frames = <<>> => t[1] = e + 1 /\ frames' = <<>>
  BY <1>11
<1>13. readBytes \in Nat /\ readBytes + 8 * lift >= Start(boxes, w[1]) /\ n >= boxes[q].size
  BY <1>1, <1>2, <1>5, <1>6 DEF Cursor, Bytes, Types
<1>14. readBytes' + 8 * lift >= Start(boxes, t[1])
  <2>1. CASE frames = <<>>
    <3>1. w[1] = q /\ t[1] = e + 1
      BY <1>9, <1>12, <2>1 DEF Stack
    <3>2. readBytes + 8 * lift >= boxes[q].at
      BY <1>8, <1>13, <3>1
    <3>3. ASSUME NEW x \in Nat, NEW l \in {0, 1}, NEW y \in Nat, NEW z \in Nat,
                 x + 8 * l >= y, n >= z
          PROVE  x + n + 8 * l >= y + z
      BY <3>3
    <3> QED  BY <1>7, <1>8, <1>13, <3>1, <3>2, <3>3
  <2>2. CASE frames # <<>>
    <3>1. Start(boxes, w[1]) \in Int
      <4>1. 1 \in 1 .. Len(frames)
        BY <1>9, <2>2
      <4>2. w[1] \in 1 .. Len(boxes)
        BY <1>9, <4>1 DEF Stack, Link
      <4>3. PICK k \in 1 .. Len(boxes) : k = w[1]
        BY <4>2
      <4>4. Start(boxes, k) = boxes[k].at /\ boxes[k].at \in Nat
        BY <1>1, Layout
      <4> QED  BY <4>3, <4>4
    <3>2. t[1] = w[1]
      BY <1>12, <2>2
    <3>3. readBytes' >= readBytes /\ readBytes' \in Nat
      BY <1>6, <1>7, <1>13
    <3> QED  BY <1>13, <3>1, <3>2, <3>3
  <2> QED  BY <2>1, <2>2
<1>15. frames' = <<>> /\ NoMoov(e + 1) => readBytes' = Start(boxes, e + 1)
  <2> SUFFICES ASSUME frames' = <<>>, NoMoov(e + 1) PROVE readBytes' = Start(boxes, e + 1)
    OBVIOUS
  <2>1. frames = <<>>
    BY <1>12
  <2>2. NoMoov(q)
    <3>1. \A m \in 1 .. q - 1 : m \in 1 .. (e + 1) - 1
      BY <1>1, <1>3, WholeIs
    <3> QED  BY <3>1 DEF NoMoov
  <2>3. readBytes = boxes[q].at
    BY <1>1, <1>2, <1>8, <2>1, <2>2 DEF Cursor, Bytes
  <2>4. boxes[q].level = 0
    <3>1. lift = 0
      BY <1>9, <2>2
    <3> QED  BY <1>2, <2>1, <3>1
  <2>5. n = boxes[q].size
    BY <1>5, <1>6, <2>4
  <2> QED  BY <1>7, <1>8, <2>3, <2>5
<1>16. Bytes(t, e + 1, lift)'
  <2>1. NoMoov(e + 1)' <=> NoMoov(e + 1)
    BY <1>1 DEF NoMoov
  <2>2. pos' = Start(boxes, e + 1)
    BY <1>7, <1>8
  <2> QED  BY <1>1, <1>7, <1>14, <1>15, <2>1, <2>2 DEF Bytes
<1>17. Cursor(t, e + 1, lift)'
  BY <1>4, <1>12, <1>16 DEF Cursor
<1>18. Standing'
  <2>1. e + 1 \in Nat
    OBVIOUS
  <2> QED  BY <1>17, <2>1 DEF Standing
<1>19. pos' \in Nat /\ readBytes' \in Nat
  <2>1. pos' \in Nat
    BY <1>7, <1>8
  <2>2. readBytes' \in Nat
    BY <1>6, <1>7, <1>13
  <2> QED  BY <2>1, <2>2
<1> QED  BY <1>11, <1>18, <1>19

LEMMA LeafStep == ASSUME DumpInv, NEW q \in Here, Leaf(boxes[q]) PROVE DumpInv'
<1>1. /\ Fixed /\ Types /\ phase = "dumping" /\ phase' = "dumping" /\ UNCHANGED fileVars
      /\ q \in 1 .. Len(boxes) /\ Passed(boxes[q])
      /\ boxSize' \in Nat /\ shown' \in Seq(Line)
      /\ ~BehindWide => Len(shown) = q - 1 /\ ShowsBoxes'
  BY LeafIs
<1>2. /\ Standing' /\ pos' \in Nat /\ readBytes' \in Nat /\ frames' \in Seq(Frame)
      /\ \A d \in 1 .. Len(frames') : frames'[d].read <= frames'[d].size
  <2>1. CASE boxes[q].type \in {"wide", "open"}
    <3>1. Standing' /\ pos' \in Nat /\ readBytes' \in Nat
      BY <2>1, OpenCursor, WideCursor
    <3>2. frames' = <<>>
      BY <2>1, DataAtRoot
    <3>3. frames' \in Seq(Frame) /\ \A d \in 1 .. Len(frames') : FALSE
      BY <3>2
    <3> QED  BY <3>1, <3>3
  <2>2. CASE boxes[q].type \notin {"wide", "open"}
    BY <2>2, LeafCursor
  <2> QED  BY <2>1, <2>2
<1>3. last' \in BOOLEAN /\ keyCount' \in Nat /\ trackType' \in {"none", "metadata", "other"}
  <2>1. /\ last' = (boxes[q].type = "open")
        /\ keyCount' = IF boxes[q].type = "keys" THEN boxes[q].count ELSE keyCount
        /\ trackType' = CASE boxes[q].type \in {"mdta", "hdlr_meta"} -> "metadata"
                          [] boxes[q].type \in {"mdir", "hdlr"} -> "other"
                          [] OTHER -> trackType
    BY DEF Leaf
  <2>2. boxes[q].count \in Nat
    BY <1>1, Layout DEF Fixed, IsWritten
  <2>3. last' \in BOOLEAN
    BY <2>1
  <2>4. keyCount' \in Nat
    BY <1>1, <2>1, <2>2 DEF Types
  <2>5. trackType' \in {"metadata", "other", trackType}
    BY <2>1
  <2> QED  BY <1>1, <2>3, <2>4, <2>5 DEF Types
<1>4. Types'
  BY <1>1, <1>2, <1>3 DEF Types
<1>5. ~BehindWide => \A j \in 1 .. Len(shown') : Passed(boxes[j])
  <2>1. At(boxes[q])
    BY DEF Leaf
  <2> QED  BY <1>1, <2>1, PassedAll
<1> QED  BY <1>1, <1>2, <1>4, <1>5, Moving

(* The dump is over at the root, behind the last box that it printed.      *)
LEMMA FinishAt ==
  ASSUME DumpInv, Finish, ~BehindWide
  PROVE  \E q \in 1 .. Len(boxes) + 1 :
           /\ Len(shown) = q - 1
           /\ q <= Len(boxes) => boxes[q].level = 0
           /\ q <= Len(boxes) /\ NoMoov(q) => Start(boxes, q) + 8 >= size
<1>1. phase = "dumping" /\ frames = <<>> /\ ~RootGoes /\ Fixed /\ Types
  BY DEF Finish, DumpInv
<1>2. PICK w \in Seq(Nat), q \in Nat, lift \in {0, 1} : Cursor(w, q, lift)
  <2>1. ~Off
    BY <1>1 DEF Off
  <2> QED  BY <1>1, <2>1 DEF DumpInv, Standing
<1>3. /\ q \in 1 .. Len(boxes) + 1 /\ lift = 0
      /\ q <= Len(boxes) => boxes[q].level <= 0
  <2>1. Len(frames) = 0
    BY <1>1
  <2>2. /\ q \in 1 .. Len(boxes) + 1 /\ (lift = 1 => BehindWide)
        /\ q <= Len(boxes) => boxes[q].level <= Len(frames) + lift
    BY <1>2 DEF Cursor, Place, Stack
  <2> QED  BY <2>1, <2>2
<1>4. q <= Len(boxes) => q \in 1 .. Len(boxes) /\ boxes[q].level = 0 /\ IsWritten(boxes[q])
  <2> SUFFICES ASSUME q <= Len(boxes)
               PROVE  q \in 1 .. Len(boxes) /\ boxes[q].level = 0 /\ IsWritten(boxes[q])
    OBVIOUS
  <2>1. q \in 1 .. Len(boxes)
    BY <1>3
  <2>2. boxes[q].level \in Nat /\ IsWritten(boxes[q])
    BY <1>1, <2>1, Layout DEF Fixed
  <2> QED  BY <1>3, <2>1, <2>2
<1>5. Len(shown) = q - 1
  <2>1. ~Skipped(q)
    <3> SUFFICES ASSUME q \in 1 .. Len(boxes), boxes[q].type = "stts" PROVE FALSE
      BY DEF Skipped
    <3>1. q <= Len(boxes)
      BY <1>1, WholeIs
    <3>2. boxes[q].level = 5 /\ boxes[q].level = 0
      BY <1>4, <3>1 DEF IsWritten
    <3> QED  BY <3>2
  <2> QED  BY <1>2, <2>1 DEF Cursor, Told
<1>6. q <= Len(boxes) /\ NoMoov(q) => Start(boxes, q) + 8 >= size
  <2> SUFFICES ASSUME q <= Len(boxes), NoMoov(q) PROVE Start(boxes, q) + 8 >= size
    OBVIOUS
  <2>1. q # Len(boxes) + 1
    BY <1>1, WholeIs
  <2>2. ~last /\ readBytes = Start(boxes, q)
    BY <1>1, <1>2, <2>1 DEF Cursor, Bytes
  <2>3. readBytes \in Nat /\ size \in Nat
    BY <1>1, WholeIs DEF Types
  <2> QED  BY <1>1, <2>2, <2>3 DEF RootGoes, Header
<1> QED  BY <1>3, <1>4, <1>5, <1>6

(* The whole moov is before a box of the root that is behind its begin.    *)
LEMMA BehindMoov ==
  ASSUME Fixed, NEW q \in 1 .. Len(boxes) + 1, q <= Len(boxes) => boxes[q].level = 0,
         NEW m \in 1 .. Len(boxes), boxes[m].type = "moov", m < q
  PROVE  LastIn(boxes, m) < q /\ LastIn(boxes, m) \in m .. Len(boxes)
<1>1. /\ Laid(recording, boxes) /\ Len(boxes) \in Nat
      /\ LastIn(boxes, m) \in m .. Len(boxes) /\ boxes[m].level \in Nat
  BY WholeIs, Layout DEF Fixed
<1> DEFINE e == LastIn(boxes, m)
<1>2. e \in m .. Len(boxes)
  BY <1>1
<1> HIDE DEF e
<1>3. ~(q <= e)
  <2> SUFFICES ASSUME q <= e PROVE FALSE
    OBVIOUS
  <2>1. q \in m + 1 .. e /\ q <= Len(boxes)
    BY <1>1, <1>2
  <2>2. boxes[q].level > boxes[m].level
    BY <1>1, <2>1, Inner DEF e
  <2> QED  BY <1>1, <2>1, <2>2
<1>4. e < q
  BY <1>1, <1>2, <1>3
<1> QED  BY <1>2, <1>4 DEF e

LEMMA FinishWhole ==
  ASSUME DumpInv, Finish, ~IsCut, ~BehindWide, NEW i \in DOMAIN boxes,
         recording.moov = "front" => i <= MoovEnd, boxes[i].at + Header < size
  PROVE  i <= Len(shown)
<1>1. Fixed /\ Laid(recording, boxes) /\ i \in 1 .. Len(boxes) /\ Len(boxes) \in Nat /\ size \in Nat
  BY WholeIs DEF DumpInv, Fixed
<1>2. PICK q \in 1 .. Len(boxes) + 1 :
        /\ Len(shown) = q - 1
        /\ q <= Len(boxes) => boxes[q].level = 0
        /\ q <= Len(boxes) /\ NoMoov(q) => Start(boxes, q) + 8 >= size
  BY FinishAt
<1>3. ~(q <= i)
  <2> SUFFICES ASSUME q <= i PROVE FALSE
    OBVIOUS
  <2>1. q <= Len(boxes) /\ q \in 1 .. Len(boxes)
    BY <1>1, <1>2
  <2>2. CASE NoMoov(q)
    <3>1. Start(boxes, q) \in Nat /\ Start(boxes, i) \in Nat /\ Start(boxes, i) = boxes[i].at
          /\ Start(boxes, q) <= Start(boxes, i)
      <4>1. i \in 1 .. Len(boxes) + 1 /\ (q < i \/ q = i)
        BY <1>1, <2>1
      <4>2. Start(boxes, q) \in Nat /\ Start(boxes, i) \in Nat
        BY <1>1, <4>1, StartGrows
      <4>3. q < i => Start(boxes, q) + 8 <= Start(boxes, i)
        BY <1>1, <4>1, StartGrows
      <4>4. Start(boxes, i) = boxes[i].at
        BY <1>1, Layout
      <4> QED  BY <4>1, <4>2, <4>3, <4>4
    <3>2. Start(boxes, q) + 8 >= size
      BY <1>2, <2>1, <2>2
    <3>3. ~(Start(boxes, i) + 8 < size)
      BY <1>1, <3>1, <3>2
    <3> QED  BY <3>1, <3>3 DEF Header
  <2>3. CASE ~NoMoov(q)
    <3>1. PICK m \in 1 .. q - 1 : boxes[m].type = "moov"
      BY <2>3 DEF NoMoov
    <3>2. m \in 1 .. Len(boxes) /\ m < q /\ m \in Nat
      BY <1>1, <2>1, <3>1
    <3>3. LastIn(boxes, m) < q
      BY <1>1, <1>2, <3>1, <3>2, BehindMoov
    <3>4. recording.moov = "front"
      <4>1. recording.moov = "behind" => LastIn(boxes, m) = Len(boxes)
        BY <1>1, <3>1, <3>2, MoovShape
      <4>2. recording.moov # "behind"
        BY <1>1, <2>1, <3>3, <4>1
      <4> QED  BY <1>1, <3>1, <3>2, <4>2, MoovShape
    <3>5. MoovEnd = LastIn(boxes, m)
      BY <1>1, <3>1, <3>2, MoovEndIs
    <3>6. LastIn(boxes, m) \in Nat
      BY <1>1, <3>2, Layout
    <3> QED  BY <1>1, <2>1, <3>3, <3>4, <3>5, <3>6
  <2> QED  BY <2>2, <2>3
<1> QED  BY <1>1, <1>2, <1>3

(* What may end a moov and was passed, cut or not.                         *)
LEMMA PassedEnd ==
  ASSUME NEW box, IsWritten(box), box.type \in Ends, box.at \in Nat, size \in Nat,
         Passed(box), size < box.at + Own(box)
  PROVE  /\ size > box.at + Header
         /\ box.type \in {"data", "keyed", "xyz"} \/ TooMany(box)
<1>1. /\ HeaderOf(box) = 8 /\ Takes(box) \in Nat /\ Own(box) \in Nat
      /\ box.type \in {"mvhd", "stco", "keyed", "data", "xyz"} /\ box.bytes \in Nat
  <2>1. HeaderOf(box) = 8
    BY DEF Ends, HeaderOf, Header
  <2>2. Takes(box) \in Nat /\ Own(box) \in Nat
    BY Taken
  <2> QED  BY <2>1, <2>2 DEF Ends, IsWritten
<1>2. CASE box.type = "keyed"
  <2> DEFINE n == TakesKeyed(box.count, box) - NameBytes
  <2>1. TakesKeyed(box.count, box) \in Nat /\ n >= 24 /\ NameBytes \in Nat
    BY <1>2, KeyedTaken
  <2>2. n \in Int /\ n >= 24
    BY <2>1
  <2>3. box.at + 8 + n <= size
    BY <1>1, <1>2 DEF Passed, InFile
  <2> HIDE DEF n
  <2>4. size > box.at + 8
    BY <2>2, <2>3
  <2> QED  BY <1>2, <2>4 DEF Header
<1>3. CASE box.type # "keyed"
  <2>1. box.at + 8 + Strict(box) <= size
    <3>1. InFile(box, Strict(box)) \/ NameCut(box)
      BY <1>3 DEF Passed
    <3>2. ~NameCut(box)
      BY <1>1 DEF NameCut
    <3> QED  BY <1>1, <3>1, <3>2 DEF InFile
  <2>2. CASE TooMany(box)
    <3>1. Strict(box) \in {8, 12}
      BY <2>2, TooManyStrict
    <3>2. size > box.at + 8
      BY <2>1, <3>1
    <3> QED  BY <2>2, <3>2 DEF Header
  <2>5. CASE box.type \in {"mvhd", "stco"} /\ ~TooMany(box)
    <3>1. Strict(box) = Takes(box)
      BY <2>5 DEF Strict
    <3>2. Own(box) = 8 + Takes(box)
      BY <2>5, Lengths DEF Tight, Header
    <3> QED  BY <1>1, <2>1, <3>1, <3>2
  <2>3. CASE box.type = "data"
    <3>1. Strict(box) = 8
      <4>1. Strict(box) = Takes(box) /\ Takes(box) = TakesData
        BY <2>3, TakesIs DEF Strict, TooMany, Tables
      <4> QED  BY <4>1 DEF TakesData
    <3>2. size > box.at + 8
      BY <2>1, <3>1
    <3> QED  BY <2>3, <3>2 DEF Header
  <2>4. CASE box.type = "xyz"
    <3>1. Strict(box) = 4
      <4>1. Strict(box) = TakesXyz(box) - box.bytes
        BY <2>4 DEF Strict, TooMany, Tables
      <4> QED  BY <1>1, <4>1 DEF TakesXyz
    <3>2. size > box.at + 8
      BY <2>1, <3>1
    <3> QED  BY <2>4, <3>2 DEF Header
  <2> QED  BY <1>1, <1>3, <2>2, <2>3, <2>4, <2>5
<1> QED  BY <1>2, <1>3

LEMMA FinishCut ==
  ASSUME DumpInv, Finish, ~BehindWide, size < boxes[MoovEnd].at + boxes[MoovEnd].size,
         NEW m \in DOMAIN shown, boxes[m].type = "moov"
  PROVE  /\ size > boxes[MoovEnd].at + Header
         /\ boxes[MoovEnd].type \in {"data", "keyed", "xyz"} \/ TooMany(boxes[MoovEnd])
<1>1. /\ Fixed /\ Laid(recording, boxes) /\ Len(boxes) \in Nat /\ size \in Nat
      /\ shown \in Seq(Line) /\ phase = "dumping"
  BY WholeIs DEF DumpInv, Fixed, Types, Finish
<1>2. PICK q \in 1 .. Len(boxes) + 1 :
        /\ Len(shown) = q - 1
        /\ q <= Len(boxes) => boxes[q].level = 0
  BY FinishAt
<1>3. m \in 1 .. Len(boxes) /\ m < q
  BY <1>1, <1>2
<1>4. PICK e : e = LastIn(boxes, m)
  OBVIOUS
<1>5. e < q /\ e \in m .. Len(boxes)
  BY <1>1, <1>2, <1>3, <1>4, BehindMoov
<1>6. MoovEnd = e
  BY <1>1, <1>3, <1>4, MoovEndIs
<1>7. LastIn(boxes, e) = e /\ boxes[e].type \in Ends
  BY <1>1, <1>3, <1>4, MoovShape
<1>8. e \in 1 .. Len(boxes) /\ e \in 1 .. Len(shown)
  BY <1>1, <1>2, <1>3, <1>5
<1>9. Passed(boxes[e])
  BY <1>1, <1>8 DEF DumpInv
<1>10. IsWritten(boxes[e]) /\ boxes[e].at \in Nat /\ boxes[e].size = Own(boxes[e])
  BY <1>1, <1>7, <1>8, Layout, SizeAtLeast
<1> QED  BY <1>1, <1>6, <1>7, <1>9, <1>10, PassedEnd

LEMMA FinishStep == ASSUME DumpInv, Finish PROVE DumpInv'
<1>1. /\ phase = "dumping" /\ phase' = "dumped"
      /\ UNCHANGED <<fileVars, pos, readBytes, last, boxSize, boxVars, frames, shown>>
  BY DEF Finish
<1>2. /\ Fixed' /\ (IsCut' <=> IsCut) /\ (BehindWide' <=> BehindWide) /\ MoovEnd' = MoovEnd
      /\ boxes' = boxes /\ size' = size /\ recording' = recording /\ shown' = shown
      /\ \A j : Passed(boxes[j])' <=> Passed(boxes[j])
  BY <1>1, FileSame DEF DumpInv
<1>3. Types'
  BY <1>1, <1>2 DEF DumpInv, Types, boxVars
<1>4. ~BehindWide' => \A j \in 1 .. Len(shown') : Passed(boxes[j])'
  BY <1>1, <1>2 DEF DumpInv
<1>5. ShownInStep'
  BY <1>1, <1>2 DEF DumpInv, ShownInStep
<1>6. WholeShown'
  <2> SUFFICES ASSUME ~IsCut, ~BehindWide, NEW i \in DOMAIN boxes,
                      recording.moov = "front" => i <= MoovEnd, boxes[i].at + Header < size
               PROVE  i <= Len(shown)
    BY <1>1, <1>2 DEF WholeShown
  <2> QED  BY FinishWhole
<1>7. CutNoticed'
  <2> SUFFICES ASSUME ~BehindWide, size < boxes[MoovEnd].at + boxes[MoovEnd].size,
                      NEW m \in DOMAIN shown, boxes[m].type = "moov"
               PROVE  /\ size > boxes[MoovEnd].at + Header
                      /\ boxes[MoovEnd].type \in {"data", "keyed", "xyz"}
                         \/ TooMany(boxes[MoovEnd])
    BY <1>2 DEF CutNoticed
  <2> QED  BY FinishCut
<1> QED  BY <1>1, <1>2, <1>3, <1>4, <1>5, <1>6, <1>7 DEF DumpInv

LEMMA StutterStep == ASSUME DumpInv, UNCHANGED vars PROVE DumpInv'
<1>1. /\ UNCHANGED fileVars
      /\ pos' = pos /\ readBytes' = readBytes /\ last' = last /\ boxSize' = boxSize
      /\ trackType' = trackType /\ keyCount' = keyCount /\ frames' = frames
      /\ phase' = phase /\ shown' = shown
  BY DEF vars, boxVars
<1>2. /\ boxes' = boxes /\ size' = size /\ recording' = recording
      /\ Fixed' /\ (IsCut' <=> IsCut) /\ (BehindWide' <=> BehindWide) /\ MoovEnd' = MoovEnd
      /\ \A j : Passed(boxes[j])' <=> Passed(boxes[j])
  BY <1>1, FileSame DEF DumpInv
<1>3. Types'
  BY <1>1 DEF DumpInv, Types
<1>4. phase' = "dumping" => Standing'
  <2> SUFFICES ASSUME phase = "dumping" PROVE Standing'
    BY <1>1
  <2>1. CASE Off
    <3>1. Off'
      BY <1>1, <1>2, <2>1 DEF Off, Here, Whole
    <3> QED  BY <3>1 DEF Standing
  <2>2. CASE \E w \in Seq(Nat), q \in Nat, lift \in {0, 1} : Cursor(w, q, lift)
    <3>1. PICK w \in Seq(Nat), q \in Nat, lift \in {0, 1} : Cursor(w, q, lift)
      BY <2>2
    <3>2. NoMoov(q)' <=> NoMoov(q)
      BY <1>2 DEF NoMoov
    <3>3. Place(w, q, lift)'
      BY <1>1, <1>2, <3>1, <3>2 DEF Cursor, Place
    <3>4. Bytes(w, q, lift)'
      BY <1>1, <1>2, <3>1, <3>2 DEF Cursor, Bytes
    <3>5. Told(q)'
      BY <1>1, <1>2, <3>1 DEF Cursor, Told, Skipped
    <3>6. Remembered(q)'
      BY <1>1, <1>2, <3>1 DEF Cursor, Remembered
    <3>7. Cursor(w, q, lift)'
      BY <3>3, <3>4, <3>5, <3>6 DEF Cursor
    <3> QED  BY <3>7 DEF Standing
  <2> QED  BY <2>1, <2>2 DEF DumpInv, Standing
<1>5. phase' \in {"dumping", "dumped"} /\ ~BehindWide'
        => \A j \in 1 .. Len(shown') : Passed(boxes[j])'
  BY <1>1, <1>2 DEF DumpInv
<1>6. phase' \in {"failed", "undefined"} => IsCut'
  BY <1>1, <1>2 DEF DumpInv
<1>7. ShownInStep'
  BY <1>1, <1>2 DEF DumpInv, ShownInStep
<1>8. WholeShown'
  BY <1>1, <1>2 DEF DumpInv, WholeShown
<1>9. CutNoticed'
  BY <1>1, <1>2 DEF DumpInv, CutNoticed
<1> QED  BY <1>2, <1>3, <1>4, <1>5, <1>6, <1>7, <1>8, <1>9 DEF DumpInv

LEMMA DumpNext == ASSUME DumpInv, [Next]_vars PROVE DumpInv'
<1>1. CASE HeaderCut
  BY <1>1, HeaderCutStep
<1>2. CASE OutOfStep
  BY <1>2, OutOfStepStep
<1>3. ASSUME NEW i \in Here, BodyCut(boxes[i]) PROVE DumpInv'
  BY <1>3, BodyCutStep
<1>4. ASSUME NEW i \in Here, KeyedCut(boxes[i]) PROVE DumpInv'
  BY <1>4, KeyedCutStep
<1>5. ASSUME NEW i \in Here, Leaf(boxes[i]) PROVE DumpInv'
  BY <1>5, LeafStep
<1>6. ASSUME NEW i \in Here, Enter(boxes[i]) PROVE DumpInv'
  BY <1>6, EnterStep
<1>7. CASE Leave
  BY <1>7, LeaveStep
<1>8. CASE Finish
  BY <1>8, FinishStep
<1>9. CASE UNCHANGED vars
  BY <1>9, StutterStep
<1> QED  BY <1>1, <1>2, <1>3, <1>4, <1>5, <1>6, <1>7, <1>8, <1>9 DEF Next

LEMMA DumpInit == ASSUME Init PROVE DumpInv
<1>1. /\ recording \in Recordings /\ boxes = Placed(FileBoxes(recording))
      /\ \/ size = Whole
         \/ recording \in Cuttable /\ size \in 1 .. Whole - 1
      /\ pos = 0 /\ readBytes = 0 /\ last = FALSE /\ boxSize = 0
      /\ trackType = "none" /\ keyCount = 0
      /\ frames = <<>> /\ phase = "dumping" /\ shown = <<>>
  BY DEF Init
<1>2. Laid(recording, boxes)
  BY <1>1, PlacedIs, RecordingAssumption DEF RecordingAssumption
<1>3. /\ Len(boxes) \in Nat /\ Len(boxes) >= 1 /\ 1 \in 1 .. Len(boxes)
      /\ boxes[1].at = 0 /\ boxes[1].type = "ftyp" /\ DOMAIN boxes = 1 .. Len(boxes)
  BY <1>2 DEF Laid, Leveled
<1>4. Whole \in Nat /\ Whole >= 1
  <2>1. Whole = Start(boxes, Len(boxes) + 1)
    BY <1>3 DEF Whole, Start
  <2> DEFINE k == Len(boxes) + 1
  <2>2. k \in 1 .. Len(boxes) + 1 /\ 1 \in 1 .. Len(boxes) + 1 /\ 1 < k
    BY <1>3
  <2> HIDE DEF k
  <2>3. Start(boxes, k) \in Nat /\ Start(boxes, 1) \in Nat /\ Start(boxes, 1) + 8 <= Start(boxes, k)
    BY <1>2, <2>2, StartGrows
  <2>4. Start(boxes, k) >= 1
    BY <2>3
  <2> QED  BY <2>1, <2>3, <2>4 DEF k
<1>5. Fixed
  <2>1. size \in 1 .. Whole
    BY <1>1, <1>4
  <2> QED  BY <1>1, <1>2, <2>1 DEF Fixed
<1>6. Types
  <2>1. frames \in Seq(Frame) /\ shown \in Seq(Line) /\ Len(frames) = 0
    BY <1>1
  <2>2. \A d \in 1 .. Len(frames) : frames[d].read <= frames[d].size
    BY <2>1
  <2>3. /\ pos \in Nat /\ readBytes \in Nat /\ last \in BOOLEAN
        /\ boxSize \in Nat /\ keyCount \in Nat
    BY <1>1
  <2> QED  BY <1>1, <2>1, <2>2, <2>3 DEF Types
<1>7. Standing
  <2>1. PICK w : w = <<1>>
    OBVIOUS
  <2>2. w \in Seq(Nat) /\ Len(w) = 1 /\ w[1] = 1 /\ Len(frames) = 0 /\ Len(shown) = 0
    BY <1>1, <2>1
  <2>3. Start(boxes, 1) = 0
    BY <1>3 DEF Start
  <2>4. boxes[1].level = 0
    BY <1>2, <1>3, Layout DEF IsWritten
  <2>5. Stack(boxes, frames, w, 0)
    BY <1>3, <2>2 DEF Stack
  <2>6. Place(w, 1, 0)
    BY <2>2, <2>4, <2>5 DEF Place
  <2>7. Bytes(w, 1, 0)
    BY <1>1, <2>2, <2>3 DEF Bytes
  <2>8. Told(1) /\ Remembered(1)
    BY <2>2 DEF Told, Remembered
  <2>9. Cursor(w, 1, 0)
    BY <2>6, <2>7, <2>8 DEF Cursor
  <2> QED  BY <2>2, <2>9 DEF Standing
<1>8. ShownInStep
  <2>1. Len(shown) = 0 /\ DOMAIN shown = {}
    BY <1>1
  <2> QED  BY <1>1, <1>3, <2>1 DEF ShownInStep
<1>9. WholeShown /\ CutNoticed
  BY <1>1 DEF WholeShown, CutNoticed
<1>10. \A j \in 1 .. Len(shown) : Passed(boxes[j])
  <2>1. Len(shown) = 0
    BY <1>1
  <2> QED  BY <2>1
<1> QED  BY <1>1, <1>5, <1>6, <1>7, <1>8, <1>9, <1>10 DEF DumpInv

(* The inductive invariant.                                                *)
THEOREM Dumping == Spec => []DumpInv
<1>1. Init => DumpInv
  BY DumpInit
<1>2. DumpInv /\ [Next]_vars => DumpInv'
  BY DumpNext
<1> QED  BY <1>1, <1>2, PTL DEF Spec

(* In every file of the muxer, whole or cut at any byte, the dump keeps    *)
(* its variables in their types, and of no box is more read than it has,   *)
(* but for the last box that is read in it.                                *)
THEOREM TypeCorrect == Spec => []TypeOK
<1>1. ASSUME DumpInv PROVE TypeOK
  <2>1. Types /\ size \in 1 .. Whole
    BY <1>1 DEF DumpInv, Fixed
  <2>2. frames \in Seq(Frame) /\ DOMAIN frames = 1 .. Len(frames)
    BY <2>1 DEF Types
  <2> QED  BY <2>1, <2>2 DEF TypeOK, Types
<1> QED  BY <1>1, Dumping, PTL

(* Whatever is recorded, every box that the muxer writes is long enough    *)
(* for the reader of the demuxer.                                          *)
THEOREM BodiesAreAccepted == Spec => []BodiesAccepted
<1>1. ASSUME DumpInv PROVE BodiesAccepted
  BY <1>1, Accepting DEF DumpInv, Fixed
<1> QED  BY <1>1, Dumping, PTL

(* The dump of a file without a moov behind a wide 'mdat' prints the boxes *)
(* of the file, in their order, at their level and with their size, be it  *)
(* whole or cut at any byte.                                               *)
THEOREM DumpInStep == Spec => []ShownInStep
<1>1. DumpInv => ShownInStep
  BY DEF DumpInv
<1> QED  BY <1>1, Dumping, PTL

(* No file of the muxer that is whole is refused, and its dump prints each *)
(* box of the moov, and each of the file when the moov is not in front.    *)
THEOREM WholeIsShown == Spec => []WholeShown
<1>1. DumpInv => WholeShown
  BY DEF DumpInv
<1> QED  BY <1>1, Dumping, PTL

(* A dump that ends well after it found the moov of a file that was cut    *)
(* misses no more than bytes of the last value in the moov, or of its last *)
(* table when that has more entries than the dump reads.                   *)
THEOREM CutIsNoticed == Spec => []CutNoticed
<1>1. DumpInv => CutNoticed
  BY DEF DumpInv
<1> QED  BY <1>1, Dumping, PTL
=============================================================================
