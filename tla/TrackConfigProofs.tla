--------------------------- MODULE TrackConfigProofs ---------------------------
(***************************************************************************)
(* Proofs about TrackConfig: what a file, a recovered file and a copy show *)
(* of the configs of the tracks, for any configs, tracks, calls, syncs and *)
(* copies.                                                                 *)
(*                                                                         *)
(* First the invariant; then what the octets of an hvcC box, the sample    *)
(* entry and the record of a config keep; then what a sync adds to the     *)
(* log; then the steps of the recording and of the files; then what the    *)
(* recovery reads of the log; last the theorems.                           *)
(***************************************************************************)
EXTENDS TrackConfig, Recursion

-----------------------------------------------------------------------------
(* Types: the configs that a track of each type can have on the muxer.     *)
Types == {"video", "audio", "metadata", "chapters"}

VideoStates ==
  {c \in [codec : {"UNKNOWN", "AVC", "HEVC"}, vps : Sets, sps : Sets, pps : Sets,
          info : Infos \cup {NoInfo}, width : Nat, height : Nat] :
     /\ c.codec = "HEVC" => c.info \in Infos
     /\ c.codec = "UNKNOWN" => c.sps = NoSet
     /\ c.codec # "HEVC" => c.vps = NoSet}

AudioStates ==
  {c \in [codec : {"UNKNOWN", "AAC_LC"}, asc : Sets, channels : Nat, size : Nat,
          rate : Nat] :
     c.asc # NoSet => c.codec = "AAC_LC"}

MimeStates == [encoding : Strings, mime : Strings]

States == VideoStates \cup AudioStates \cup MimeStates \cup {Null}

StatesOf(type) ==
  CASE type = "video" -> VideoStates
    [] type = "audio" -> AudioStates
    [] type = "metadata" -> MimeStates
    [] type = "chapters" -> {Null}

(* The records of the log.                                                 *)
Bodies == {<<>>} \cup (Types \X BOOLEAN)
          \cup UNION {{Logged(type, c) : c \in StatesOf(type)} : type \in Types}

Records == [kind : {"trak", "stsd", "tables", "covr"}, track : Nat, body : Bodies,
            whole : BOOLEAN]

MuxTyped ==
  /\ mux \in [config : [Tracks -> States], filled : SUBSET Tracks,
              refs : SUBSET Tracks]
  /\ \A t \in Tracks : mux.config[t] \in StatesOf(types[t])

(* The types of all variables; those of file and shown follow from         *)
(* StageInv.                                                               *)
Typed ==
  /\ phase \in Phases /\ types \in Seq(Types)
  /\ MuxTyped
  /\ log \in Seq(Records) /\ committed \in 0 .. Len(log)
  /\ Tracks \subseteq DOMAIN logged /\ logged \in [DOMAIN logged -> Seq(States)]
  /\ acked \cup written \subseteq {t \in DOMAIN logged : logged[t] # <<>>}
  /\ made \in 0 .. MaxFiles
  /\ {cover, thumb, recovered, spoiled} \subseteq BOOLEAN

-----------------------------------------------------------------------------
(* The log.                                                                *)

IsIn(records, i, kind, t) ==
  i \in DOMAIN records /\ records[i].kind = kind /\ records[i].track = t

IsRecord(i, kind, t) == IsIn(log, i, kind, t)

(* Of these the record is whole.                                           *)
Loggable(type, c) == type = "video" => c.codec # "UNKNOWN"

(* A track is followed by its config and comes behind those before it; a   *)
(* config is one that was set; samples come behind their track.            *)
RecordOk(i) ==
  LET r == log[i] IN
  /\ r.kind # "covr" => r.track \in Tracks
  /\ r.kind = "trak" =>
       /\ r.whole /\ r.body[1] = types[r.track] /\ r.body[2] \in BOOLEAN
       /\ IsRecord(i + 1, "stsd", r.track)
       /\ \A u \in Tracks : u < r.track =>
            \E j \in 1 .. i : IsRecord(j, "trak", u)
  /\ r.kind = "stsd" =>
       /\ IsRecord(i - 1, "trak", r.track)
       /\ \E k \in DOMAIN logged[r.track] :
            /\ r.body = Logged(types[r.track], logged[r.track][k])
            /\ r.whole => Loggable(types[r.track], logged[r.track][k])
  /\ r.kind = "tables" =>
       /\ r.whole
       /\ \E j \in 1 .. i : IsRecord(j, "trak", r.track)

(* What a sync would log of the tracks.                                    *)
Round == FlattenSeq([t \in Tracks |-> TrackRecords(t)])

(* A sync that logs the first m records of the round, up to one that is    *)
(* not whole if it fails, and a cover if there is one.                     *)
Synced(m, failed, thumbs, whole) ==
  /\ log' \in Seq(Records)
  /\ Len(log') = Len(log) + m + (IF thumbs THEN 1 ELSE 0)
  /\ \A i \in 1 .. Len(log) : log'[i] = log[i]
  /\ \A k \in 1 .. m : log'[Len(log) + k] = Round[k]
  /\ thumbs => log'[Len(log) + m + 1] = CoverRecord(whole) /\ ~failed
  /\ ~thumbs => whole
  /\ IF failed
     THEN /\ m >= 1 /\ ~Round[m].whole /\ \A k \in 1 .. m - 1 : Round[k].whole
          /\ committed' = committed
     ELSE /\ m = Len(Round) /\ \A k \in 1 .. m : Round[k].whole
          /\ committed' = Len(log')
  /\ spoiled' <=> spoiled \/ failed \/ ~whole
  /\ written' = written \cup {Round[k].track : k \in 1 .. m}
  /\ logged' = [t \in Tracks |->
       IF \E k \in 1 .. m : Round[k].kind = "stsd" /\ Round[k].track = t
       THEN Append(logged[t], mux.config[t]) ELSE logged[t]]
  /\ acked' = IF failed \/ spoiled THEN acked ELSE acked \cup mux.filled
  /\ spoiled' \in BOOLEAN /\ thumb' \in BOOLEAN
  /\ UNCHANGED <<phase, types, mux, cover, fileVars>>

(* The last config of a track in the log is the last one that was logged.  *)
LastLogged(t) ==
  \E i \in DOMAIN log :
    /\ IsRecord(i, "stsd", t)
    /\ log[i].body = Logged(types[t], logged[t][Len(logged[t])])
    /\ log[i].whole => Loggable(types[t], logged[t][Len(logged[t])])
    /\ \A j \in DOMAIN log : j > i => ~IsRecord(j, "stsd", t)

(* The samples of a track are in a part of the log that the header covers  *)
(* and that has no broken record.                                          *)
AckedWhole(t) ==
  \E i \in 1 .. committed :
    /\ IsRecord(i, "tables", t)
    /\ \A j \in 1 .. i : log[j].whole

(* What holds of the log until the recovery: a log of whole records is     *)
(* covered by its header.                                                  *)
LogInv ==
  /\ \A t \in DOMAIN logged : \A k \in DOMAIN logged[t] :
       t \in Tracks /\ logged[t][k] \in StatesOf(types[t])
  /\ DOMAIN logged = Tracks
  /\ \A i \in DOMAIN log : RecordOk(i)
  /\ \A t \in Tracks : logged[t] # <<>> => LastLogged(t)
  /\ \A t \in written : \E i \in DOMAIN log : IsRecord(i, "trak", t)
  /\ \A t \in acked : AckedWhole(t)
  /\ ~spoiled => committed = Len(log) /\ \A i \in DOMAIN log : log[i].whole

-----------------------------------------------------------------------------
(* Files.                                                                  *)

(* What is read of the octets of an hvcC box that was written.             *)
InOctets == [space : 0 .. 3, tier : 0 .. 1, idc : 0 .. 31, flags : Nat,
             parallelism : {0, 2}, chroma : {0, 2}, depth : 8 .. 11, rate : 0 .. 3,
             layers : 0 .. 7, nested : 0 .. 1, length : 1 .. 4]

Halfwords == {n \in Nat : n < 65536}

(* What can be shown of a track, of any file.                              *)
Passed(type, s) ==
  CASE type = "video" ->
         /\ s \in [codec : {"AVC", "HEVC"}, vps : Sets, sps : Sets \ ShortSets,
                   pps : Sets, info : Infos \cup {NoInfo}, width : Halfwords,
                   height : Halfwords]
         /\ IF s.codec = "HEVC"
            THEN s.info \in InOctets
            ELSE s.info = NoInfo /\ s.vps = NoSet
    [] type = "audio" ->
         /\ s \in [codec : {"AAC_LC", "UNKNOWN"}, asc : Sets \ {NoSet}, channels : {2},
                   size : {16}, rate : Nat]
         /\ s.codec = IF s.asc \in LowComplexity THEN "AAC_LC" ELSE "UNKNOWN"
    [] type = "metadata" ->
         s \in [encoding : Strings \ {Empty}, mime : Strings \ {Empty}]
    [] type = "chapters" -> s = Null

(* The number of the file that is shown, or was last.                      *)
Opened == IF phase = "open" THEN made ELSE made - 1

(* The layers, shifted by five and read from bit three, keep one bit in    *)
(* the second file and none in the third.                                  *)
Rest(type, s) ==
  type = "video" /\ s.codec = "HEVC" =>
    /\ Opened >= 2 => s.info.layers \in {0, 4}
    /\ Opened >= 3 => s.info.layers = 0

(* What file, shown and the muxer say of one another: the file is what the *)
(* muxer held, unless that could not be written, the muxer of a copy holds *)
(* what was shown, which always can, and all that a copy leaves out is     *)
(* left out by the second file.                                            *)
StageInv ==
  /\ phase \in {"recording", "dead"} => ~recovered
  /\ phase \in {"recording", "dead", "failed"} =>
       made = 0 /\ file = NoTracks /\ shown = NoTracks
  /\ phase \in {"closed", "open"} => made >= 1 /\ file = FileOf(mux, types)
  /\ phase \in {"closed", "open"} /\ made >= 2 => ~Unwritten(mux, types)
  /\ phase = "closed" /\ made = 1 => shown = NoTracks
  /\ phase = "open" => shown = [t \in DOMAIN file |-> Shown(types[t], file[t])]
  /\ \A t \in DOMAIN shown :
       t \in Tracks /\ Passed(types[t], shown[t]) /\ Rest(types[t], shown[t])
  /\ phase = "closed" /\ made >= 2 =>
       /\ shown = [t \in DOMAIN shown |-> shown[t]]
       /\ mux.filled = Copied
       /\ \A t \in mux.filled : mux.config[t] = Settings(types[t], shown[t])
  /\ phase \in {"closed", "open"} /\ Opened >= 2 => Copied = DOMAIN shown

-----------------------------------------------------------------------------
(* The recovery.                                                           *)

(* A track of a recovered file has a config that was logged, the last one  *)
(* if every record is whole.                                               *)
FromLog(t) ==
  /\ t \in DOMAIN logged
  /\ \E i \in DOMAIN logged[t] :
       /\ spoiled \/ i = Len(logged[t])
       /\ logged[t][i] \in StatesOf(types[t])
       /\ Loggable(types[t], logged[t][i])
       /\ mux.config[t] = ReadConfig(types[t], Logged(types[t], logged[t][i]))

(* What holds of the muxer that the recovery filled.                       *)
RecInv ==
  /\ \A t \in mux.filled : FromLog(t)
  /\ acked \subseteq mux.filled
  /\ phase = "failed" => Unwritten(mux, types)

(* The muxer that the recovery fills.                                      *)
Readers == [types : Seq(Types), config : Seq(States), filled : SUBSET Nat,
            refs : SUBSET Nat, on : BOOLEAN]

ReaderOk(m) ==
  /\ m \in Readers
  /\ Len(m.types) <= Len(types) /\ Len(m.config) = Len(m.types)
  /\ m.filled \subseteq DOMAIN m.types /\ m.refs \subseteq DOMAIN m.types
  /\ \A t \in DOMAIN m.types : m.config[t] \in StatesOf(m.types[t])

(* The reader has of a track a config that was logged of it.               *)
Got(m, t) ==
  \E k \in DOMAIN logged[t] :
    /\ Loggable(types[t], logged[t][k])
    /\ m.config[t] = ReadConfig(types[t], Logged(types[t], logged[t][k]))

WholeTo(i) == \A j \in 1 .. i : log[j].whole

(* Behind the first i records a reader that goes on numbers tracks as the  *)
(* muxer did, and has their configs, but for that of a track just read.    *)
KnownOk(m, i, resume) ==
  m.on => \A t \in DOMAIN m.types :
            /\ m.types[t] = types[t]
            /\ Got(m, t) \/ (IsRecord(i, "trak", t) /\ ~Swallowed(i, resume))

FilledOk(m) == \A t \in m.filled : m.types[t] = types[t] /\ Got(m, t)

(* In the part of the log that is whole it has missed nothing.             *)
FilledAll(m, i) ==
  \A t \in Tracks : \A j \in 1 .. i :
    WholeTo(j) /\ IsRecord(j, "tables", t) => t \in m.filled

InStep(m, i) ==
  WholeTo(i) =>
    /\ m.on
    /\ \A t \in Tracks : \A j \in 1 .. i : IsRecord(j, "trak", t) => Known(m, t)
    /\ \A t \in DOMAIN m.types : \A j \in 1 .. i :
         IsRecord(j, "stsd", t) /\ (\A l \in j + 1 .. i : ~IsRecord(l, "stsd", t)) =>
           m.config[t] = ReadConfig(types[t], log[j].body)

ReadOk(m, i, resume) ==
  /\ ReaderOk(m) /\ KnownOk(m, i, resume) /\ FilledOk(m) /\ FilledAll(m, i)
  /\ InStep(m, i)

ReadNext(m, i, resume) ==
  IF Swallowed(i, resume) THEN m ELSE ReadRecord(m, log[i])

(* The fields of an info fit into the bits that an hvcC box has for them.  *)
InRoom(i) ==
  /\ i.space < 4 /\ i.tier < 2 /\ i.idc < 32 /\ i.depth \in 8 .. 11 /\ i.rate < 4
  /\ i.nested < 2 /\ i.length \in 1 .. 4

(* So do those of the muxer, if it can be written, and of what the caller  *)
(* may set.                                                                *)
RoomInv ==
  \A t \in Tracks : LET c == mux.config[t] IN
    types[t] = "video" /\ c.codec = "HEVC" /\ c.sps # NoSet => InRoom(c.info)

InfosInRoom == \A c \in VideoConfigs : c.codec = "HEVC" => InRoom(c.info)

(* The inductive invariant.                                                *)
Inv ==
  /\ Typed /\ StageInv
  /\ ~recovered => LogInv
  /\ recovered /\ made < 2 => RecInv

(* Beside it, of a file that is not recovered nor copied.                  *)
Roomy == ~recovered /\ made < 2 => RoomInv

(* The parts of an octet in terms of its bits.                             *)
LEMMA PackedParts ==
  ASSUME NEW words
  PROVE  LET n == Packed(words)
             B(place) == BitOf(words, place) IN
         /\ n \in 0 .. 255
         /\ n \div 64 = (B(64) + B(128)) \div 64
         /\ Bit(n, 32) = B(32) \div 32
         /\ n % 32 = B(1) + B(2) + B(4) + B(8) + B(16)
         /\ 2 * Bit(n, 2) = B(2)
         /\ Bit(n, 4) = B(4) \div 4
         /\ n % 4 = B(1) + B(2)
         /\ (n \div 8) % 8 = (B(8) + B(16) + B(32)) \div 8
<1>1. /\ BitOf(words, 1) \in {0, 1} /\ BitOf(words, 2) \in {0, 2}
      /\ BitOf(words, 4) \in {0, 4} /\ BitOf(words, 8) \in {0, 8}
      /\ BitOf(words, 16) \in {0, 16} /\ BitOf(words, 32) \in {0, 32}
      /\ BitOf(words, 64) \in {0, 64} /\ BitOf(words, 128) \in {0, 128}
  BY DEF BitOf
<1> DEFINE a == BitOf(words, 1)  b == BitOf(words, 2) c == BitOf(words, 4)
           d == BitOf(words, 8)  e == BitOf(words, 16) f == BitOf(words, 32)
           g == BitOf(words, 64) h == BitOf(words, 128)
           n == a + b + c + d + e + f + g + h
<1>2. Packed(words) = n
  BY DEF Packed
<1>3. /\ a \in {0, 1} /\ b \in {0, 2} /\ c \in {0, 4} /\ d \in {0, 8}
      /\ e \in {0, 16} /\ f \in {0, 32} /\ g \in {0, 64} /\ h \in {0, 128}
  BY <1>1
<1> HIDE DEF a, b, c, d, e, f, g, h
<1>4. n \in 0 .. 255 BY <1>3
<1>5. n \div 64 = (g + h) \div 64 BY <1>3
<1>6. (n \div 32) % 2 = f \div 32 BY <1>3
<1>7. n % 32 = a + b + c + d + e BY <1>3
<1>8. 2 * ((n \div 2) % 2) = b BY <1>3
<1>9. (n \div 4) % 2 = c \div 4 BY <1>3
<1>10. n % 4 = a + b BY <1>3
<1>11. (n \div 8) % 8 = (d + e + f) \div 8 BY <1>3
<1> QED BY <1>2, <1>4, <1>5, <1>6, <1>7, <1>8, <1>9, <1>10, <1>11 DEF Bit, a, b, c, d, e, f, g, h

(* A bit that words put together have.                                     *)
LEMMA BitsOf ==
  ASSUME NEW words, NEW place
  PROVE  /\ (\E word \in words : Bit(word, place) = 1) => BitOf(words, place) = place
         /\ ~(\E word \in words : Bit(word, place) = 1) => BitOf(words, place) = 0
BY DEF BitOf

(* Of a depth the bits that it is read from are left as they were.         *)
LEMMA DepthIsRead ==
  ASSUME NEW depth \in Octets
  PROVE  Packed({(depth - 8) % 256, 248}) % 4 = depth % 4
<1> DEFINE d == (depth - 8) % 256
           words == {d, 248}
<1>1. d \in 0 .. 255 /\ d % 4 = depth % 4
  BY DEF Octets
<1> HIDE DEF d
<1>2. Bit(248, 1) = 0 /\ Bit(248, 2) = 0
  BY DEF Bit
<1>3. BitOf(words, 1) = IF Bit(d, 1) = 1 THEN 1 ELSE 0
  BY <1>2 DEF BitOf
<1>4. BitOf(words, 2) = IF Bit(d, 2) = 1 THEN 2 ELSE 0
  BY <1>2 DEF BitOf
<1>5. Packed(words) % 4 = BitOf(words, 1) + BitOf(words, 2)
  BY PackedParts
<1>6. (IF Bit(d, 1) = 1 THEN 1 ELSE 0) + (IF Bit(d, 2) = 1 THEN 2 ELSE 0) = d % 4
  BY <1>1 DEF Bit
<1> HIDE DEF words
<1> QED  BY <1>1, <1>3, <1>4, <1>5, <1>6 DEF words, d

(* Of a type that takes two bits one is kept, and not moved.               *)
LEMMA MaskIsRead ==
  ASSUME NEW x \in Octets
  PROVE  2 * Bit(Packed({x, 252}), 2) = 2 * Bit(x, 2)
<1>1. Bit(252, 2) = 0 /\ Bit(x, 2) \in {0, 1}
  BY DEF Bit, Octets
<1>2. BitOf({x, 252}, 2) = IF Bit(x, 2) = 1 THEN 2 ELSE 0
  BY <1>1 DEF BitOf
<1>3. 2 * Bit(Packed({x, 252}), 2) = BitOf({x, 252}, 2)
  BY PackedParts
<1> QED  BY <1>1, <1>2, <1>3

(* What is read of the octets of any info.                                 *)
LEMMA InfoIsRead ==
  ASSUME NEW i \in Infos
  PROVE  /\ ReadHvcc(HvccBytes(i)) \in InOctets
         /\ ReadHvcc(HvccBytes(i)).flags = i.flags
         /\ ReadHvcc(HvccBytes(i)).depth = (i.depth % 4) + 8
         /\ ReadHvcc(HvccBytes(i)).parallelism = 2 * Bit(i.parallelism, 2)
         /\ ReadHvcc(HvccBytes(i)).chroma = 2 * Bit(i.chroma, 2)
<1> DEFINE b == HvccBytes(i)
           r == ReadHvcc(b)
           p == Packed({i.space * 64, i.tier * 32, i.idc})
           q == Packed({i.rate * 64, i.layers * 32, i.nested * 4, (i.length - 1) % 256})
<1>1. p \in 0 .. 255 /\ q \in 0 .. 255
  BY PackedParts
<1>2. b.profile = p /\ b.framerate = q /\ b.flags = i.flags
      /\ b.parallelism = Packed({i.parallelism, 252})
      /\ b.chroma = Packed({i.chroma, 252})
      /\ b.depth = Packed({(i.depth - 8) % 256, 248})
  BY DEF HvccBytes
<1>3. i.depth \in Octets /\ i.parallelism \in Octets /\ i.chroma \in Octets /\ i.flags \in Nat
  BY DEF Infos
<1> HIDE DEF p, q, b
<1>4. r = [space |-> p \div 64, tier |-> Bit(p, 32), idc |-> p % 32, flags |-> i.flags,
           parallelism |-> 2 * Bit(i.parallelism, 2), chroma |-> 2 * Bit(i.chroma, 2),
           depth |-> (i.depth % 4) + 8, rate |-> q \div 64, layers |-> (q \div 8) % 8,
           nested |-> Bit(q, 4), length |-> (q % 4) + 1]
  BY <1>2, <1>3, DepthIsRead, MaskIsRead DEF ReadHvcc
<1>5. /\ p \div 64 \in 0 .. 3 /\ Bit(p, 32) \in 0 .. 1 /\ p % 32 \in 0 .. 31
      /\ q \div 64 \in 0 .. 3 /\ (q \div 8) % 8 \in 0 .. 7 /\ Bit(q, 4) \in 0 .. 1
      /\ (q % 4) + 1 \in 1 .. 4
  BY <1>1 DEF Bit
<1>6. /\ (i.depth % 4) + 8 \in 8 .. 11
      /\ 2 * Bit(i.parallelism, 2) \in {0, 2} /\ 2 * Bit(i.chroma, 2) \in {0, 2}
  BY <1>3 DEF Bit, Octets
<1> HIDE DEF r
<1> QED  BY <1>3, <1>4, <1>5, <1>6 DEF InOctets, r, b

(* The first octet, when its fields have room in it.                       *)
ProfileKept(space, tier, idc) ==
  LET n == Packed({space * 64, tier * 32, idc}) IN
  n \div 64 = space /\ Bit(n, 32) = tier /\ n % 32 = idc

(* The first octet gives back the fields that were put into it.            *)
LEMMA ProfileIsRead ==
  ASSUME NEW space \in 0 .. 3, NEW tier \in 0 .. 1, NEW idc \in 0 .. 31
  PROVE  ProfileKept(space, tier, idc)
<1> DEFINE words == {space * 64, tier * 32, idc}
           B(place) == BitOf(words, place)
<1>1. ASSUME NEW place \in {1, 2, 4, 8, 16}
      PROVE  B(place) = IF Bit(idc, place) = 1 THEN place ELSE 0
  <2>1. Bit(space * 64, place) = 0 /\ Bit(tier * 32, place) = 0
    BY DEF Bit
  <2> QED  BY <2>1 DEF BitOf
<1>2. B(32) = IF tier = 1 THEN 32 ELSE 0
  <2>1. Bit(space * 64, 32) = 0 /\ Bit(tier * 32, 32) = tier /\ Bit(idc, 32) = 0
    BY DEF Bit
  <2> QED  BY <2>1 DEF BitOf
<1>3. ASSUME NEW place \in {64, 128}
      PROVE  B(place) = IF Bit(space * 64, place) = 1 THEN place ELSE 0
  <2>1. Bit(tier * 32, place) = 0 /\ Bit(idc, place) = 0
    BY DEF Bit
  <2> QED  BY <2>1 DEF BitOf
<1>4. B(64) + B(128) = space * 64
  BY <1>3 DEF Bit
<1>5. B(1) + B(2) + B(4) + B(8) + B(16) = idc
  <2>1. /\ B(1) = (IF idc % 2 = 1 THEN 1 ELSE 0)
        /\ B(2) = (IF (idc \div 2) % 2 = 1 THEN 2 ELSE 0)
        /\ B(4) = (IF (idc \div 4) % 2 = 1 THEN 4 ELSE 0)
        /\ B(8) = (IF (idc \div 8) % 2 = 1 THEN 8 ELSE 0)
        /\ B(16) = (IF (idc \div 16) % 2 = 1 THEN 16 ELSE 0)
    <3>1. idc \div 1 = idc
      OBVIOUS
    <3> HIDE DEF B
    <3> QED  BY <1>1, <3>1 DEF Bit
  <2> HIDE DEF B
  <2> QED  BY <2>1
<1>6. LET n == Packed(words) IN
      n \div 64 = (B(64) + B(128)) \div 64 /\ Bit(n, 32) = B(32) \div 32
      /\ n % 32 = B(1) + B(2) + B(4) + B(8) + B(16)
  BY PackedParts
<1> HIDE DEF B, words
<1> QED  BY <1>2, <1>4, <1>5, <1>6 DEF words, ProfileKept

(* The last octet, when its fields but the layers have room in it.         *)
LayersKept(rate, layers, nested, length) ==
  LET n == Packed({rate * 64, layers * 32, nested * 4, (length - 1) % 256}) IN
  /\ Bit(n, 4) = nested /\ (n % 4) + 1 = length
  /\ (n \div 8) % 8 = 4 * (layers % 2)
  /\ layers < 2 => n \div 64 = rate

(* The last octet does, but for the layers, of which a bit goes elsewhere. *)
LEMMA LayersAreRead ==
  ASSUME NEW rate \in 0 .. 3, NEW layers \in Octets, NEW nested \in 0 .. 1,
         NEW length \in 1 .. 4
  PROVE  LayersKept(rate, layers, nested, length)
<1> DEFINE words == {rate * 64, layers * 32, nested * 4, (length - 1) % 256}
           B(place) == BitOf(words, place)
           l == (length - 1) % 256
<1>0. l = length - 1 /\ l \in 0 .. 3
  OBVIOUS
<1> HIDE DEF l
<1>1. ASSUME NEW place \in {1, 2}
      PROVE  B(place) = IF Bit(l, place) = 1 THEN place ELSE 0
  <2>1. Bit(rate * 64, place) = 0 /\ Bit(layers * 32, place) = 0 /\ Bit(nested * 4, place) = 0
    BY DEF Bit, Octets
  <2> QED  BY <2>1 DEF BitOf, l
<1>2. B(4) = 4 * nested
  <2>1. /\ Bit(rate * 64, 4) = 0 /\ Bit(layers * 32, 4) = 0 /\ Bit(nested * 4, 4) = nested
        /\ Bit(l, 4) = 0
    BY <1>0 DEF Bit, Octets
  <2> QED  BY <2>1 DEF BitOf, l
<1>3. ASSUME NEW place \in {8, 16} PROVE B(place) = 0
  <2>1. /\ Bit(rate * 64, place) = 0 /\ Bit(layers * 32, place) = 0
        /\ Bit(nested * 4, place) = 0 /\ Bit(l, place) = 0
    BY <1>0 DEF Bit, Octets
  <2> QED  BY <2>1 DEF BitOf, l
<1>4. B(32) = 32 * (layers % 2)
  <2>1. /\ Bit(rate * 64, 32) = 0 /\ Bit(layers * 32, 32) = layers % 2
        /\ Bit(nested * 4, 32) = 0 /\ Bit(l, 32) = 0 /\ layers % 2 \in {0, 1}
    BY <1>0 DEF Bit, Octets
  <2> QED  BY <2>1 DEF BitOf, l
<1>5. ASSUME NEW place \in {64, 128}
      PROVE  B(place) = IF Bit(rate * 64, place) = 1 \/ Bit(layers * 32, place) = 1
                        THEN place ELSE 0
  <2>1. Bit(nested * 4, place) = 0 /\ Bit(l, place) = 0
    BY <1>0 DEF Bit
  <2> QED  BY <2>1 DEF BitOf, l
<1>6. B(1) + B(2) = l
  BY <1>0, <1>1 DEF Bit
<1>7. layers < 2 => B(64) + B(128) = rate * 64
  <2>1. layers < 2 => Bit(layers * 32, 64) = 0 /\ Bit(layers * 32, 128) = 0
    BY DEF Bit, Octets
  <2>2. /\ B(64) = IF Bit(rate * 64, 64) = 1 \/ Bit(layers * 32, 64) = 1 THEN 64 ELSE 0
        /\ B(128) = IF Bit(rate * 64, 128) = 1 \/ Bit(layers * 32, 128) = 1 THEN 128 ELSE 0
    BY <1>5
  <2>3. (IF Bit(rate * 64, 64) = 1 THEN 64 ELSE 0)
          + (IF Bit(rate * 64, 128) = 1 THEN 128 ELSE 0) = rate * 64
    BY DEF Bit
  <2> HIDE DEF B
  <2> QED  BY <2>1, <2>2, <2>3
<1>9. LET n == Packed(words) IN
      /\ n \div 64 = (B(64) + B(128)) \div 64 /\ Bit(n, 4) = B(4) \div 4
      /\ n % 4 = B(1) + B(2)
      /\ (n \div 8) % 8 = (B(8) + B(16) + B(32)) \div 8
  BY PackedParts
<1>10. B(8) = 0 /\ B(16) = 0
  BY <1>3
<1>11. layers \in Nat
  BY DEF Octets
<1> DEFINE n == Packed(words)
<1> HIDE DEF B, words, n
<1>12. Bit(n, 4) = nested
  BY <1>2, <1>9 DEF n
<1>13. (n % 4) + 1 = length
  BY <1>0, <1>6, <1>9 DEF n
<1>14. (n \div 8) % 8 = 4 * (layers % 2)
  <2>1. layers % 2 \in {0, 1}
    BY <1>11
  <2>2. (B(8) + B(16) + B(32)) \div 8 = 4 * (layers % 2)
    BY <1>4, <1>10, <2>1
  <2> QED  BY <1>9, <2>2 DEF n
<1>15. layers < 2 => n \div 64 = rate
  BY <1>7, <1>9 DEF n
<1> QED  BY <1>12, <1>13, <1>14, <1>15 DEF n, words, LayersKept

(* An info whose fields fit into their bits comes back with them.          *)
LEMMA RoomyInfoIsRead ==
  ASSUME NEW i \in Infos, InRoom(i)
  PROVE  LET r == ReadHvcc(HvccBytes(i)) IN
         /\ \A field \in {"space", "tier", "idc", "flags", "depth", "nested", "length"} :
              r[field] = i[field]
         /\ i.layers < 2 => r.rate = i.rate
         /\ r.layers = 4 * (i.layers % 2)
<1> DEFINE b == HvccBytes(i)
           r == ReadHvcc(b)
<1>1. /\ i.space \in 0 .. 3 /\ i.tier \in 0 .. 1 /\ i.idc \in 0 .. 31
      /\ i.depth \in 8 .. 11 /\ i.rate \in 0 .. 3 /\ i.nested \in 0 .. 1
      /\ i.length \in 1 .. 4 /\ i.layers \in Octets
  BY DEF InRoom, Infos, Octets
<1>2. /\ r.space = b.profile \div 64 /\ r.tier = Bit(b.profile, 32)
      /\ r.idc = b.profile % 32 /\ r.rate = b.framerate \div 64
      /\ r.layers = (b.framerate \div 8) % 8 /\ r.nested = Bit(b.framerate, 4)
      /\ r.length = (b.framerate % 4) + 1
  BY DEF ReadHvcc
<1>3. /\ b.profile = Packed({i.space * 64, i.tier * 32, i.idc})
      /\ b.framerate = Packed({i.rate * 64, i.layers * 32, i.nested * 4,
                               (i.length - 1) % 256})
  BY DEF HvccBytes
<1>4. r.flags = i.flags /\ r.depth = (i.depth % 4) + 8
  BY InfoIsRead
<1>5. (i.depth % 4) + 8 = i.depth
  BY <1>1
<1> HIDE DEF r, b
<1>6. r.space = i.space /\ r.tier = i.tier /\ r.idc = i.idc
  <2> DEFINE n == Packed({i.space * 64, i.tier * 32, i.idc})
  <2>0. ProfileKept(i.space, i.tier, i.idc)
    BY <1>1, ProfileIsRead
  <2>1. n \div 64 = i.space /\ Bit(n, 32) = i.tier /\ n % 32 = i.idc
    BY <2>0 DEF ProfileKept
  <2>2. b.profile = n
    BY <1>3
  <2> HIDE DEF n
  <2> QED  BY <1>2, <2>1, <2>2
<1>7. /\ r.nested = i.nested /\ r.length = i.length
      /\ i.layers < 2 => r.rate = i.rate
      /\ r.layers = 4 * (i.layers % 2)
  <2> DEFINE n == Packed({i.rate * 64, i.layers * 32, i.nested * 4,
                          (i.length - 1) % 256})
  <2>0. LayersKept(i.rate, i.layers, i.nested, i.length)
    BY <1>1, LayersAreRead
  <2>1. /\ Bit(n, 4) = i.nested /\ (n % 4) + 1 = i.length
        /\ (n \div 8) % 8 = 4 * (i.layers % 2)
        /\ i.layers < 2 => n \div 64 = i.rate
    BY <2>0 DEF LayersKept
  <2>2. b.framerate = n
    BY <1>3
  <2> HIDE DEF n
  <2> QED  BY <1>2, <2>1, <2>2
<1> QED  BY <1>4, <1>5, <1>6, <1>7 DEF r, b

(* What was read is written as it is, but for the layers, which move into  *)
(* the rate: one bit of three is left of them, and then none.              *)
LEMMA InfoSettles ==
  ASSUME NEW i \in InOctets
  PROVE  LET r == ReadHvcc(HvccBytes(i)) IN
         /\ i \in Infos /\ r \in InOctets
         /\ r.layers = 4 * (i.layers % 2)
         /\ i.layers = 0 => r = i
<1> DEFINE r == ReadHvcc(HvccBytes(i))
<1>1. i \in Infos
  BY DEF InOctets, Infos, Octets
<1>2. InRoom(i)
  BY DEF InOctets, InRoom
<1>3. /\ r \in InOctets /\ r.parallelism = 2 * Bit(i.parallelism, 2)
      /\ r.chroma = 2 * Bit(i.chroma, 2)
  BY <1>1, InfoIsRead
<1>4. /\ \A field \in {"space", "tier", "idc", "flags", "depth", "nested", "length"} :
           r[field] = i[field]
      /\ i.layers < 2 => r.rate = i.rate
      /\ r.layers = 4 * (i.layers % 2)
  BY <1>1, <1>2, RoomyInfoIsRead
<1>5. r.parallelism = i.parallelism /\ r.chroma = i.chroma
  <2>1. i.parallelism \in {0, 2} /\ i.chroma \in {0, 2}
    BY DEF InOctets
  <2> HIDE DEF r
  <2> QED  BY <1>3, <2>1 DEF Bit
<1>6. ASSUME i.layers = 0 PROVE r = i
  <2>1. r.layers = i.layers /\ r.rate = i.rate
    BY <1>4, <1>6
  <2> HIDE DEF r
  <2>2. /\ r.space = i.space /\ r.tier = i.tier /\ r.idc = i.idc /\ r.flags = i.flags
        /\ r.depth = i.depth /\ r.nested = i.nested /\ r.length = i.length
    BY <1>4
  <2> QED  BY <1>3, <1>5, <2>1, <2>2 DEF InOctets
<1> HIDE DEF r
<1> QED  BY <1>1, <1>3, <1>4, <1>6 DEF r

-----------------------------------------------------------------------------
(* What becomes of the config of a track.                                  *)

(* What the assumptions say of the constants.                              *)
LEMMA SetsAre == NoSet \in Sets /\ NoSet \in ShortSets /\ ShortSets \subseteq Sets
                 /\ NoSet \notin LowComplexity /\ Null # Empty
                 /\ Null \in Strings /\ Empty \in Strings /\ NoInfo \notin Infos
BY TrackConfigAssumption, DecoderAssumption DEF Strings

(* A track that no config was set for has one of its type.                 *)
LEMMA UnsetIsState == \A type \in Types : UnsetOf(type) \in StatesOf(type)
<1>1. UnsetOf("video") \in StatesOf("video")
  BY SetsAre DEF UnsetOf, StatesOf, VideoStates
<1>2. UnsetOf("audio") \in StatesOf("audio")
  BY SetsAre DEF UnsetOf, StatesOf, AudioStates
<1>3. UnsetOf("metadata") \in StatesOf("metadata")
  BY SetsAre DEF UnsetOf, StatesOf, MimeStates
<1>4. UnsetOf("chapters") \in StatesOf("chapters")
  BY DEF UnsetOf, StatesOf
<1> QED  BY <1>1, <1>2, <1>3, <1>4 DEF Types

(* The configs of each type.                                               *)
LEMMA StatesByType ==
  /\ StatesOf("video") = VideoStates /\ StatesOf("audio") = AudioStates
  /\ StatesOf("metadata") = MimeStates /\ StatesOf("chapters") = {Null}
  /\ \A type \in Types : StatesOf(type) \subseteq States
<1>1. /\ StatesOf("video") = VideoStates /\ StatesOf("audio") = AudioStates
      /\ StatesOf("metadata") = MimeStates /\ StatesOf("chapters") = {Null}
  BY DEF StatesOf
<1> QED  BY <1>1 DEF Types, States

(* The sample entry of a file and what is shown of it.                     *)
LEMMA VideoIsShown ==
  ASSUME NEW c \in VideoStates, ~Unwritable("video", c)
  PROVE  LET s == Shown("video", Entry("video", c)) IN
         /\ Passed("video", s) /\ SameVideo(s, c)
         /\ s.codec = c.codec
         /\ c.codec = "HEVC" => s.info = ReadHvcc(HvccBytes(c.info))
<1> DEFINE e == Entry("video", c)
           s == Shown("video", e)
<1>1. /\ c.codec \in {"AVC", "HEVC"} /\ c.vps \in Sets /\ c.sps \in Sets \ ShortSets
      /\ c.pps \in Sets /\ (c.codec # "HEVC" => c.vps = NoSet)
      /\ c.width \in Nat /\ c.height \in Nat
      /\ (c.codec = "HEVC" => c.info \in Infos)
  BY DEF VideoStates, Unwritable
<1>2. e = [codec |-> c.codec, vps |-> c.vps, sps |-> c.sps, pps |-> c.pps,
           bytes |-> IF c.codec = "HEVC" THEN HvccBytes(c.info) ELSE NoInfo,
           width |-> c.width % 65536, height |-> c.height % 65536]
  BY DEF Entry
<1>3. s = [codec |-> e.codec, vps |-> e.vps, sps |-> e.sps, pps |-> e.pps,
           info |-> IF e.codec = "HEVC" THEN ReadHvcc(e.bytes) ELSE NoInfo,
           width |-> e.width, height |-> e.height]
  BY DEF Shown
<1> HIDE DEF s, e
<1> DEFINE info == IF c.codec = "HEVC" THEN ReadHvcc(HvccBytes(c.info)) ELSE NoInfo
<1>4. s = [codec |-> c.codec, vps |-> c.vps, sps |-> c.sps, pps |-> c.pps,
           info |-> info, width |-> c.width % 65536, height |-> c.height % 65536]
  BY <1>2, <1>3
<1>5. c.width % 65536 \in Halfwords /\ c.height % 65536 \in Halfwords
      /\ (c.width < 65536 => c.width % 65536 = c.width)
      /\ (c.height < 65536 => c.height % 65536 = c.height)
  BY <1>1 DEF Halfwords
<1>6. c.codec = "HEVC" => info \in InOctets
  BY <1>1, InfoIsRead
<1>7. InOctets \subseteq Infos
  BY DEF InOctets, Infos, Octets
<1>8. info \in Infos \cup {NoInfo}
  BY <1>6, <1>7
<1>9. c.codec # "HEVC" => info = NoInfo
  OBVIOUS
<1> HIDE DEF info
<1>10. s \in [codec : {"AVC", "HEVC"}, vps : Sets, sps : Sets \ ShortSets,
              pps : Sets, info : Infos \cup {NoInfo}, width : Halfwords,
              height : Halfwords]
  BY <1>1, <1>4, <1>5, <1>8
<1>11. Passed("video", s)
  BY <1>1, <1>4, <1>6, <1>9, <1>10 DEF Passed
<1>12. SameVideo(s, c)
  BY <1>4, <1>5 DEF SameVideo
<1> QED  BY <1>4, <1>11, <1>12 DEF s, e, info

(* What is shown of an audio config that can be written.                   *)
LEMMA AudioIsShown ==
  ASSUME NEW c \in AudioStates, ~Unwritable("audio", c)
  PROVE  LET s == Shown("audio", Entry("audio", c)) IN
         /\ Passed("audio", s) /\ Agrees("audio", s, c)
         /\ s = [codec |-> IF c.asc \in LowComplexity THEN "AAC_LC" ELSE "UNKNOWN",
                 asc |-> c.asc, channels |-> 2, size |-> 16, rate |-> c.rate]
<1> DEFINE s == Shown("audio", Entry("audio", c))
<1>1. c.asc \in Sets \ {NoSet} /\ c.rate \in Nat /\ c.codec = "AAC_LC"
  BY DEF AudioStates, Unwritable
<1>2. s = [codec |-> IF c.asc \in LowComplexity THEN "AAC_LC" ELSE "UNKNOWN",
           asc |-> c.asc, channels |-> 2, size |-> 16, rate |-> c.rate]
  BY DEF Shown, Entry
<1> HIDE DEF s
<1>3. Passed("audio", s)
  BY <1>1, <1>2 DEF Passed
<1>4. Agrees("audio", s, c)
  BY <1>1, <1>2 DEF Agrees
<1> QED  BY <1>2, <1>3, <1>4 DEF s

(* What is shown of the type of timed metadata.                            *)
LEMMA MimeIsShown ==
  ASSUME NEW c \in MimeStates
  PROVE  LET s == Shown("metadata", Entry("metadata", c)) IN
         /\ Passed("metadata", s) /\ Agrees("metadata", s, c)
         /\ s = [encoding |-> ShownString(Length(c.encoding)),
                 mime |-> ShownString(Length(c.mime))]
<1> DEFINE s == Shown("metadata", Entry("metadata", c))
<1>1. c.encoding \in Strings /\ c.mime \in Strings
  BY DEF MimeStates
<1>2. s = [encoding |-> ShownString(Length(c.encoding)),
           mime |-> ShownString(Length(c.mime))]
  BY DEF Shown, Entry
<1>3. \A x \in Strings : /\ ShownString(Length(x)) \in Strings \ {Empty}
                         /\ Length(ShownString(Length(x))) = Length(x)
  BY SetsAre DEF ShownString, Length
<1> HIDE DEF s
<1>4. Passed("metadata", s)
  BY <1>1, <1>2, <1>3 DEF Passed
<1>5. Agrees("metadata", s, c)
  BY <1>1, <1>2, <1>3 DEF Agrees
<1> QED  BY <1>2, <1>4, <1>5 DEF s

(* A config that can be written is shown, and as it was.                   *)
LEMMA ConfigIsShown ==
  ASSUME NEW type \in Types, NEW c \in StatesOf(type), ~Unwritable(type, c)
  PROVE  /\ Passed(type, Shown(type, Entry(type, c)))
         /\ Agrees(type, Shown(type, Entry(type, c)), c)
<1>1. CASE type = "video"
  BY <1>1, StatesByType, VideoIsShown DEF Agrees
<1>2. CASE type = "audio"
  BY <1>2, StatesByType, AudioIsShown
<1>3. CASE type = "metadata"
  BY <1>3, StatesByType, MimeIsShown
<1>4. CASE type = "chapters"
  BY <1>4 DEF Passed, Agrees, Shown
<1> QED  BY <1>1, <1>2, <1>3, <1>4 DEF Types

(* Where the fields have room for it, the info is shown as it was set.     *)
LEMMA InfoIsShown ==
  ASSUME NEW c \in VideoStates, ~Unwritable("video", c),
         c.codec = "HEVC" => InRoom(c.info)
  PROVE  SameInfo(Shown("video", Entry("video", c)), c)
<1> DEFINE s == Shown("video", Entry("video", c))
<1>1. c.codec = "HEVC" => s.info = ReadHvcc(HvccBytes(c.info)) /\ c.info \in Infos
  BY VideoIsShown DEF VideoStates
<1> HIDE DEF s
<1>2. ASSUME c.codec = "HEVC"
      PROVE  /\ \A field \in {"space", "tier", "idc", "flags", "depth", "nested", "length"} :
                  s.info[field] = c.info[field]
             /\ c.info.layers < 2 => s.info.rate = c.info.rate
  BY <1>1, <1>2, RoomyInfoIsRead
<1> QED  BY <1>2 DEF SameInfo, KeptInfo, s

(* A copy of what is shown.                                                *)
LEMMA CopyIsShown ==
  ASSUME NEW type \in Types, NEW s, Passed(type, s)
  PROVE  LET c == Settings(type, s)
             r == Shown(type, Entry(type, c)) IN
         /\ c \in StatesOf(type) /\ ~Unwritable(type, c)
         /\ type = "video" /\ r.codec = "HEVC" =>
              s.codec = "HEVC" /\ r.info.layers = 4 * (s.info.layers % 2)
         /\ (type = "video" /\ s.codec = "HEVC" => s.info.layers = 0) => r = s
<1> DEFINE c == Settings(type, s)
           r == Shown(type, Entry(type, c))
<1>1. CASE type = "video"
  <2>1. c = s
    BY <1>1 DEF Settings
  <2>2. /\ s \in [codec : {"AVC", "HEVC"}, vps : Sets, sps : Sets \ ShortSets,
                  pps : Sets, info : Infos \cup {NoInfo}, width : Halfwords,
                  height : Halfwords]
        /\ IF s.codec = "HEVC" THEN s.info \in InOctets
           ELSE s.info = NoInfo /\ s.vps = NoSet
    <3>1. Passed("video", s)
      BY <1>1, Zenon
    <3> QED  BY <3>1 DEF Passed
  <2>3. s.codec = "HEVC" =>
          LET i == ReadHvcc(HvccBytes(s.info)) IN
          /\ s.info \in Infos /\ i \in InOctets
          /\ i.layers = 4 * (s.info.layers % 2)
          /\ (s.info.layers = 0 => i = s.info)
    BY <2>2, InfoSettles
  <2>4. s \in VideoStates /\ ~Unwritable("video", s)
    BY <2>2, <2>3 DEF VideoStates, Unwritable, Halfwords
  <2>5. s.width % 65536 = s.width /\ s.height % 65536 = s.height
    BY <2>2 DEF Halfwords
  <2>6. r = [codec |-> s.codec, vps |-> s.vps, sps |-> s.sps, pps |-> s.pps,
             info |-> IF s.codec = "HEVC" THEN ReadHvcc(HvccBytes(s.info)) ELSE NoInfo,
             width |-> s.width, height |-> s.height]
    BY <1>1, <2>1, <2>5 DEF Shown, Entry
  <2> HIDE DEF r, c
  <2>7. (s.codec = "HEVC" => s.info.layers = 0) => r = s
    BY <2>2, <2>3, <2>6
  <2>8. r.codec = "HEVC" =>
          s.codec = "HEVC" /\ r.info.layers = 4 * (s.info.layers % 2)
    BY <2>3, <2>6
  <2> QED  BY <1>1, <2>1, <2>4, <2>7, <2>8, StatesByType DEF r, c
<1>2. CASE type = "audio"
  <2>1. /\ s \in [codec : {"AAC_LC", "UNKNOWN"}, asc : Sets \ {NoSet}, channels : {2},
                  size : {16}, rate : Nat]
        /\ s.codec = IF s.asc \in LowComplexity THEN "AAC_LC" ELSE "UNKNOWN"
    BY <1>2 DEF Passed
  <2>2. c = [s EXCEPT !.codec = "AAC_LC"]
    BY <1>2 DEF Settings
  <2> HIDE DEF c
  <2>3. c \in AudioStates /\ ~Unwritable("audio", c) /\ c.asc = s.asc /\ c.rate = s.rate
    BY <2>1, <2>2 DEF AudioStates, Unwritable
  <2>4. r = [codec |-> IF c.asc \in LowComplexity THEN "AAC_LC" ELSE "UNKNOWN",
             asc |-> c.asc, channels |-> 2, size |-> 16, rate |-> c.rate]
    BY <1>2, <2>3, AudioIsShown
  <2> HIDE DEF r
  <2>5. r = s
    BY <2>1, <2>3, <2>4
  <2> QED  BY <1>2, <2>3, <2>5, StatesByType DEF r, c
<1>3. CASE type = "metadata"
  <2>1. s \in [encoding : Strings \ {Empty}, mime : Strings \ {Empty}]
    BY <1>3 DEF Passed
  <2>2. c = s
    BY <1>3 DEF Settings
  <2>3. s \in MimeStates /\ ~Unwritable("metadata", s)
    BY <2>1 DEF MimeStates, Unwritable
  <2>4. r = [encoding |-> ShownString(Length(s.encoding)),
             mime |-> ShownString(Length(s.mime))]
    BY <1>3, <2>2, <2>3, MimeIsShown
  <2>5. \A x \in Strings \ {Empty} : ShownString(Length(x)) = x
    BY SetsAre DEF ShownString, Length
  <2> HIDE DEF r
  <2>6. r = s
    BY <2>1, <2>4, <2>5
  <2> QED  BY <1>3, <2>2, <2>3, <2>6, StatesByType DEF r
<1>4. CASE type = "chapters"
  BY <1>4, StatesByType DEF Passed, Settings, Shown, Unwritable
<1> QED  BY <1>1, <1>2, <1>3, <1>4 DEF Types

(* What the recovery reads of a config that was logged.                    *)
LEMMA LoggedIsRead ==
  ASSUME NEW type \in Types, NEW c \in StatesOf(type), Loggable(type, c)
  PROVE  LET d == ReadConfig(type, Logged(type, c)) IN
         /\ d \in StatesOf(type)
         /\ Unwritable(type, d) => Unwritable(type, c)
         /\ ~Unwritable(type, d) => Agrees(type, Shown(type, Entry(type, d)), c)
<1> DEFINE d == ReadConfig(type, Logged(type, c))
<1>1. CASE type = "video"
  <2>1. /\ c \in [codec : {"AVC", "HEVC"}, vps : Sets, sps : Sets, pps : Sets,
                  info : Infos \cup {NoInfo}, width : Nat, height : Nat]
        /\ c.codec # "HEVC" => c.vps = NoSet
    BY <1>1, StatesByType DEF VideoStates, Loggable
  <2>2. ZeroInfo \in Infos
    BY DEF ZeroInfo, Infos, Octets
  <2>3. d = ReadVideo(LoggedVideo(c))
    BY <1>1 DEF ReadConfig, Logged
  <2>4. d = [codec |-> c.codec, vps |-> c.vps, sps |-> c.sps, pps |-> c.pps,
             info |-> IF c.codec = "HEVC" THEN ZeroInfo ELSE NoInfo,
             width |-> c.width, height |-> c.height]
    <3>1. CASE c.codec = "AVC"
      BY <2>1, <2>3, <3>1 DEF ReadVideo, LoggedVideo
    <3>2. CASE c.codec = "HEVC"
      BY <2>1, <2>3, <3>2 DEF ReadVideo, LoggedVideo
    <3> QED  BY <2>1, <3>1, <3>2
  <2> HIDE DEF d
  <2>5. d \in VideoStates
    BY <2>1, <2>2, <2>4 DEF VideoStates
  <2>6. Unwritable("video", d) => Unwritable("video", c)
    BY <2>4 DEF Unwritable
  <2>7. ASSUME ~Unwritable("video", d)
        PROVE  Agrees("video", Shown("video", Entry("video", d)), c)
    <3>1. SameVideo(Shown("video", Entry("video", d)), d)
      BY <2>5, <2>7, VideoIsShown
    <3>2. d.codec = c.codec /\ d.vps = c.vps /\ d.sps = c.sps /\ d.pps = c.pps
          /\ d.width = c.width /\ d.height = c.height
      BY <2>4
    <3> QED  BY <3>1, <3>2 DEF Agrees, SameVideo
  <2> QED  BY <1>1, <2>5, <2>6, <2>7, StatesByType DEF d
<1>2. CASE type = "audio"
  <2>1. /\ c \in [codec : {"UNKNOWN", "AAC_LC"}, asc : Sets, channels : Nat, size : Nat,
                  rate : Nat]
        /\ c \in AudioStates
    BY <1>2, StatesByType DEF AudioStates
  <2>2. d = c
    BY <1>2, <2>1 DEF ReadConfig, Logged
  <2> HIDE DEF d
  <2> QED  BY <1>2, <2>1, <2>2, AudioIsShown, StatesByType DEF d
<1>3. CASE type = "metadata"
  <2>1. c \in MimeStates /\ c.encoding \in Strings /\ c.mime \in Strings
    <3>1. c \in MimeStates
      BY <1>3, StatesByType
    <3> QED  BY <3>1 DEF MimeStates
  <2>2. d = [encoding |-> Length(c.encoding), mime |-> Length(c.mime)]
    BY <1>3 DEF ReadConfig, Logged
  <2> HIDE DEF d
  <2>3. \A x \in Strings : Length(x) \in Strings /\ Length(Length(x)) = Length(x)
    BY SetsAre DEF Length
  <2>4. d \in MimeStates /\ ~Unwritable("metadata", d)
    BY <2>1, <2>2, <2>3 DEF MimeStates, Unwritable
  <2>5. Agrees("metadata", Shown("metadata", Entry("metadata", d)), d)
    BY <2>4, MimeIsShown
  <2>6. Agrees("metadata", Shown("metadata", Entry("metadata", d)), c)
    BY <2>1, <2>2, <2>3, <2>5 DEF Agrees
  <2> QED  BY <1>3, <2>4, <2>6, StatesByType DEF d
<1>4. CASE type = "chapters"
  BY <1>4, StatesByType DEF ReadConfig, Unwritable, Agrees
<1> QED  BY <1>1, <1>2, <1>3, <1>4 DEF Types

-----------------------------------------------------------------------------
(* What a sync logs of a track.                                            *)
LEMMA RecordsAre ==
  ASSUME NEW t
  PROVE  /\ TrackRecord(t) = [kind |-> "trak", track |-> t,
                              body |-> <<types[t], t \in mux.refs>>, whole |-> TRUE]
         /\ StsdRecord(t) = [kind |-> "stsd", track |-> t,
                             body |-> Logged(types[t], mux.config[t]),
                             whole |-> ~Unloggable(t)]
         /\ Tables(t) = [kind |-> "tables", track |-> t, body |-> <<>>, whole |-> TRUE]
BY DEF TrackRecord, StsdRecord, Tables, Record

(* The record of a config.                                                 *)
LEMMA StsdIs ==
  ASSUME NEW t
  PROVE  /\ StsdRecord(t).kind = "stsd" /\ StsdRecord(t).track = t
         /\ StsdRecord(t).body = Logged(types[t], mux.config[t])
         /\ StsdRecord(t).whole <=> ~Unloggable(t)
<1> DEFINE w == ~Unloggable(t)
<1>1. StsdRecord(t) = [kind |-> "stsd", track |-> t,
                       body |-> Logged(types[t], mux.config[t]), whole |-> w]
  BY RecordsAre
<1>2. w <=> ~Unloggable(t)
  OBVIOUS
<1> HIDE DEF w
<1>3. StsdRecord(t).whole = w
  BY <1>1
<1> QED  BY <1>1, <1>2, <1>3

(* The records of a track.                                                 *)
LEMMA RecordsTyped ==
  ASSUME Typed, NEW t \in Tracks
  PROVE  /\ TrackRecord(t) \in Records /\ StsdRecord(t) \in Records
         /\ Tables(t) \in Records
<1>1. t \in Nat /\ types[t] \in Types
  BY DEF Typed, Tracks
<1>2. mux.config[t] \in StatesOf(types[t])
  BY DEF Typed, MuxTyped
<1>3. (t \in mux.refs) \in BOOLEAN /\ Unloggable(t) \in BOOLEAN
  BY DEF Unloggable
<1>4. <<types[t], t \in mux.refs>> \in Bodies
  <2> DEFINE b == t \in mux.refs
  <2>1. b \in BOOLEAN
    BY <1>3
  <2> HIDE DEF b
  <2>2. <<types[t], b>> \in Types \X BOOLEAN
    BY <1>1, <2>1
  <2>3. <<types[t], b>> \in Bodies
    BY <2>2 DEF Bodies
  <2> QED  BY <2>3 DEF b
<1>5. Logged(types[t], mux.config[t]) \in Bodies
  BY <1>1, <1>2 DEF Bodies
<1>6. <<>> \in Bodies
  BY DEF Bodies
<1>7. TrackRecord(t) \in Records
  <2> DEFINE b == <<types[t], t \in mux.refs>>
  <2>1. b \in Bodies
    BY <1>4
  <2> HIDE DEF b
  <2>2. [kind |-> "trak", track |-> t, body |-> b, whole |-> TRUE] \in Records
    BY <1>1, <2>1 DEF Records
  <2> QED  BY <2>2, RecordsAre DEF b
<1>8. StsdRecord(t) \in Records
  <2> DEFINE b == Logged(types[t], mux.config[t])
             w == ~Unloggable(t)
  <2>1. b \in Bodies /\ w \in BOOLEAN
    BY <1>5
  <2> HIDE DEF b, w
  <2>2. [kind |-> "stsd", track |-> t, body |-> b, whole |-> w] \in Records
    BY <1>1, <2>1 DEF Records
  <2> QED  BY <2>2, RecordsAre DEF b, w
<1>9. Tables(t) \in Records
  <2> DEFINE b == <<>>
  <2>1. b \in Bodies
    BY <1>6
  <2> HIDE DEF b
  <2>2. [kind |-> "tables", track |-> t, body |-> b, whole |-> TRUE] \in Records
    BY <1>1, <2>1 DEF Records
  <2> QED  BY <2>2, RecordsAre DEF b
<1> QED  BY <1>7, <1>8, <1>9

(* What a sync logs of a track, in its order.                              *)
LEMMA TrackRecordsAre ==
  ASSUME Typed, NEW t \in Tracks
  PROVE  LET s == TrackRecords(t) IN
         /\ s \in Lists(Records)
         /\ \A j \in 1 .. Len(s) :
              \/ j = 1 /\ t \notin written /\ s[j] = TrackRecord(t)
              \/ j = 2 /\ t \notin written /\ s[j] = StsdRecord(t)
              \/ /\ j = Len(s) /\ t \in mux.filled /\ s[j] = Tables(t)
                 /\ t \notin written => j = 3
         /\ t \notin written =>
              Len(s) >= 2 /\ s[1] = TrackRecord(t) /\ s[2] = StsdRecord(t)
         /\ t \in mux.filled =>
              \/ \E i \in DOMAIN log : log[i] = Tables(t)
              \/ Len(s) >= 1 /\ s[Len(s)] = Tables(t)
<1> DEFINE s == TrackRecords(t)
           x == TrackRecord(t)
           y == StsdRecord(t)
           z == Tables(t)
           more == t \in mux.filled /\ ~Contains(log, Tables(t))
<1>1. x \in Records /\ y \in Records /\ z \in Records
  BY RecordsTyped
<1>2. s = (IF t \in written THEN <<>> ELSE <<x, y>>) \o (IF more THEN <<z>> ELSE <<>>)
  BY DEF TrackRecords
<1>3. more => t \in mux.filled
  OBVIOUS
<1>4. t \in mux.filled /\ ~more => \E i \in DOMAIN log : log[i] = z
  BY DEF Contains, Typed
<1> HIDE DEF s, x, y, z, more
<1>5. CASE t \in written /\ more
  <2>1. s = <<z>>
    BY <1>2, <1>5
  <2> QED  BY <1>1, <1>3, <1>5, <2>1 DEF Lists, s, x, y, z
<1>6. CASE t \in written /\ ~more
  <2>1. s = <<>>
    BY <1>2, <1>6
  <2> QED  BY <1>1, <1>4, <1>6, <2>1 DEF Lists, s, x, y, z
<1>7. CASE t \notin written /\ more
  <2>1. s = <<x, y>> \o <<z>>
    BY <1>2, <1>7
  <2>2. s \in Seq(Records) /\ Len(s) = 3 /\ s[1] = x /\ s[2] = y /\ s[3] = z
    BY <1>1, <2>1
  <2> QED  BY <1>1, <1>3, <1>7, <2>2 DEF Lists, s, x, y, z
<1>8. CASE t \notin written /\ ~more
  <2>1. s = <<x, y>>
    BY <1>2, <1>8
  <2> QED  BY <1>1, <1>4, <1>8, <2>1 DEF Lists, s, x, y, z
<1> QED  BY <1>5, <1>6, <1>7, <1>8

(* What a sync would log of all of them.                                   *)
LEMMA RoundIs ==
  ASSUME Typed
  PROVE  /\ Round \in Seq(Records)
         /\ \A k \in 1 .. Len(Round) : LET t == Round[k].track IN
              /\ t \in Tracks
              /\ \/ /\ Round[k] = TrackRecord(t) /\ t \notin written
                    /\ k + 1 \in 1 .. Len(Round) /\ Round[k + 1] = StsdRecord(t)
                    /\ \A u \in Tracks : u < t /\ u \notin written =>
                         \E j \in 1 .. k : Round[j] = TrackRecord(u)
                 \/ /\ Round[k] = StsdRecord(t) /\ t \notin written
                    /\ k - 1 \in 1 .. Len(Round) /\ Round[k - 1] = TrackRecord(t)
                    /\ \A l \in 1 .. Len(Round) :
                         Round[l].kind = "stsd" /\ Round[l].track = t => l = k
                 \/ /\ Round[k] = Tables(t) /\ t \in mux.filled
                    /\ t \notin written => \E j \in 1 .. k : Round[j] = TrackRecord(t)
         /\ \A t \in Tracks : t \notin written =>
              \E k \in 1 .. Len(Round) : Round[k] = StsdRecord(t)
         /\ \A t \in mux.filled : \/ \E i \in DOMAIN log : log[i] = Tables(t)
                                  \/ \E k \in 1 .. Len(Round) : Round[k] = Tables(t)
<1> DEFINE n == Len(types)
           seqs == [t \in Tracks |-> TrackRecords(t)]
           size == [t \in 1 .. n |-> Len(seqs[t])]
<1>1. n \in Nat /\ Tracks = 1 .. n /\ mux.filled \subseteq Tracks
  BY DEF Typed, Tracks, MuxTyped
<1>2. \A t \in Tracks : TrackRecords(t) \in Lists(Records)
  BY TrackRecordsAre
<1>3. seqs \in Lists(Lists(Records)) /\ Len(seqs) = n
  BY <1>1, <1>2 DEF Lists
<1>4. \A t \in Tracks : seqs[t] = TrackRecords(t)
  OBVIOUS
<1>5. Round = FlattenSeq(seqs)
  BY DEF Round
<1>6. \A t \in Tracks :
        /\ \A j \in 1 .. Len(seqs[t]) :
             \/ j = 1 /\ t \notin written /\ seqs[t][j] = TrackRecord(t)
             \/ j = 2 /\ t \notin written /\ seqs[t][j] = StsdRecord(t)
             \/ /\ j = Len(seqs[t]) /\ t \in mux.filled /\ seqs[t][j] = Tables(t)
                /\ t \notin written => j = 3
        /\ t \notin written =>
             Len(seqs[t]) >= 2 /\ seqs[t][1] = TrackRecord(t)
             /\ seqs[t][2] = StsdRecord(t)
        /\ t \in mux.filled =>
             \/ \E i \in DOMAIN log : log[i] = Tables(t)
             \/ Len(seqs[t]) >= 1 /\ seqs[t][Len(seqs[t])] = Tables(t)
  BY <1>4, TrackRecordsAre
<1>7. \A t \in Tracks : seqs[t] \in Seq(Records) /\ Len(seqs[t]) \in Nat
  BY <1>2, <1>4 DEF Lists
<1> HIDE DEF seqs
<1>8. Round \in Seq(Records)
  <2>1. Round \in Lists(Records)
    BY <1>3, <1>5, FlattenType
  <2> QED  BY <2>1 DEF Lists
<1>9. PICK start \in [0 .. n -> Nat] :
        /\ \A i \in 1 .. n : start[i] = start[i - 1] + Len(seqs[i])
        /\ \A i \in 1 .. n : \A j \in 1 .. Len(seqs[i]) :
             /\ start[i - 1] + j \in 1 .. Len(Round)
             /\ Round[start[i - 1] + j] = seqs[i][j]
        /\ \A k \in 1 .. Len(Round) :
             \E i \in 1 .. n : \E j \in 1 .. Len(seqs[i]) : k = start[i - 1] + j
  <2> HIDE DEF n
  <2>1. \E start \in [0 .. Len(seqs) -> Nat] :
           /\ start[0] = 0 /\ start[Len(seqs)] = Len(FlattenSeq(seqs))
           /\ \A i \in 1 .. Len(seqs) : start[i] = start[i - 1] + Len(seqs[i])
           /\ \A i \in 1 .. Len(seqs) : \A j \in 1 .. Len(seqs[i]) :
                /\ start[i - 1] + j \in 1 .. Len(FlattenSeq(seqs))
                /\ FlattenSeq(seqs)[start[i - 1] + j] = seqs[i][j]
           /\ \A k \in 1 .. Len(FlattenSeq(seqs)) :
                \E i \in 1 .. Len(seqs) : \E j \in 1 .. Len(seqs[i]) :
                  k = start[i - 1] + j
    BY <1>3, FlattenPlaces
  <2>2. \E start \in [0 .. n -> Nat] :
           /\ \A i \in 1 .. n : start[i] = start[i - 1] + Len(seqs[i])
           /\ \A i \in 1 .. n : \A j \in 1 .. Len(seqs[i]) :
                /\ start[i - 1] + j \in 1 .. Len(Round)
                /\ Round[start[i - 1] + j] = seqs[i][j]
           /\ \A k \in 1 .. Len(Round) :
                \E i \in 1 .. n : \E j \in 1 .. Len(seqs[i]) : k = start[i - 1] + j
    BY <1>3, <1>5, <2>1, Zenon
  <2> QED  BY <2>2, Zenon
<1>10. size \in [1 .. n -> Nat] /\ \A i \in 1 .. n : start[i] = start[i - 1] + size[i]
  BY <1>1, <1>7, <1>9
<1>11. \A j \in 0 .. n : \A i \in 0 .. j : start[i] <= start[j]
  <2> HIDE DEF size
  <2> QED  BY <1>1, <1>10, PlacesGrow
<1> DEFINE at == [t \in 1 .. n |-> start[t - 1]]
<1>12. \A t \in 1 .. n : at[t] = start[t - 1] /\ at[t] \in Nat
  BY <1>1
<1> HIDE DEF at
<1>13. \A t \in Tracks : \A j \in 1 .. Len(seqs[t]) :
         at[t] + j \in 1 .. Len(Round) /\ Round[at[t] + j] = seqs[t][j]
  <2> SUFFICES ASSUME NEW t \in Tracks, NEW j \in 1 .. Len(seqs[t])
               PROVE  at[t] + j \in 1 .. Len(Round) /\ Round[at[t] + j] = seqs[t][j]
    OBVIOUS
  <2>1. t \in 1 .. n
    BY <1>1
  <2>2. start[t - 1] + j \in 1 .. Len(Round) /\ Round[start[t - 1] + j] = seqs[t][j]
    BY <1>9, <2>1
  <2> QED  BY <1>12, <2>1, <2>2
<1>14. \A k \in 1 .. Len(Round) : \E t \in Tracks : \E j \in 1 .. Len(seqs[t]) :
         k = at[t] + j
  <2> SUFFICES ASSUME NEW k \in 1 .. Len(Round)
               PROVE  \E t \in Tracks : \E j \in 1 .. Len(seqs[t]) : k = at[t] + j
    OBVIOUS
  <2>1. PICK t \in 1 .. n : \E j \in 1 .. Len(seqs[t]) : k = start[t - 1] + j
    BY <1>9
  <2>2. PICK j \in 1 .. Len(seqs[t]) : k = start[t - 1] + j
    BY <2>1
  <2>3. k = at[t] + j
    BY <1>12, <2>2
  <2> QED  BY <1>1, <2>3
<1>15. \A t \in Tracks : \A u \in Tracks : u < t => at[u] + Len(seqs[u]) <= at[t]
  <2> SUFFICES ASSUME NEW t \in Tracks, NEW u \in Tracks, u < t
               PROVE  at[u] + Len(seqs[u]) <= at[t]
    OBVIOUS
  <2>1. start[u] = at[u] + Len(seqs[u]) /\ at[t] = start[t - 1]
    BY <1>1, <1>9, <1>12
  <2>2. t - 1 \in 0 .. n /\ u \in 0 .. t - 1
    BY <1>1
  <2> QED  BY <1>11, <2>1, <2>2
<1>16. \A t : TrackRecord(t).track = t /\ StsdRecord(t).track = t /\ Tables(t).track = t
              /\ TrackRecord(t).kind = "trak" /\ StsdRecord(t).kind = "stsd"
              /\ Tables(t).kind = "tables"
  BY RecordsAre
<1>17. \A t \in Tracks : \A j \in 1 .. Len(seqs[t]) :
         /\ seqs[t][j].track = t
         /\ seqs[t][j].kind = "stsd" => j = 2 /\ t \notin written
  BY <1>6, <1>16
<1> DEFINE Trak(k, t) == /\ Round[k] = TrackRecord(t) /\ t \notin written
                         /\ k + 1 \in 1 .. Len(Round) /\ Round[k + 1] = StsdRecord(t)
                         /\ \A u \in Tracks : u < t /\ u \notin written =>
                              \E j \in 1 .. k : Round[j] = TrackRecord(u)
           Stsd(k, t) == /\ Round[k] = StsdRecord(t) /\ t \notin written
                         /\ k - 1 \in 1 .. Len(Round) /\ Round[k - 1] = TrackRecord(t)
                         /\ \A l \in 1 .. Len(Round) :
                              Round[l].kind = "stsd" /\ Round[l].track = t => l = k
           Tabs(k, t) == /\ Round[k] = Tables(t) /\ t \in mux.filled
                         /\ t \notin written =>
                              \E j \in 1 .. k : Round[j] = TrackRecord(t)
<1>18. ASSUME NEW k \in 1 .. Len(Round)
       PROVE  LET t == Round[k].track IN
              t \in Tracks /\ (Trak(k, t) \/ Stsd(k, t) \/ Tabs(k, t))
  <2>1. PICK t \in Tracks : \E j \in 1 .. Len(seqs[t]) : k = at[t] + j
    BY <1>14
  <2>2. PICK j \in 1 .. Len(seqs[t]) : k = at[t] + j
    BY <2>1
  <2>3. Round[k] = seqs[t][j] /\ Round[k].track = t
    BY <1>13, <1>17, <2>2
  <2>4. at[t] \in Nat /\ Len(seqs[t]) \in Nat
    BY <1>1, <1>7, <1>12
  <2>5. t \notin written => /\ 1 \in 1 .. Len(seqs[t]) /\ 2 \in 1 .. Len(seqs[t])
                            /\ Round[at[t] + 1] = TrackRecord(t)
                            /\ Round[at[t] + 2] = StsdRecord(t)
                            /\ at[t] + 1 \in 1 .. Len(Round)
                            /\ at[t] + 2 \in 1 .. Len(Round)
    <3> SUFFICES ASSUME t \notin written
                 PROVE  /\ 1 \in 1 .. Len(seqs[t]) /\ 2 \in 1 .. Len(seqs[t])
                        /\ Round[at[t] + 1] = TrackRecord(t)
                        /\ Round[at[t] + 2] = StsdRecord(t)
                        /\ at[t] + 1 \in 1 .. Len(Round)
                        /\ at[t] + 2 \in 1 .. Len(Round)
      OBVIOUS
    <3>1. 1 \in 1 .. Len(seqs[t]) /\ 2 \in 1 .. Len(seqs[t])
      BY <1>6, <2>4
    <3> QED  BY <1>6, <1>13, <3>1
  <2>6. CASE j = 1 /\ t \notin written /\ seqs[t][j] = TrackRecord(t)
    <3>1. ASSUME NEW u \in Tracks, u < t, u \notin written
          PROVE  \E i \in 1 .. k : Round[i] = TrackRecord(u)
      <4>1. at[u] + Len(seqs[u]) <= at[t] /\ at[u] \in Nat
        BY <1>1, <1>12, <1>15, <3>1
      <4>2. 1 \in 1 .. Len(seqs[u]) /\ seqs[u][1] = TrackRecord(u) /\ Len(seqs[u]) >= 2
        <5>1. Len(seqs[u]) >= 2 /\ Len(seqs[u]) \in Nat /\ seqs[u][1] = TrackRecord(u)
          BY <1>6, <1>7, <3>1
        <5> QED  BY <5>1
      <4>3. Round[at[u] + 1] = TrackRecord(u)
        BY <1>13, <4>2
      <4>4. at[u] + 1 \in 1 .. k
        <5>1. Len(seqs[u]) \in Nat
          BY <1>7
        <5>2. at[u] + 2 <= at[t]
          BY <2>4, <4>1, <4>2, <5>1
        <5>3. k = at[t] + 1
          BY <2>2, <2>6
        <5> QED  BY <2>4, <4>1, <5>2, <5>3
      <4> QED  BY <4>3, <4>4
    <3>2. k + 1 = at[t] + 2
      BY <2>2, <2>4, <2>6
    <3>3. Trak(k, t)
      BY <2>3, <2>5, <2>6, <3>1, <3>2
    <3> QED  BY <2>3, <3>3
  <2>7. CASE j = 2 /\ t \notin written /\ seqs[t][j] = StsdRecord(t)
    <3>1. k - 1 = at[t] + 1
      BY <2>2, <2>4, <2>7
    <3>2. ASSUME NEW l \in 1 .. Len(Round), Round[l].kind = "stsd", Round[l].track = t
          PROVE  l = k
      <4>1. PICK u \in Tracks : \E i \in 1 .. Len(seqs[u]) : l = at[u] + i
        BY <1>14
      <4>2. PICK i \in 1 .. Len(seqs[u]) : l = at[u] + i
        BY <4>1
      <4>3. u = t /\ i = 2
        <5>1. Round[l] = seqs[u][i]
          BY <1>13, <4>2
        <5>2. seqs[u][i].track = u /\ (seqs[u][i].kind = "stsd" => i = 2)
          BY <1>17, <4>2
        <5> QED  BY <3>2, <5>1, <5>2
      <4> QED  BY <2>2, <2>7, <4>2, <4>3
    <3>3. Stsd(k, t)
      BY <2>3, <2>5, <2>7, <3>1, <3>2
    <3> QED  BY <2>3, <3>3
  <2>8. CASE /\ t \in mux.filled /\ seqs[t][j] = Tables(t)
             /\ t \notin written => j = 3
    <3>1. ASSUME t \notin written
          PROVE  \E i \in 1 .. k : Round[i] = TrackRecord(t)
      <4>1. at[t] + 1 \in 1 .. k
        BY <2>2, <2>4, <2>8, <3>1
      <4> QED  BY <2>5, <3>1, <4>1
    <3>2. Tabs(k, t)
      BY <2>3, <2>8, <3>1
    <3> QED  BY <2>3, <3>2
  <2> QED  BY <1>6, <2>6, <2>7, <2>8
<1>19. \A t \in Tracks : t \notin written =>
         \E k \in 1 .. Len(Round) : Round[k] = StsdRecord(t)
  <2> SUFFICES ASSUME NEW t \in Tracks, t \notin written
               PROVE  \E k \in 1 .. Len(Round) : Round[k] = StsdRecord(t)
    OBVIOUS
  <2>1. 2 \in 1 .. Len(seqs[t]) /\ seqs[t][2] = StsdRecord(t)
    BY <1>6, <1>7
  <2> QED  BY <1>13, <2>1
<1>20. \A t \in mux.filled : \/ \E i \in DOMAIN log : log[i] = Tables(t)
                             \/ \E k \in 1 .. Len(Round) : Round[k] = Tables(t)
  <2> SUFFICES ASSUME NEW t \in mux.filled, ~\E i \in DOMAIN log : log[i] = Tables(t)
               PROVE  \E k \in 1 .. Len(Round) : Round[k] = Tables(t)
    OBVIOUS
  <2>1. t \in Tracks
    BY <1>1
  <2>2. Len(seqs[t]) >= 1 /\ seqs[t][Len(seqs[t])] = Tables(t) /\ Len(seqs[t]) \in Nat
    BY <1>6, <1>7, <2>1
  <2>3. Len(seqs[t]) \in 1 .. Len(seqs[t])
    BY <2>2
  <2> QED  BY <1>13, <2>1, <2>2, <2>3
<1> QED  BY <1>8, <1>18, <1>19, <1>20

(* A list and what is appended to it.                                      *)
LEMMA LastIs ==
  ASSUME NEW S, NEW a \in Seq(S), NEW x \in S
  PROVE  /\ a \o <<x>> \in Seq(S) /\ Len(a \o <<x>>) = Len(a) + 1
         /\ (a \o <<x>>)[Len(a) + 1] = x
         /\ \A i \in 1 .. Len(a) : (a \o <<x>>)[i] = a[i]
<1>1. <<x>> \in Seq(S) /\ Len(<<x>>) = 1 /\ <<x>>[1] = x
  OBVIOUS
<1> DEFINE b == <<x>>
<1> HIDE DEF b
<1>2. /\ a \o b \in Seq(S) /\ Len(a \o b) = Len(a) + 1
      /\ (a \o b)[Len(a) + 1] = b[1]
      /\ \A i \in 1 .. Len(a) : (a \o b)[i] = a[i]
  BY <1>1 DEF b
<1> QED  BY <1>1, <1>2 DEF b

(* A sync that fails logs what comes before the failure, and the broken    *)
(* record.                                                                 *)
LEMMA UntilIs ==
  ASSUME NEW s \in Seq(Records)
  PROVE  \E m \in 0 .. Len(s) :
           /\ Until(s) \in Seq(Records) /\ Len(Until(s)) = m
           /\ \A k \in 1 .. m : Until(s)[k] = s[k]
           /\ IF Fails(Until(s))
              THEN m >= 1 /\ ~s[m].whole /\ \A k \in 1 .. m - 1 : s[k].whole
              ELSE m = Len(s) /\ \A k \in 1 .. m : s[k].whole
<1> DEFINE broken == {i \in DOMAIN s : ~s[i].whole}
<1>1. DOMAIN s = 1 .. Len(s) /\ Len(s) \in Nat
  OBVIOUS
<1>2. CASE broken = {}
  <2>1. Until(s) = s
    BY <1>2 DEF Until
  <2>2. ~Fails(s)
    BY <1>2 DEF Fails
  <2>3. Len(s) \in 0 .. Len(s)
    BY <1>1
  <2>4. \A k \in 1 .. Len(s) : s[k].whole
    BY <1>1, <1>2
  <2> QED  BY <1>1, <2>1, <2>2, <2>3, <2>4
<1>3. CASE broken # {}
  <2>1. PICK m \in broken : \A j \in broken : m <= j
    <3>1. broken \in SUBSET Nat
      BY <1>1
    <3> HIDE DEF broken
    <3> QED  BY <1>3, <3>1, LeastNumber
  <2> DEFINE c == CHOOSE i \in broken : \A j \in broken : i <= j
  <2>2. c \in broken /\ \A j \in broken : c <= j
    BY <2>1
  <2>3. Until(s) = SubSeq(s, 1, c)
    BY <1>3 DEF Until
  <2> HIDE DEF c
  <2>4. c \in 1 .. Len(s) /\ ~s[c].whole /\ \A k \in 1 .. c - 1 : s[k].whole
    BY <1>1, <2>2
  <2>5. Until(s) \in Seq(Records) /\ Len(Until(s)) = c
        /\ \A k \in 1 .. c : Until(s)[k] = s[k]
    BY <2>3, <2>4
  <2>6. Fails(Until(s))
    <3>1. c \in DOMAIN Until(s) /\ ~Until(s)[c].whole
      BY <2>4, <2>5
    <3> QED  BY <3>1 DEF Fails
  <2> QED  BY <2>4, <2>5, <2>6
<1> QED  BY <1>2, <1>3

(* What a sync does, in terms of the round of records.                     *)
LEMMA SyncIs ==
  ASSUME Typed, Sync
  PROVE  \E m \in 0 .. Len(Round) : \E failed, thumbs, whole \in BOOLEAN :
           Synced(m, failed, thumbs, whole)
<1> DEFINE records == Until(Round)
           failed == Fails(records)
           thumbs == ~failed /\ cover /\ ~thumb
           entries == {i \in DOMAIN records : records[i].kind = "stsd"}
<1>1. Round \in Seq(Records)
  BY RoundIs
<1>2. PICK m \in 0 .. Len(Round) :
        /\ records \in Seq(Records) /\ Len(records) = m
        /\ \A k \in 1 .. m : records[k] = Round[k]
        /\ IF failed
           THEN m >= 1 /\ ~Round[m].whole /\ \A k \in 1 .. m - 1 : Round[k].whole
           ELSE m = Len(Round) /\ \A k \in 1 .. m : Round[k].whole
  BY <1>1, UntilIs
<1>3. DOMAIN records = 1 .. m /\ m \in Nat
  BY <1>1, <1>2
<1>4. PICK whole \in IF thumbs THEN BOOLEAN ELSE {TRUE} :
        /\ log' = log \o records \o (IF thumbs THEN <<CoverRecord(whole)>> ELSE <<>>)
        /\ spoiled' = (spoiled \/ failed \/ ~whole)
  BY DEF Sync, Round
<1>5. /\ thumb' = (thumb \/ thumbs)
      /\ written' = written \cup {records[i].track : i \in DOMAIN records}
      /\ committed' = IF failed THEN committed ELSE Len(log')
      /\ logged' = [t \in Tracks |-> IF \E i \in entries : records[i].track = t
                                     THEN Append(logged[t], mux.config[t])
                                     ELSE logged[t]]
      /\ acked' = IF failed \/ spoiled THEN acked ELSE acked \cup mux.filled
      /\ UNCHANGED <<phase, types, mux, cover, fileVars>>
  BY DEF Sync, Round
<1>6. failed \in BOOLEAN /\ thumbs \in BOOLEAN /\ whole \in BOOLEAN
  BY <1>4 DEF Fails
<1>7. written' = written \cup {Round[k].track : k \in 1 .. m}
  <2>1. {records[i].track : i \in DOMAIN records} = {Round[k].track : k \in 1 .. m}
    <3> HIDE DEF records
    <3> QED  BY <1>2, <1>3
  <2> QED  BY <1>5, <2>1
<1>8. logged' = [t \in Tracks |->
                  IF \E k \in 1 .. m : Round[k].kind = "stsd" /\ Round[k].track = t
                  THEN Append(logged[t], mux.config[t]) ELSE logged[t]]
  <2>1. \A t : (\E i \in entries : records[i].track = t)
               <=> \E k \in 1 .. m : Round[k].kind = "stsd" /\ Round[k].track = t
    <3> HIDE DEF records
    <3> QED  BY <1>2, <1>3
  <2> QED  BY <1>5, <2>1
<1>9. CoverRecord(whole) \in Records
  <2>1. <<>> \in Bodies
    BY DEF Bodies
  <2> DEFINE b == <<>>
  <2>2. b \in Bodies
    BY <2>1
  <2> HIDE DEF b
  <2>3. [kind |-> "covr", track |-> 0, body |-> b, whole |-> whole] \in Records
    BY <1>6, <2>2 DEF Records
  <2> QED  BY <2>3 DEF b, CoverRecord, Record
<1> HIDE DEF records, failed, entries
<1>10. /\ log' \in Seq(Records)
       /\ Len(log') = Len(log) + m + (IF thumbs THEN 1 ELSE 0)
       /\ \A i \in 1 .. Len(log) : log'[i] = log[i]
       /\ \A k \in 1 .. m : log'[Len(log) + k] = records[k]
       /\ thumbs => log'[Len(log) + m + 1] = CoverRecord(whole)
  <2>1. log \in Seq(Records)
    BY DEF Typed
  <2> DEFINE a == log \o records
             x == CoverRecord(whole)
  <2>2. a \in Seq(Records) /\ Len(a) = Len(log) + m
        /\ (\A i \in 1 .. Len(log) : a[i] = log[i] /\ i \in 1 .. Len(a))
        /\ \A k \in 1 .. m : a[Len(log) + k] = records[k] /\ Len(log) + k \in 1 .. Len(a)
    BY <1>2, <1>3, <2>1
  <2>3. CASE thumbs
    <3>1. log' = a \o <<x>>
      BY <1>4, <2>3
    <3>0. x \in Records
      BY <1>9
    <3> HIDE DEF a, x
    <3>2. log' \in Seq(Records) /\ Len(log') = Len(a) + 1 /\ log'[Len(a) + 1] = x
          /\ \A i \in 1 .. Len(a) : log'[i] = a[i]
      <4>1. a \in Seq(Records)
        BY <2>2
      <4>2. /\ a \o <<x>> \in Seq(Records) /\ Len(a \o <<x>>) = Len(a) + 1
            /\ (a \o <<x>>)[Len(a) + 1] = x
            /\ \A i \in 1 .. Len(a) : (a \o <<x>>)[i] = a[i]
        BY <3>0, <4>1, LastIs
      <4> QED  BY <3>1, <4>2
    <3> QED  BY <2>2, <2>3, <3>2 DEF x
  <2>4. CASE ~thumbs
    <3>1. log' = a \o <<>>
      BY <1>4, <2>4
    <3> HIDE DEF a
    <3>2. log' = a
      BY <2>2, <3>1
    <3> QED  BY <1>3, <2>1, <2>2, <2>4, <3>2
  <2> QED  BY <2>3, <2>4
<1>11. thumbs => ~failed
  OBVIOUS
<1>12. thumb' \in BOOLEAN /\ spoiled' \in BOOLEAN
  BY <1>4, <1>5
<1>13. ~thumbs => whole
  BY <1>4
<1>14. spoiled' <=> spoiled \/ failed \/ ~whole
  BY <1>4
<1> HIDE DEF thumbs
<1>15. \A k \in 1 .. m : log'[Len(log) + k] = Round[k]
  BY <1>2, <1>10
<1>16. Synced(m, failed, thumbs, whole)
  BY <1>2, <1>5, <1>7, <1>8, <1>10, <1>11, <1>12, <1>13, <1>14, <1>15 DEF Synced
<1> QED  BY <1>6, <1>16

(* What the records of a sync are among those of the log.                  *)
LEMMA SyncedIs ==
  ASSUME Typed, LogInv, NEW m \in 0 .. Len(Round), NEW failed \in BOOLEAN,
         NEW thumbs \in BOOLEAN, NEW whole \in BOOLEAN,
         Synced(m, failed, thumbs, whole)
  PROVE  /\ types' = types /\ Tracks' = Tracks /\ DOMAIN log' = 1 .. Len(log')
         /\ Len(log) \in Nat /\ Len(log') \in Nat /\ Len(log) <= Len(log') /\ m \in Nat
         /\ \A i \in DOMAIN log' :
              \/ i \in DOMAIN log
              \/ \E k \in 1 .. m : i = Len(log) + k
              \/ log'[i].kind = "covr" /\ (whole => log'[i].whole)
         /\ \A i \in DOMAIN log : i \in DOMAIN log' /\ log'[i] = log[i]
         /\ \A k \in 1 .. m : /\ Len(log) + k \in DOMAIN log'
                              /\ log'[Len(log) + k] = Round[k] /\ k \in 1 .. Len(Round)
         /\ \A i, kind, t : IsRecord(i, kind, t) => IsIn(log', i, kind, t)
<1>1. /\ types' = types /\ Tracks' = Tracks /\ log' \in Seq(Records) /\ log \in Seq(Records)
      /\ Len(log') = Len(log) + m + (IF thumbs THEN 1 ELSE 0)
  BY DEF Synced, Typed, Tracks
<1>2. /\ \A i \in 1 .. Len(log) : log'[i] = log[i]
      /\ \A k \in 1 .. m : log'[Len(log) + k] = Round[k]
      /\ thumbs => log'[Len(log) + m + 1] = CoverRecord(whole)
  BY DEF Synced
<1>3. Len(Round) \in Nat /\ m \in Nat
  <2>1. Round \in Seq(Records)
    BY RoundIs
  <2> QED  BY <2>1
<1>4. /\ DOMAIN log' = 1 .. Len(log') /\ DOMAIN log = 1 .. Len(log)
      /\ Len(log) \in Nat /\ Len(log') \in Nat /\ Len(log) <= Len(log')
  BY <1>1, <1>3
<1>5. \A i \in DOMAIN log : i \in DOMAIN log' /\ log'[i] = log[i]
  BY <1>2, <1>4
<1>6. \A k \in 1 .. m : /\ Len(log) + k \in DOMAIN log'
                        /\ log'[Len(log) + k] = Round[k] /\ k \in 1 .. Len(Round)
  BY <1>1, <1>2, <1>3, <1>4
<1>7. ASSUME NEW i \in DOMAIN log'
      PROVE  \/ i \in DOMAIN log
             \/ \E k \in 1 .. m : i = Len(log) + k
             \/ log'[i].kind = "covr" /\ (whole => log'[i].whole)
  <2>0. i \in Int
    BY <1>4
  <2>1. CASE i <= Len(log)
    BY <1>4, <2>1
  <2>2. CASE i > Len(log) /\ i <= Len(log) + m
    <3>1. i - Len(log) \in 1 .. m /\ i = Len(log) + (i - Len(log))
      BY <1>3, <1>4, <2>2
    <3> QED  BY <3>1
  <2>3. CASE i > Len(log) + m
    <3>1. thumbs /\ i = Len(log) + m + 1
      BY <1>1, <1>3, <1>4, <2>3
    <3>2. log'[i] = CoverRecord(whole)
      BY <1>2, <3>1
    <3> QED  BY <3>2 DEF CoverRecord, Record
  <2>4. i <= Len(log) \/ (i > Len(log) /\ i <= Len(log) + m) \/ i > Len(log) + m
    BY <1>3, <1>4, <2>0
  <2> QED  BY <2>1, <2>2, <2>3, <2>4
<1>8. \A i, kind, t : IsRecord(i, kind, t) => IsIn(log', i, kind, t)
  BY <1>5 DEF IsRecord, IsIn
<1> QED  BY <1>1, <1>3, <1>4, <1>5, <1>6, <1>7, <1>8

(* The records that a sync logs: a track with its config right behind.     *)
LEMMA LoggedRoundIs ==
  ASSUME Typed, LogInv, NEW m \in 0 .. Len(Round), NEW failed \in BOOLEAN,
         NEW thumbs \in BOOLEAN, NEW whole \in BOOLEAN,
         Synced(m, failed, thumbs, whole), NEW k \in 1 .. m
  PROVE  LET t == Round[k].track IN
         /\ t \in Tracks
         /\ \/ /\ Round[k] = TrackRecord(t)
               /\ k + 1 \in 1 .. m /\ Round[k + 1] = StsdRecord(t)
               /\ \A u \in Tracks : u < t /\ u \notin written =>
                    \E j \in 1 .. k : Round[j] = TrackRecord(u)
            \/ /\ Round[k] = StsdRecord(t)
               /\ k - 1 \in 1 .. m /\ Round[k - 1] = TrackRecord(t)
               /\ \A l \in 1 .. m :
                    Round[l].kind = "stsd" /\ Round[l].track = t => l = k
            \/ /\ Round[k] = Tables(t)
               /\ t \notin written => \E j \in 1 .. k : Round[j] = TrackRecord(t)
<1> DEFINE t == Round[k].track
           n == Len(Round)
<1>1. Round \in Seq(Records)
  BY RoundIs
<1>2. n \in Nat /\ k \in 1 .. n /\ m \in Nat /\ m <= n
  BY <1>1
<1>3. /\ t \in Tracks
      /\ \/ /\ Round[k] = TrackRecord(t) /\ t \notin written
            /\ k + 1 \in 1 .. n /\ Round[k + 1] = StsdRecord(t)
            /\ \A u \in Tracks : u < t /\ u \notin written =>
                 \E j \in 1 .. k : Round[j] = TrackRecord(u)
         \/ /\ Round[k] = StsdRecord(t) /\ t \notin written
            /\ k - 1 \in 1 .. n /\ Round[k - 1] = TrackRecord(t)
            /\ \A l \in 1 .. n :
                 Round[l].kind = "stsd" /\ Round[l].track = t => l = k
         \/ /\ Round[k] = Tables(t) /\ t \in mux.filled
            /\ t \notin written => \E j \in 1 .. k : Round[j] = TrackRecord(t)
  BY <1>2, RoundIs
<1> HIDE DEF t, n
<1>4. TrackRecord(t).whole
  BY RecordsAre
<1>5. CASE Round[k] = TrackRecord(t)
  <2>1. /\ k + 1 \in 1 .. n /\ Round[k + 1] = StsdRecord(t)
        /\ \A u \in Tracks : u < t /\ u \notin written =>
             \E j \in 1 .. k : Round[j] = TrackRecord(u)
    BY <1>3, <1>5, RecordsAre
  <2>2. k # m \/ m = n
    BY <1>4, <1>5 DEF Synced, n
  <2>3. k + 1 \in 1 .. m
    BY <1>2, <2>1, <2>2
  <2> QED  BY <1>3, <1>5, <2>1, <2>3 DEF t
<1>6. CASE Round[k] = StsdRecord(t)
  <2>1. /\ k - 1 \in 1 .. n /\ Round[k - 1] = TrackRecord(t)
        /\ \A l \in 1 .. n :
             Round[l].kind = "stsd" /\ Round[l].track = t => l = k
    BY <1>3, <1>6, RecordsAre
  <2>2. k - 1 \in 1 .. m /\ \A l \in 1 .. m : l \in 1 .. n
    BY <1>2, <2>1
  <2> QED  BY <1>3, <1>6, <2>1, <2>2 DEF t
<1>7. CASE Round[k] = Tables(t)
  <2>1. t \notin written => \E j \in 1 .. k : Round[j] = TrackRecord(t)
    BY <1>3, <1>7, RecordsAre
  <2> QED  BY <1>3, <1>7, <2>1 DEF t
<1> QED  BY <1>3, <1>5, <1>6, <1>7 DEF t

(* The configs that were logged.                                           *)
LEMMA SyncedConfigs ==
  ASSUME Typed, LogInv, NEW m \in 0 .. Len(Round), NEW failed \in BOOLEAN,
         NEW thumbs \in BOOLEAN, NEW whole \in BOOLEAN,
         Synced(m, failed, thumbs, whole), NEW t \in Tracks
  PROVE  /\ DOMAIN logged' = Tracks /\ logged'[t] \in Seq(States)
         /\ Len(logged[t]) \in Nat /\ DOMAIN logged[t] = 1 .. Len(logged[t])
         /\ \A k \in DOMAIN logged[t] :
              k \in DOMAIN logged'[t] /\ logged'[t][k] = logged[t][k]
         /\ \A k \in DOMAIN logged'[t] : logged'[t][k] \in StatesOf(types[t])
         /\ IF \E k \in 1 .. m : Round[k].kind = "stsd" /\ Round[k].track = t
            THEN /\ Len(logged'[t]) \in DOMAIN logged'[t]
                 /\ logged'[t][Len(logged'[t])] = mux.config[t]
            ELSE logged'[t] = logged[t]
<1> DEFINE a == logged[t]
           b == logged'[t]
           c == mux.config[t]
           more == \E k \in 1 .. m : Round[k].kind = "stsd" /\ Round[k].track = t
<1>1. DOMAIN logged' = Tracks /\ b = IF more THEN Append(a, c) ELSE a
  BY DEF Synced
<1>2. c \in StatesOf(types[t]) /\ c \in States
  BY DEF Typed, MuxTyped
<1>3. a \in Seq(States) /\ \A k \in DOMAIN a : a[k] \in StatesOf(types[t])
  BY DEF LogInv, Typed
<1> HIDE DEF a, b, c, more
<1>4. CASE more
  <2>1. b = Append(a, c)
    BY <1>1, <1>4
  <2>2. /\ b \in Seq(States) /\ Len(b) = Len(a) + 1 /\ Len(a) \in Nat
        /\ DOMAIN b = 1 .. Len(a) + 1 /\ DOMAIN a = 1 .. Len(a) /\ b[Len(a) + 1] = c
        /\ \A k \in DOMAIN a : b[k] = a[k]
    BY <1>2, <1>3, <2>1
  <2>3. \A k \in DOMAIN b : k \in DOMAIN a \/ k = Len(a) + 1
    BY <2>2
  <2>4. \A k \in DOMAIN b : b[k] \in StatesOf(types[t])
    BY <1>2, <1>3, <2>2, <2>3
  <2>5. Len(b) \in DOMAIN b /\ b[Len(b)] = c /\ \A k \in DOMAIN a : k \in DOMAIN b
    BY <2>2
  <2> QED  BY <1>1, <1>4, <2>2, <2>4, <2>5 DEF a, b, c, more
<1>5. CASE ~more
  <2>1. b = a
    BY <1>1, <1>5
  <2>2. Len(a) \in Nat /\ DOMAIN a = 1 .. Len(a)
    BY <1>3
  <2> QED  BY <1>1, <1>3, <1>5, <2>1, <2>2 DEF a, b, c, more
<1> QED  BY <1>4, <1>5

(* Behind a sync every record of the log is one that a sync writes.        *)
LEMMA SyncedRecordsOk ==
  ASSUME Typed, LogInv, NEW m \in 0 .. Len(Round), NEW failed \in BOOLEAN,
         NEW thumbs \in BOOLEAN, NEW whole \in BOOLEAN,
         Synced(m, failed, thumbs, whole), NEW i \in DOMAIN log'
  PROVE  RecordOk(i)'
<1>1. /\ types' = types /\ Tracks' = Tracks /\ DOMAIN log' = 1 .. Len(log')
      /\ Len(log) \in Nat /\ Len(log') \in Nat /\ Len(log) <= Len(log') /\ m \in Nat
      /\ \A j \in DOMAIN log : j \in DOMAIN log' /\ log'[j] = log[j]
      /\ \A k \in 1 .. m : /\ Len(log) + k \in DOMAIN log'
                           /\ log'[Len(log) + k] = Round[k] /\ k \in 1 .. Len(Round)
  BY SyncedIs
<1>2. \A j, kind, t : IsRecord(j, kind, t) => IsIn(log', j, kind, t)
  BY SyncedIs
<1>3. \A t \in Tracks : \A k \in DOMAIN logged[t] :
        k \in DOMAIN logged'[t] /\ logged'[t][k] = logged[t][k]
  BY SyncedConfigs
<1>4. \A t : /\ TrackRecord(t).track = t /\ StsdRecord(t).track = t /\ Tables(t).track = t
             /\ TrackRecord(t).kind = "trak" /\ StsdRecord(t).kind = "stsd"
             /\ Tables(t).kind = "tables"
  BY RecordsAre
<1>5. ASSUME NEW k \in 1 .. m, NEW kind, NEW t, Round[k].kind = kind, Round[k].track = t
      PROVE  IsIn(log', Len(log) + k, kind, t)
  BY <1>1, <1>5 DEF IsRecord, IsIn
<1>6. CASE i \in DOMAIN log
  <2>1. log'[i] = log[i] /\ RecordOk(i)
    BY <1>1, <1>6 DEF LogInv
  <2> QED  BY <1>1, <1>2, <1>3, <2>1 DEF RecordOk, IsRecord
<1>7. CASE \E k \in 1 .. m : i = Len(log) + k
  <2>1. PICK k \in 1 .. m : i = Len(log) + k
    BY <1>7
  <2> DEFINE t == Round[k].track
  <2>2. /\ t \in Tracks
        /\ \/ /\ Round[k] = TrackRecord(t)
              /\ k + 1 \in 1 .. m /\ Round[k + 1] = StsdRecord(t)
              /\ \A u \in Tracks : u < t /\ u \notin written =>
                   \E j \in 1 .. k : Round[j] = TrackRecord(u)
           \/ /\ Round[k] = StsdRecord(t)
              /\ k - 1 \in 1 .. m /\ Round[k - 1] = TrackRecord(t)
              /\ \A l \in 1 .. m :
                   Round[l].kind = "stsd" /\ Round[l].track = t => l = k
           \/ /\ Round[k] = Tables(t)
              /\ t \notin written => \E j \in 1 .. k : Round[j] = TrackRecord(t)
    BY LoggedRoundIs
  <2>3. log'[i] = Round[k] /\ log'[i].track = t
    BY <1>1, <2>1
  <2> HIDE DEF t
  <2>4. ASSUME NEW u \in Tracks,
               u \in written \/ \E j \in 1 .. k : Round[j] = TrackRecord(u)
        PROVE  \E j \in 1 .. i : IsIn(log', j, "trak", u)
    <3>1. CASE u \in written
      <4>1. PICK j \in DOMAIN log : IsRecord(j, "trak", u)
        BY <3>1 DEF LogInv
      <4>2. DOMAIN log = 1 .. Len(log)
        BY DEF Typed
      <4>3. j \in 1 .. i
        BY <1>1, <2>1, <4>2
      <4> QED  BY <1>2, <4>1, <4>3
    <3>2. CASE \E j \in 1 .. k : Round[j] = TrackRecord(u)
      <4>1. PICK j \in 1 .. k : Round[j] = TrackRecord(u)
        BY <3>2
      <4>2. j \in 1 .. m /\ Len(log) + j \in 1 .. i
        BY <1>1, <2>1
      <4>3. IsIn(log', Len(log) + j, "trak", u)
        BY <1>4, <1>5, <4>1, <4>2
      <4> QED  BY <4>2, <4>3
    <3> QED  BY <2>4, <3>1, <3>2
  <2>5. CASE Round[k] = TrackRecord(t)
    <3>1. /\ k + 1 \in 1 .. m /\ Round[k + 1] = StsdRecord(t)
          /\ \A u \in Tracks : u < t /\ u \notin written =>
               \E j \in 1 .. k : Round[j] = TrackRecord(u)
      BY <2>2, <2>5, <1>4
    <3>2. IsIn(log', i + 1, "stsd", t)
      <4>1. IsIn(log', Len(log) + (k + 1), "stsd", t)
        BY <1>4, <1>5, <3>1
      <4>2. Len(log) + (k + 1) = i + 1
        BY <1>1, <2>1
      <4> QED  BY <4>1, <4>2
    <3>3. \A u \in Tracks : u < t => \E j \in 1 .. i : IsIn(log', j, "trak", u)
      BY <2>4, <3>1
    <3>4. /\ log'[i].kind = "trak" /\ log'[i].whole
          /\ log'[i].body = <<types[t], t \in mux.refs>>
      BY <2>3, <2>5, RecordsAre
    <3>5. log'[i].body[1] = types'[t] /\ log'[i].body[2] \in BOOLEAN
      BY <1>1, <3>4
    <3> QED  BY <1>1, <2>2, <2>3, <3>2, <3>3, <3>4, <3>5 DEF RecordOk, IsRecord
  <2>6. CASE Round[k] = StsdRecord(t)
    <3>1. k - 1 \in 1 .. m /\ Round[k - 1] = TrackRecord(t)
      BY <2>2, <2>6, <1>4
    <3>2. IsIn(log', i - 1, "trak", t)
      <4>1. IsIn(log', Len(log) + (k - 1), "trak", t)
        BY <1>4, <1>5, <3>1
      <4>2. Len(log) + (k - 1) = i - 1
        BY <1>1, <2>1
      <4> QED  BY <4>1, <4>2
    <3>3. /\ log'[i].kind = "stsd" /\ log'[i].body = Logged(types[t], mux.config[t])
          /\ log'[i].whole <=> ~Unloggable(t)
      BY <2>3, <2>6, StsdIs
    <3>4. Len(logged'[t]) \in DOMAIN logged'[t] /\ logged'[t][Len(logged'[t])] = mux.config[t]
      <4>1. Round[k].kind = "stsd" /\ Round[k].track = t
        BY <1>4, <2>6
      <4> QED  BY <2>2, <4>1, SyncedConfigs
    <3>5. log'[i].whole => Loggable(types[t], mux.config[t])
      BY <3>3 DEF Loggable, Unloggable
    <3>6. \E n \in DOMAIN logged'[t] :
            /\ log'[i].body = Logged(types[t], logged'[t][n])
            /\ log'[i].whole => Loggable(types[t], logged'[t][n])
      BY <3>3, <3>4, <3>5
    <3> QED  BY <1>1, <2>2, <2>3, <3>2, <3>3, <3>6 DEF RecordOk, IsRecord
  <2>7. CASE Round[k] = Tables(t)
    <3>1. t \notin written => \E j \in 1 .. k : Round[j] = TrackRecord(t)
      BY <2>2, <2>7, <1>4
    <3>2. \E j \in 1 .. i : IsIn(log', j, "trak", t)
      BY <2>2, <2>4, <3>1
    <3>3. log'[i].kind = "tables" /\ log'[i].whole
      BY <2>3, <2>7, RecordsAre
    <3> QED  BY <1>1, <2>2, <2>3, <3>2, <3>3 DEF RecordOk, IsRecord
  <2> QED  BY <2>2, <2>5, <2>6, <2>7
<1>8. CASE log'[i].kind = "covr"
  BY <1>8 DEF RecordOk
<1> QED  BY <1>6, <1>7, <1>8, SyncedIs

(* Behind a sync the last record of a track has its last config.           *)
LEMMA SyncedLastLogged ==
  ASSUME Typed, LogInv, NEW m \in 0 .. Len(Round), NEW failed \in BOOLEAN,
         NEW thumbs \in BOOLEAN, NEW whole \in BOOLEAN,
         Synced(m, failed, thumbs, whole), NEW t \in Tracks, logged'[t] # <<>>
  PROVE  LastLogged(t)'
<1>1. /\ types' = types /\ DOMAIN log' = 1 .. Len(log')
      /\ Len(log) \in Nat /\ Len(log') \in Nat /\ Len(log) <= Len(log') /\ m \in Nat
      /\ \A i \in DOMAIN log' :
           \/ i \in DOMAIN log
           \/ \E k \in 1 .. m : i = Len(log) + k
           \/ log'[i].kind = "covr" /\ (whole => log'[i].whole)
      /\ \A j \in DOMAIN log : j \in DOMAIN log' /\ log'[j] = log[j]
      /\ \A k \in 1 .. m : /\ Len(log) + k \in DOMAIN log'
                           /\ log'[Len(log) + k] = Round[k] /\ k \in 1 .. Len(Round)
  BY SyncedIs
<1>2. DOMAIN log = 1 .. Len(log)
  BY DEF Typed
<1>4. CASE \E k \in 1 .. m : Round[k].kind = "stsd" /\ Round[k].track = t
  <2>1. PICK k \in 1 .. m : Round[k].kind = "stsd" /\ Round[k].track = t
    BY <1>4
  <2>2. /\ Round[k] = StsdRecord(t)
        /\ \A l \in 1 .. m : Round[l].kind = "stsd" /\ Round[l].track = t => l = k
    <3>1. TrackRecord(t).kind # "stsd" /\ Tables(t).kind # "stsd"
      BY RecordsAre
    <3> QED  BY <2>1, <3>1, LoggedRoundIs
  <2>3. PICK i \in DOMAIN log' :
          i = Len(log) + k /\ log'[i] = StsdRecord(t) /\ i > Len(log)
    BY <1>1, <2>2
  <2>4. logged'[t][Len(logged'[t])] = mux.config[t]
    BY <1>4, SyncedConfigs
  <2>5. /\ log'[i].kind = "stsd" /\ log'[i].track = t
        /\ log'[i].body = Logged(types[t], mux.config[t])
        /\ log'[i].whole => Loggable(types[t], mux.config[t])
    BY <2>3, StsdIs DEF Loggable, Unloggable
  <2>6. ASSUME NEW j \in DOMAIN log', j > i PROVE ~IsIn(log', j, "stsd", t)
    <3>1. CASE \E l \in 1 .. m : j = Len(log) + l
      <4>1. PICK l \in 1 .. m : j = Len(log) + l
        BY <3>1
      <4>2. l # k
        <5>1. Len(log) + l # Len(log) + k
          BY <2>3, <2>6, <4>1
        <5> QED  BY <5>1
      <4> QED  BY <1>1, <2>2, <4>1, <4>2 DEF IsRecord, IsIn
    <3>2. CASE log'[j].kind = "covr"
      BY <3>2 DEF IsRecord, IsIn
    <3>3. j \notin DOMAIN log
      BY <1>1, <1>2, <2>3, <2>6
    <3> QED  BY <1>1, <3>1, <3>2, <3>3
  <2>7. IsIn(log', i, "stsd", t)
    BY <2>3, <2>5 DEF IsRecord, IsIn
  <2> QED  BY <1>1, <2>3, <2>4, <2>5, <2>6, <2>7 DEF LastLogged, IsRecord
<1>5. CASE ~\E k \in 1 .. m : Round[k].kind = "stsd" /\ Round[k].track = t
  <2>1. logged'[t] = logged[t]
    BY <1>5, SyncedConfigs
  <2>2. LastLogged(t)
    BY <2>1 DEF LogInv
  <2>3. PICK i \in DOMAIN log :
          /\ IsRecord(i, "stsd", t)
          /\ log[i].body = Logged(types[t], logged[t][Len(logged[t])])
          /\ log[i].whole => Loggable(types[t], logged[t][Len(logged[t])])
          /\ \A j \in DOMAIN log : j > i => ~IsRecord(j, "stsd", t)
    BY <2>2 DEF LastLogged
  <2>4. ASSUME NEW j \in DOMAIN log', j > i PROVE ~IsIn(log', j, "stsd", t)
    <3>1. CASE j \in DOMAIN log
      BY <1>1, <2>3, <2>4, <3>1 DEF IsRecord, IsIn
    <3>2. CASE \E l \in 1 .. m : j = Len(log) + l
      <4>1. PICK l \in 1 .. m : j = Len(log) + l
        BY <3>2
      <4>2. log'[j] = Round[l]
        BY <1>1, <4>1
      <4> QED  BY <1>5, <4>2 DEF IsIn
    <3>3. CASE log'[j].kind = "covr"
      BY <3>3 DEF IsRecord, IsIn
    <3> QED  BY <1>1, <3>1, <3>2, <3>3
  <2>5. i \in DOMAIN log' /\ log'[i] = log[i] /\ IsIn(log', i, "stsd", t)
    BY <1>1, <2>3 DEF IsRecord, IsIn
  <2> QED  BY <1>1, <2>1, <2>3, <2>4, <2>5 DEF LastLogged, IsRecord
<1> QED  BY <1>4, <1>5

-----------------------------------------------------------------------------
(* The steps that leave the log alone.                                     *)

(* What Inv says while something is recorded.                              *)
LEMMA RecordingIs ==
  ASSUME Inv, phase = "recording"
  PROVE  /\ Typed /\ LogInv /\ ~recovered
         /\ made = 0 /\ file = NoTracks /\ shown = NoTracks
BY DEF Inv, StageInv

(* A file that is not made has no tracks.                                  *)
LEMMA NoTracksEmpty == DOMAIN NoTracks = {}
BY DEF NoTracks

(* What leaves the log alone keeps what is known of it.                    *)
LEMMA LogKept ==
  ASSUME LogInv, written' \subseteq written,
         UNCHANGED <<types, log, committed, logged, acked, spoiled>>
  PROVE  LogInv'
<1>1. Tracks' = Tracks
  BY DEF Tracks
<1>2. \A i \in DOMAIN log : RecordOk(i)'
  <2> SUFFICES ASSUME NEW i \in DOMAIN log PROVE RecordOk(i)'
    OBVIOUS
  <2>1. RecordOk(i)
    BY DEF LogInv
  <2> QED  BY <1>1, <2>1 DEF RecordOk, IsRecord, IsIn
<1>3. \A t \in Tracks : LastLogged(t) => LastLogged(t)'
  BY DEF LastLogged, IsRecord, IsIn
<1>4. \A t \in acked : AckedWhole(t)'
  BY DEF LogInv, AckedWhole, IsRecord, IsIn
<1>5. \A t \in written : \E i \in DOMAIN log : IsRecord(i, "trak", t)'
  BY DEF LogInv, IsRecord, IsIn
<1> QED  BY <1>1, <1>2, <1>3, <1>4, <1>5 DEF LogInv

(* A call that only changes the muxer.                                     *)
LEMMA CallKeeps ==
  ASSUME Inv, phase = "recording", MuxTyped', written' \subseteq written,
         cover' \in BOOLEAN, thumb' \in BOOLEAN,
         UNCHANGED <<phase, types, log, committed, logged, acked, spoiled, fileVars>>
  PROVE  Inv'
<1>1. /\ Typed /\ LogInv /\ ~recovered
      /\ made = 0 /\ file = NoTracks /\ shown = NoTracks
  BY RecordingIs
<1>2. UNCHANGED <<recovered, file, shown, made>>
  BY DEF fileVars
<1>3. LogInv'
  BY <1>1, LogKept
<1>4. Typed'
  BY <1>1, <1>2 DEF Typed, Tracks
<1>5. StageInv'
  BY <1>1, <1>2, NoTracksEmpty DEF StageInv
<1> QED  BY <1>1, <1>2, <1>3, <1>4, <1>5 DEF Inv

(* A new config for a track.                                               *)
LEMMA SetKeeps ==
  ASSUME Inv, Call, NEW t \in Tracks, NEW c \in StatesOf(types[t]), Set(t, c)
  PROVE  Inv'
<1>1. phase = "recording" /\ Typed
  BY RecordingIs DEF Call
<1>2. mux' = [mux EXCEPT !.config[t] = c]
  BY DEF Set
<1>3. UNCHANGED <<phase, types, cover, logVars, fileVars>>
  BY DEF Set
<1>4. Tracks' = Tracks /\ types' = types
  BY <1>3 DEF Tracks
<1>5. types[t] \in Types
  BY <1>1 DEF Typed, Tracks
<1>6. c \in States
  BY <1>5, StatesByType
<1>7. MuxTyped'
  <2>1. mux \in [config : [Tracks -> States], filled : SUBSET Tracks,
                 refs : SUBSET Tracks]
    BY <1>1 DEF Typed, MuxTyped
  <2>2. \A u \in Tracks : mux.config[u] \in StatesOf(types[u])
    BY <1>1 DEF Typed, MuxTyped
  <2>3. mux' \in [config : [Tracks -> States], filled : SUBSET Tracks,
                  refs : SUBSET Tracks]
    BY <1>2, <1>6, <2>1
  <2>4. \A u \in Tracks : mux'.config[u] = IF u = t THEN c ELSE mux.config[u]
    BY <1>2, <2>1
  <2> QED  BY <1>4, <2>2, <2>3, <2>4 DEF MuxTyped
<1>8. cover' \in BOOLEAN /\ thumb' \in BOOLEAN /\ written' \subseteq written
  BY <1>1, <1>3 DEF Typed, logVars
<1>9. UNCHANGED <<phase, types, log, committed, logged, acked, spoiled, fileVars>>
  BY <1>3 DEF logVars
<1> QED  BY <1>1, <1>7, <1>8, <1>9, CallKeeps

(* A config that the caller sets is one that a track can have.             *)
LEMMA VideoConfigIs ==
  ASSUME NEW c \in VideoConfigs
  PROVE  /\ c \in VideoStates /\ c.codec \in {"AVC", "HEVC"}
         /\ c.codec = "AVC" => c.info = NoInfo /\ c.vps = NoSet
         /\ c.codec = "HEVC" => c.info \in Infos
<1>1. c \in [codec : {"AVC"}, vps : {NoSet}, sps : Sets, pps : Sets, info : {NoInfo},
             width : Nat, height : Nat]
      \/ c \in [codec : {"HEVC"}, vps : Sets, sps : Sets, pps : Sets, info : Infos,
                width : Nat, height : Nat]
  BY DecoderAssumption
<1> QED  BY <1>1, SetsAre DEF VideoStates

(* A video config, refused or not.                                         *)
LEMMA SetVideoInv ==
  ASSUME Inv, NEW t \in Tracks, NEW c \in VideoConfigs, SetVideo(t, c)
  PROVE  Inv'
<1> DEFINE old == mux.config[t]
           new == IF Refused(c) THEN Resized(old, c) ELSE c
<1>1. phase = "recording" /\ Typed /\ Call /\ types[t] = "video" /\ Set(t, new)
      /\ old.codec \in {"UNKNOWN", c.codec}
  BY RecordingIs DEF SetVideo, Call
<1>2. old \in VideoStates
  BY <1>1, StatesByType DEF Typed, MuxTyped
<1>3. new \in VideoStates
  <2>1. CASE ~Refused(c)
    BY <2>1, VideoConfigIs
  <2>2. CASE Refused(c)
    <3> DEFINE info == IF c.codec = "HEVC" /\ old.info = NoInfo THEN ZeroInfo
                       ELSE old.info
    <3>1. ZeroInfo \in Infos
      BY DEF ZeroInfo, Infos, Octets
    <3>2. /\ c.codec \in {"AVC", "HEVC"} /\ c.width \in Nat /\ c.height \in Nat
          /\ (c.codec # "HEVC" => c.vps = NoSet)
      BY VideoConfigIs DEF VideoStates
    <3>3. /\ old \in [codec : {"UNKNOWN", "AVC", "HEVC"}, vps : Sets, sps : Sets,
                      pps : Sets, info : Infos \cup {NoInfo}, width : Nat, height : Nat]
          /\ (old.codec = "HEVC" => old.info \in Infos)
          /\ (old.codec # "HEVC" => old.vps = NoSet)
      BY <1>2 DEF VideoStates
    <3>4. Resized(old, c) = [old EXCEPT !.codec = c.codec, !.width = c.width,
                                        !.height = c.height, !.info = info]
      BY DEF Resized
    <3>5. info \in Infos \cup {NoInfo} /\ (c.codec = "HEVC" => info \in Infos)
      BY <3>1, <3>3
    <3> HIDE DEF old, info
    <3>6. Resized(old, c) = [codec |-> c.codec, vps |-> old.vps, sps |-> old.sps,
                             pps |-> old.pps, info |-> info, width |-> c.width,
                             height |-> c.height]
      BY <3>3, <3>4
    <3>7. c.codec # "HEVC" => old.vps = NoSet
      BY <1>1, <3>2, <3>3 DEF old
    <3>8. Resized(old, c) \in VideoStates
      BY <3>2, <3>3, <3>5, <3>6, <3>7 DEF VideoStates
    <3> QED  BY <2>2, <3>8
  <2> QED  BY <2>1, <2>2
<1>4. new \in StatesOf(types[t])
  BY <1>1, <1>3, StatesByType
<1> HIDE DEF new
<1> QED  BY <1>1, <1>4, SetKeeps

(* An audio config, with any rate that the conversion may give.            *)
LEMMA SetAudioInv ==
  ASSUME Inv, NEW t \in Tracks, NEW c \in AudioConfigs, SetAudio(t, c)
  PROVE  Inv'
<1>1. c \in [asc : Sets, channels : Nat, size : Nat, rate : Nat]
  BY DecoderAssumption
<1>2. PICK rate \in Stored(c.rate) :
        Set(t, [codec |-> "AAC_LC", asc |-> c.asc, channels |-> c.channels,
                size |-> c.size, rate |-> rate])
  BY DEF SetAudio
<1>3. rate \in Nat
  BY <1>1 DEF Stored
<1> DEFINE new == [codec |-> "AAC_LC", asc |-> c.asc, channels |-> c.channels,
                   size |-> c.size, rate |-> rate]
<1>4. Call /\ types[t] = "audio"
  BY DEF SetAudio
<1>5. new \in StatesOf(types[t])
  BY <1>1, <1>3, <1>4, StatesByType DEF AudioStates
<1> HIDE DEF new
<1> QED  BY <1>2, <1>4, <1>5, SetKeeps DEF new

(* The type of timed metadata.                                             *)
LEMMA SetMimeInv ==
  ASSUME Inv, NEW t \in Tracks, NEW c \in MimeTypes, SetMime(t, c)
  PROVE  Inv'
<1>1. Call /\ types[t] = "metadata" /\ Set(t, c)
  BY DEF SetMime
<1>2. c \in StatesOf(types[t])
  BY <1>1, DecoderAssumption, StatesByType DEF MimeStates
<1> QED  BY <1>1, <1>2, SetKeeps

(* A cover.                                                                *)
LEMMA SetCoverInv == ASSUME Inv, SetCover PROVE Inv'
<1>1. phase = "recording" /\ Typed
  BY RecordingIs DEF SetCover, Call
<1>2. MuxTyped'
  BY <1>1 DEF Typed, MuxTyped, Tracks, SetCover
<1> QED  BY <1>1, <1>2, CallKeeps DEF SetCover

(* The tracks with samples, or those that refer to the video, are more.    *)
LEMMA MarkedTyped ==
  ASSUME MuxTyped, UNCHANGED types, NEW filled \in SUBSET Tracks, NEW refs \in SUBSET Tracks,
         mux' = [config |-> mux.config, filled |-> filled, refs |-> refs]
  PROVE  MuxTyped'
BY DEF MuxTyped, Tracks

(* A reference, for which the track is to be logged again.                 *)
LEMMA AddRefInv == ASSUME Inv, NEW t \in Tracks, AddRef(t) PROVE Inv'
<1>1. phase = "recording" /\ Typed
  BY RecordingIs DEF AddRef, Call
<1>2. MuxTyped /\ mux \in [config : [Tracks -> States], filled : SUBSET Tracks,
                           refs : SUBSET Tracks]
  BY <1>1 DEF Typed, MuxTyped
<1>3. mux' = [mux EXCEPT !.refs = @ \cup {t}]
  BY DEF AddRef
<1>4. mux' = [config |-> mux.config, filled |-> mux.filled, refs |-> mux.refs \cup {t}]
  BY <1>2, <1>3
<1>5. mux.filled \in SUBSET Tracks /\ mux.refs \cup {t} \in SUBSET Tracks
  BY <1>2
<1>6. UNCHANGED <<phase, types, cover, thumb, log, committed, syncs, logged, acked,
                  spoiled, fileVars>> /\ written' \subseteq written
  BY DEF AddRef
<1>7. MuxTyped'
  BY <1>2, <1>4, <1>5, <1>6, MarkedTyped
<1> QED  BY <1>1, <1>6, <1>7, CallKeeps DEF Typed

(* The first sample of a track.                                            *)
LEMMA AddSampleInv == ASSUME Inv, NEW t \in Tracks, AddSample(t) PROVE Inv'
<1>1. phase = "recording" /\ Typed
  BY RecordingIs DEF AddSample
<1>2. MuxTyped /\ mux \in [config : [Tracks -> States], filled : SUBSET Tracks,
                           refs : SUBSET Tracks]
  BY <1>1 DEF Typed, MuxTyped
<1>3. mux' = [mux EXCEPT !.filled = @ \cup {t}]
  BY DEF AddSample
<1>4. mux' = [config |-> mux.config, filled |-> mux.filled \cup {t}, refs |-> mux.refs]
  BY <1>2, <1>3
<1>5. mux.filled \cup {t} \in SUBSET Tracks /\ mux.refs \in SUBSET Tracks
  BY <1>2
<1>6. UNCHANGED <<phase, types, cover, thumb, log, committed, written, logged, acked,
                  spoiled, fileVars>>
  BY DEF AddSample, logVars
<1>7. MuxTyped'
  BY <1>2, <1>4, <1>5, <1>6, MarkedTyped
<1> QED  BY <1>1, <1>6, <1>7, CallKeeps DEF Typed

(* The muxer before the first call.                                        *)
LEMMA InitInv == Init => Inv
<1> SUFFICES ASSUME Init PROVE Inv
  OBVIOUS
<1>1. types \in Seq(Types)
  BY TrackConfigAssumption DEF Init, Types
<1>2. /\ phase = "recording" /\ mux = NewMux(types) /\ cover = FALSE /\ written = {}
      /\ thumb = FALSE /\ log = <<>> /\ committed = 0 /\ recovered = FALSE
      /\ file = NoTracks /\ shown = NoTracks /\ made = 0
      /\ logged = [t \in Tracks |-> <<>>] /\ acked = {} /\ spoiled = FALSE
  BY DEF Init
<1>3. MuxTyped
  <2>1. mux = [config |-> [t \in Tracks |-> UnsetOf(types[t])], filled |-> {}, refs |-> {}]
    BY <1>2 DEF NewMux, Tracks
  <2>2. \A t \in Tracks : types[t] \in Types
    BY <1>1 DEF Tracks
  <2>3. \A t \in Tracks : UnsetOf(types[t]) \in StatesOf(types[t])
                          /\ UnsetOf(types[t]) \in States
    BY <2>2, UnsetIsState, StatesByType
  <2> QED  BY <2>1, <2>3 DEF MuxTyped
<1>4. MaxFiles \in Nat
  BY TrackConfigAssumption
<1>5. log \in Seq(Records) /\ committed \in 0 .. Len(log) /\ DOMAIN log = {}
  BY <1>2
<1>6. logged \in [DOMAIN logged -> Seq(States)] /\ DOMAIN logged = Tracks
      /\ \A t \in Tracks : logged[t] = <<>>
  BY <1>2
<1>7. Typed
  <2>1. phase \in Phases /\ {cover, thumb, recovered, spoiled} \subseteq BOOLEAN
    BY <1>2 DEF Phases
  <2>2. Tracks \subseteq DOMAIN logged /\ logged \in [DOMAIN logged -> Seq(States)]
    BY <1>6
  <2>3. acked \cup written \subseteq {t \in DOMAIN logged : logged[t] # <<>>}
    BY <1>2
  <2>4. made \in 0 .. MaxFiles
    BY <1>2, <1>4
  <2> QED  BY <1>1, <1>3, <1>5, <2>1, <2>2, <2>3, <2>4 DEF Typed
<1>8. StageInv
  BY <1>2, NoTracksEmpty DEF StageInv
<1>9. LogInv
  BY <1>2, <1>5, <1>6 DEF LogInv
<1> QED  BY <1>2, <1>7, <1>8, <1>9 DEF Inv

(* The end of the process.                                                 *)
LEMMA CrashInv == ASSUME Inv, Crash PROVE Inv'
<1>1. /\ Typed /\ LogInv /\ ~recovered
      /\ made = 0 /\ file = NoTracks /\ shown = NoTracks
  BY RecordingIs DEF Crash
<1>2. /\ phase' = "dead"
      /\ UNCHANGED <<types, mux, cover, written, thumb, log, committed, logged, acked,
                     spoiled, recovered, file, shown, made>>
  BY DEF Crash, logVars, fileVars
<1>3. LogInv'
  BY <1>1, <1>2, LogKept
<1>4. Typed'
  BY <1>1, <1>2 DEF Typed, Tracks, Phases, MuxTyped
<1>5. StageInv'
  BY <1>1, <1>2, NoTracksEmpty DEF StageInv
<1> QED  BY <1>1, <1>2, <1>3, <1>4, <1>5 DEF Inv

(* What a muxer closes to while nothing was shown yet.                     *)
LEMMA FirstClose ==
  ASSUME made = 0, file = NoTracks, shown = NoTracks, shown' = shown,
         CloseOf(mux', types')
  PROVE  /\ StageInv'
         /\ made' \in 0 .. MaxFiles /\ phase' \in Phases
         /\ phase' = "failed" => Unwritten(mux, types)'
<1>1. MaxFiles \in Nat /\ MaxFiles > 0
  BY TrackConfigAssumption
<1>2. CASE phase' = "failed" /\ Unwritten(mux', types') /\ UNCHANGED <<file, made>>
  <2>1. StageInv'
    BY <1>2, NoTracksEmpty DEF StageInv
  <2>2. Unwritten(mux, types)'
    BY <1>2 DEF Unwritten
  <2> QED  BY <1>1, <1>2, <2>1, <2>2 DEF Phases
<1>3. CASE phase' = "closed" /\ file' = FileOf(mux', types') /\ made' = made + 1
  <2>1. phase' = "closed" /\ made' = 1
    BY <1>3
  <2>2. file' = FileOf(mux, types)'
    BY <1>3 DEF FileOf, Unwritten, Entries
  <2>3. Opened' = 0
    BY <2>1 DEF Opened
  <2>4. StageInv'
    BY <2>1, <2>2, <2>3, NoTracksEmpty DEF StageInv
  <2> QED  BY <1>1, <2>1, <2>4 DEF Phases
<1> QED  BY <1>2, <1>3 DEF CloseOf

(* The close of the recording, or its failure.                             *)
LEMMA CloseInv == ASSUME Inv, Close PROVE Inv'
<1>1. /\ Typed /\ LogInv /\ ~recovered
      /\ made = 0 /\ file = NoTracks /\ shown = NoTracks
  BY RecordingIs DEF Close
<1>2. /\ CloseOf(mux, types)
      /\ UNCHANGED <<types, mux, cover, written, thumb, log, committed, logged, acked,
                     spoiled, recovered, shown>>
  BY DEF Close, logVars
<1>3. CloseOf(mux', types')
  BY <1>2
<1>4. StageInv' /\ made' \in 0 .. MaxFiles /\ phase' \in Phases
  BY <1>1, <1>2, <1>3, FirstClose
<1>5. LogInv'
  BY <1>1, <1>2, LogKept
<1>6. Typed'
  BY <1>1, <1>2, <1>4 DEF Typed, Tracks, MuxTyped
<1> QED  BY <1>1, <1>2, <1>4, <1>5, <1>6 DEF Inv

(* A file has the entries of the tracks with samples, which all can be     *)
(* written, or none.                                                       *)
LEMMA FileHolds ==
  ASSUME NEW m, NEW kinds
  PROVE  LET f == FileOf(m, kinds) IN
         /\ DOMAIN f \subseteq m.filled
         /\ \A t \in DOMAIN f : /\ f[t] = Entry(kinds[t], m.config[t])
                               /\ ~Unwritable(kinds[t], m.config[t])
         /\ IF Unwritten(m, kinds) THEN DOMAIN f = {} ELSE DOMAIN f = m.filled
<1>1. CASE Unwritten(m, kinds)
  BY <1>1, NoTracksEmpty DEF FileOf
<1>2. CASE ~Unwritten(m, kinds)
  <2>1. FileOf(m, kinds) = [t \in m.filled |-> Entry(kinds[t], m.config[t])]
    BY <1>2 DEF FileOf, Entries
  <2>2. \A t \in m.filled : ~Unwritable(kinds[t], m.config[t])
    BY <1>2 DEF Unwritten
  <2> QED  BY <1>2, <2>1, <2>2
<1> QED  BY <1>1, <1>2

(* What stands in a file that was closed, and what was read of the one     *)
(* before, if there is one.                                                *)
LEMMA OpenShows ==
  ASSUME Inv, Open
  PROVE  /\ DOMAIN shown' = DOMAIN file
         /\ made >= 2 => DOMAIN file = mux.filled
         /\ \A t \in DOMAIN file :
              /\ t \in Tracks /\ types[t] \in Types
              /\ shown'[t] = Shown(types[t], Entry(types[t], mux.config[t]))
              /\ mux.config[t] \in StatesOf(types[t])
              /\ ~Unwritable(types[t], mux.config[t])
              /\ made >= 2 =>
                   /\ t \in DOMAIN shown /\ Passed(types[t], shown[t])
                   /\ Rest(types[t], shown[t])
                   /\ mux.config[t] = Settings(types[t], shown[t])
<1>1. Typed /\ StageInv /\ phase = "closed" /\ made >= 1
  BY DEF Inv, Open, StageInv
<1>2. file = FileOf(mux, types)
  BY <1>1 DEF StageInv
<1>3. /\ DOMAIN file \subseteq mux.filled
      /\ \A t \in DOMAIN file : /\ file[t] = Entry(types[t], mux.config[t])
                               /\ ~Unwritable(types[t], mux.config[t])
      /\ ~Unwritten(mux, types) => DOMAIN file = mux.filled
  BY <1>2, FileHolds
<1>4. shown' = [t \in DOMAIN file |-> Shown(types[t], file[t])]
  BY DEF Open
<1>5. /\ DOMAIN shown' = DOMAIN file
      /\ \A t \in DOMAIN file :
           shown'[t] = Shown(types[t], Entry(types[t], mux.config[t]))
  BY <1>3, <1>4
<1>6. mux.filled \subseteq Tracks /\ \A t \in Tracks : mux.config[t] \in StatesOf(types[t])
  BY <1>1 DEF Typed, MuxTyped
<1>7. \A t \in Tracks : types[t] \in Types
  BY <1>1 DEF Typed, Tracks
<1>8. ASSUME made >= 2, NEW t \in mux.filled
      PROVE  /\ t \in DOMAIN shown /\ Passed(types[t], shown[t])
             /\ Rest(types[t], shown[t])
             /\ mux.config[t] = Settings(types[t], shown[t])
  <2>1. mux.filled = Copied /\ mux.config[t] = Settings(types[t], shown[t])
    BY <1>1, <1>8 DEF StageInv
  <2>2. t \in DOMAIN shown
    BY <2>1 DEF Copied
  <2> QED  BY <1>1, <2>1, <2>2 DEF StageInv
<1>9. made >= 2 => DOMAIN file = mux.filled
  BY <1>1, <1>3 DEF StageInv
<1> QED  BY <1>3, <1>5, <1>6, <1>7, <1>8, <1>9

(* The number of the file that is shown.                                   *)
LEMMA OpenedIs ==
  ASSUME Inv
  PROVE  made \in Nat /\ Opened \in Int
BY TrackConfigAssumption DEF Inv, Typed, Opened

(* The demuxer opens the file.                                             *)
LEMMA OpenInv == ASSUME Inv, Open PROVE Inv'
<1>1. Typed /\ StageInv /\ phase = "closed" /\ phase' = "open" /\ made >= 1
  BY DEF Inv, Open, StageInv
<1>2. UNCHANGED <<types, mux, cover, written, thumb, log, committed, logged, acked,
                  spoiled, recovered, file, made>>
  BY DEF Open, logVars
<1>3. /\ DOMAIN shown' = DOMAIN file
      /\ made >= 2 => DOMAIN file = mux.filled
      /\ \A t \in DOMAIN file :
           /\ t \in Tracks /\ types[t] \in Types
           /\ shown'[t] = Shown(types[t], Entry(types[t], mux.config[t]))
           /\ mux.config[t] \in StatesOf(types[t])
           /\ ~Unwritable(types[t], mux.config[t])
           /\ made >= 2 =>
                /\ t \in DOMAIN shown /\ Passed(types[t], shown[t])
                /\ Rest(types[t], shown[t])
                /\ mux.config[t] = Settings(types[t], shown[t])
  BY OpenShows
<1>4. Opened' = made /\ Opened = made - 1 /\ made \in Nat
  BY <1>1, <1>2, OpenedIs DEF Opened
<1>6. \A t \in DOMAIN shown' : t \in Tracks /\ Passed(types[t], shown'[t])
  BY <1>3, ConfigIsShown
<1>7. ASSUME NEW t \in DOMAIN shown' PROVE Rest(types[t], shown[t])'
  <2>1. CASE made < 2
    BY <1>2, <1>4, <2>1 DEF Rest
  <2>2. CASE made >= 2
    <3> DEFINE s == shown[t]
               r == shown'[t]
    <3>1. /\ types[t] \in Types /\ Passed(types[t], s) /\ Rest(types[t], s)
          /\ r = Shown(types[t], Entry(types[t], Settings(types[t], s)))
      BY <1>3, <2>2
    <3>2. types[t] = "video" /\ r.codec = "HEVC" =>
            s.codec = "HEVC" /\ r.info.layers = 4 * (s.info.layers % 2)
      BY <3>1, CopyIsShown
    <3>3. ASSUME types[t] = "video", r.codec = "HEVC"
          PROVE  /\ r.info.layers \in {0, 4}
                 /\ made >= 3 => r.info.layers = 0
      <4>1. s.info \in InOctets
        BY <3>1, <3>2, <3>3 DEF Passed
      <4>2. s.info.layers \in 0 .. 7
        BY <4>1 DEF InOctets
      <4>3. made >= 3 => s.info.layers \in {0, 4}
        BY <1>4, <3>1, <3>2, <3>3 DEF Rest
      <4> HIDE DEF r, s
      <4> QED  BY <3>2, <3>3, <4>2, <4>3
    <3> QED  BY <1>2, <1>4, <3>3 DEF Rest
  <2> QED  BY <1>4, <2>1, <2>2
<1>8. ASSUME made >= 2 PROVE Copied' = DOMAIN shown'
  <2>1. mux.filled = Copied /\ DOMAIN shown' = mux.filled
    BY <1>1, <1>3, <1>8 DEF StageInv
  <2>2. \A t \in Copied :
          /\ types[t] \in {"video", "audio", "metadata"}
          /\ \A u \in DOMAIN shown : u < t => types[u] # types[t]
          /\ (types[t] = "metadata" => t \in mux.refs)
          /\ t \in DOMAIN shown
    BY DEF Copied
  <2>3. ASSUME NEW t \in Copied PROVE \E u \in Copied : types[u] = "video"
    <3> DEFINE V == {u \in DOMAIN shown : types[u] = "video"}
    <3>1. V # {}
      BY DEF Copied
    <3>2. \A u \in V : u \in Nat
      BY <1>1 DEF StageInv, Tracks, Typed
    <3>3. PICK u \in V : \A w \in V : u <= w
      <4> HIDE DEF V
      <4> QED  BY <3>1, <3>2, LeastNumber
    <3>4. \A w \in DOMAIN shown : w < u => types[w] # types[u]
      BY <3>2, <3>3
    <3> QED  BY <3>1, <3>3, <3>4 DEF Copied
  <2>4. Copied' = {t \in Copied :
           /\ types[t] \in {"video", "audio", "metadata"}
           /\ \A u \in Copied : u < t => types[u] # types[t]
           /\ types[t] = "metadata" => t \in mux.refs
           /\ \E u \in Copied : types[u] = "video"}
    BY <1>2, <2>1 DEF Copied
  <2>5. Copied' = Copied
    BY <2>2, <2>3, <2>4
  <2> QED  BY <2>1, <2>5
<1>9. shown' = [t \in DOMAIN file |-> Shown(types[t], file[t])]
  BY DEF Open
<1>10. file = FileOf(mux, types) /\ (made >= 2 => ~Unwritten(mux, types))
  BY <1>1 DEF StageInv
<1>11. StageInv'
  <2>1. (file = FileOf(mux, types))' /\ (made >= 2 => ~Unwritten(mux, types))'
    BY <1>2, <1>10 DEF FileOf, Entries, Unwritten
  <2>2. (shown = [t \in DOMAIN file |-> Shown(types[t], file[t])])'
    BY <1>2, <1>9
  <2>3. (\A t \in DOMAIN shown :
           t \in Tracks /\ Passed(types[t], shown[t]) /\ Rest(types[t], shown[t]))'
    BY <1>2, <1>6, <1>7 DEF Tracks
  <2> QED  BY <1>1, <1>2, <1>4, <1>8, <2>1, <2>2, <2>3 DEF StageInv
<1>12. Typed'
  BY <1>1, <1>2 DEF Typed, Tracks, MuxTyped, Phases
<1>13. ~recovered => LogInv'
  BY <1>2, LogKept DEF Inv
<1>14. recovered /\ made < 2 => RecInv'
  BY <1>1, <1>2 DEF Inv, RecInv, FromLog
<1> QED  BY <1>2, <1>11, <1>12, <1>13, <1>14 DEF Inv

(* A copy, which can always be closed: what is shown can be written.       *)
LEMMA CopyInv == ASSUME Inv, Copy PROVE Inv'
<1> DEFINE config == [t \in Tracks |-> IF t \in Copied THEN Settings(types[t], shown[t])
                                       ELSE UnsetOf(types[t])]
           m == [config |-> config, filled |-> Copied, refs |-> mux.refs \cap Copied]
<1>1. /\ Typed /\ StageInv /\ phase = "open" /\ made < MaxFiles /\ made >= 1
      /\ mux' = m /\ CloseOf(m, types)
  BY DEF Inv, Copy, StageInv
<1>2. UNCHANGED <<types, cover, written, thumb, log, committed, logged, acked,
                  spoiled, recovered, shown>>
  BY DEF Copy, logVars
<1>3. \A t \in Tracks : types[t] \in Types
  BY <1>1 DEF Typed, Tracks
<1>4. \A t \in DOMAIN shown :
        t \in Tracks /\ Passed(types[t], shown[t]) /\ Rest(types[t], shown[t])
  BY <1>1 DEF StageInv
<1>5. Copied \subseteq DOMAIN shown
  BY DEF Copied
<1>6. \A t \in Copied : /\ Settings(types[t], shown[t]) \in StatesOf(types[t])
                        /\ ~Unwritable(types[t], Settings(types[t], shown[t]))
  BY <1>3, <1>4, <1>5, CopyIsShown
<1>7. \A t \in Tracks : config[t] \in StatesOf(types[t]) /\ config[t] \in States
  BY <1>3, <1>6, UnsetIsState, StatesByType
<1>8. \A t \in Copied : config[t] = Settings(types[t], shown[t])
  BY <1>4, <1>5
<1>9. config \in [Tracks -> States]
  BY <1>7
<1> HIDE DEF config
<1>10. /\ phase' = "closed" /\ file' = FileOf(mux', types) /\ made' = made + 1
       /\ ~Unwritten(mux', types)
  <2>1. ~Unwritten(m, types)
    BY <1>6, <1>8 DEF Unwritten
  <2> HIDE DEF m
  <2> QED  BY <1>1, <2>1 DEF CloseOf
<1>11. mux'.filled = Copied /\ mux'.config = config /\ mux'.refs = mux.refs \cap Copied
  BY <1>1
<1>12. MuxTyped'
  <2>1. mux' \in [config : [Tracks -> States], filled : SUBSET Tracks,
                  refs : SUBSET Tracks]
    BY <1>1, <1>4, <1>5, <1>9
  <2> QED  BY <1>2, <1>7, <1>11, <2>1 DEF MuxTyped, Tracks
<1>13. made \in Nat
  BY OpenedIs
<1>14. Typed'
  <2>1. made' \in 0 .. MaxFiles
    BY <1>1, <1>10, <1>13, TrackConfigAssumption
  <2> QED  BY <1>1, <1>2, <1>10, <1>12, <2>1 DEF Typed, Tracks, Phases
<1>15. Opened' = Opened
  BY <1>1, <1>10, <1>13 DEF Opened
<1>16. Copied' = Copied
  <2>1. Copied' = {t \in DOMAIN shown :
           /\ types[t] \in {"video", "audio", "metadata"}
           /\ \A u \in DOMAIN shown : u < t => types[u] # types[t]
           /\ types[t] = "metadata" => t \in mux.refs \cap Copied
           /\ \E u \in DOMAIN shown : types[u] = "video"}
    BY <1>2, <1>11 DEF Copied
  <2>2. ASSUME NEW t PROVE t \in Copied' <=> t \in Copied
    BY <2>1 DEF Copied
  <2> QED  BY <2>2
<1>17. StageInv'
  <2>1. (file = FileOf(mux, types))' /\ ~Unwritten(mux, types)'
    BY <1>2, <1>10 DEF FileOf, Entries, Unwritten
  <2>2. (\A t \in DOMAIN shown :
           t \in Tracks /\ Passed(types[t], shown[t]) /\ Rest(types[t], shown[t]))'
    BY <1>2, <1>4, <1>15 DEF Tracks, Rest
  <2>3. Opened >= 2 => Copied = DOMAIN shown
    BY <1>1 DEF StageInv
  <2>4. mux'.filled = Copied' /\ \A t \in mux'.filled :
                                   mux'.config[t] = Settings(types'[t], shown'[t])
    BY <1>2, <1>8, <1>11, <1>16
  <2>5. phase' = "closed" /\ made' >= 2 /\ made' # 1 /\ made' >= 1
    BY <1>1, <1>10, <1>13
  <2>6. (phase \in {"closed", "open"} /\ Opened >= 2 => Copied = DOMAIN shown)'
    BY <1>2, <1>15, <1>16, <2>3
  <2>10. shown' = [t \in DOMAIN shown' |-> shown'[t]]
    <3>1. shown = [t \in DOMAIN file |-> Shown(types[t], file[t])]
      BY <1>1 DEF StageInv
    <3> QED  BY <1>2, <3>1
  <2>7. (phase = "closed" /\ made >= 2 =>
           /\ shown = [t \in DOMAIN shown |-> shown[t]]
           /\ mux.filled = Copied
           /\ \A t \in mux.filled : mux.config[t] = Settings(types[t], shown[t]))'
    BY <2>4, <2>10
  <2>8. (/\ phase \in {"recording", "dead"} => ~recovered
         /\ phase \in {"recording", "dead", "failed"} =>
              made = 0 /\ file = NoTracks /\ shown = NoTracks
         /\ phase = "closed" /\ made = 1 => shown = NoTracks
         /\ phase = "open" => shown = [t \in DOMAIN file |-> Shown(types[t], file[t])])'
    BY <2>5
  <2>9. (/\ phase \in {"closed", "open"} => made >= 1 /\ file = FileOf(mux, types)
         /\ phase \in {"closed", "open"} /\ made >= 2 => ~Unwritten(mux, types))'
    BY <2>1, <2>5
  <2> QED  BY <2>2, <2>6, <2>7, <2>8, <2>9 DEF StageInv
<1>18. ~recovered => LogInv'
  BY <1>2, LogKept DEF Inv
<1>19. ~(made' < 2)
  BY <1>1, <1>10, <1>13
<1> QED  BY <1>2, <1>14, <1>17, <1>18, <1>19 DEF Inv

(* Behind a sync that answers for tracks their tables are in the whole     *)
(* log.                                                                    *)
LEMMA SyncedAcked ==
  ASSUME Typed, LogInv, NEW m \in 0 .. Len(Round), NEW failed \in BOOLEAN,
         NEW thumbs \in BOOLEAN, NEW whole \in BOOLEAN,
         Synced(m, failed, thumbs, whole)
  PROVE  /\ committed' \in 0 .. Len(log')
         /\ \A t \in acked' : AckedWhole(t)'
         /\ ~spoiled' => committed' = Len(log') /\ \A i \in DOMAIN log' : log'[i].whole
<1>1. /\ types' = types /\ DOMAIN log' = 1 .. Len(log')
      /\ Len(log) \in Nat /\ Len(log') \in Nat /\ Len(log) <= Len(log') /\ m \in Nat
      /\ \A i \in DOMAIN log' :
           \/ i \in DOMAIN log
           \/ \E k \in 1 .. m : i = Len(log) + k
           \/ log'[i].kind = "covr" /\ (whole => log'[i].whole)
      /\ \A j \in DOMAIN log : j \in DOMAIN log' /\ log'[j] = log[j]
      /\ \A k \in 1 .. m : /\ Len(log) + k \in DOMAIN log'
                           /\ log'[Len(log) + k] = Round[k] /\ k \in 1 .. Len(Round)
  BY SyncedIs
<1>2. /\ IF failed
         THEN /\ m >= 1 /\ ~Round[m].whole /\ \A k \in 1 .. m - 1 : Round[k].whole
              /\ committed' = committed
         ELSE /\ m = Len(Round) /\ \A k \in 1 .. m : Round[k].whole
              /\ committed' = Len(log')
      /\ spoiled' <=> spoiled \/ failed \/ ~whole
      /\ acked' = IF failed \/ spoiled THEN acked ELSE acked \cup mux.filled
  BY DEF Synced
<1>3. committed \in 0 .. Len(log) /\ DOMAIN log = 1 .. Len(log)
  BY DEF Typed
<1>4. committed' \in 0 .. Len(log') /\ committed <= committed'
  BY <1>1, <1>2, <1>3
<1>5. ASSUME NEW t \in acked PROVE AckedWhole(t)'
  <2>1. PICK i \in 1 .. committed :
          IsRecord(i, "tables", t) /\ \A j \in 1 .. i : log[j].whole
    BY DEF LogInv, AckedWhole
  <2>2. i \in 1 .. committed' /\ \A j \in 1 .. i : j \in DOMAIN log
    BY <1>3, <1>4
  <2>3. IsIn(log', i, "tables", t)
    BY <1>1, <2>1 DEF IsRecord, IsIn
  <2>4. \A j \in 1 .. i : log'[j].whole
    BY <1>1, <2>1, <2>2
  <2> QED  BY <2>2, <2>3, <2>4 DEF AckedWhole, IsRecord
<1>6. ASSUME ~failed, ~spoiled, NEW i \in DOMAIN log',
             i \in DOMAIN log \/ \E k \in 1 .. m : i = Len(log) + k
      PROVE  log'[i].whole
  <2>1. \A j \in DOMAIN log : log[j].whole
    BY <1>6 DEF LogInv
  <2>2. \A k \in 1 .. m : Round[k].whole
    BY <1>2, <1>6
  <2> QED  BY <1>1, <1>6, <2>1, <2>2
<1>7. ASSUME ~failed, ~spoiled, NEW t \in mux.filled PROVE AckedWhole(t)'
  <2>1. ASSUME NEW i \in DOMAIN log', log'[i] = Tables(t),
               \A j \in 1 .. i : j \in DOMAIN log \/ \E k \in 1 .. m : j = Len(log) + k
        PROVE  AckedWhole(t)'
    <3>1. i \in 1 .. committed' /\ \A j \in 1 .. i : j \in DOMAIN log'
      BY <1>1, <1>2, <1>7
    <3>2. \A j \in 1 .. i : log'[j].whole
      BY <1>6, <1>7, <2>1, <3>1
    <3>3. IsIn(log', i, "tables", t)
      BY <2>1, RecordsAre DEF IsIn
    <3> QED  BY <3>1, <3>2, <3>3 DEF AckedWhole, IsRecord
  <2>2. CASE \E i \in DOMAIN log : log[i] = Tables(t)
    <3>1. PICK i \in DOMAIN log : log[i] = Tables(t)
      BY <2>2
    <3>2. i \in DOMAIN log' /\ log'[i] = Tables(t) /\ \A j \in 1 .. i : j \in DOMAIN log
      BY <1>1, <1>3, <3>1
    <3> QED  BY <2>1, <3>2
  <2>3. CASE \E k \in 1 .. Len(Round) : Round[k] = Tables(t)
    <3>1. PICK k \in 1 .. Len(Round) : Round[k] = Tables(t)
      BY <2>3
    <3>2. k \in 1 .. m
      BY <1>2, <1>7, <3>1
    <3>3. PICK i \in DOMAIN log' : i = Len(log) + k /\ log'[i] = Tables(t)
      BY <1>1, <3>1, <3>2
    <3>4. ASSUME NEW j \in 1 .. i
          PROVE  j \in DOMAIN log \/ \E l \in 1 .. m : j = Len(log) + l
      <4>1. CASE j <= Len(log)
        BY <1>1, <1>3, <3>3, <4>1
      <4>2. CASE j > Len(log)
        <5>1. j - Len(log) \in 1 .. m /\ j = Len(log) + (j - Len(log))
          BY <1>1, <3>2, <3>3, <4>2
        <5> QED  BY <5>1
      <4>3. j \in Int
        BY <1>1
      <4> QED  BY <1>1, <4>1, <4>2, <4>3
    <3> QED  BY <2>1, <3>3, <3>4
  <2> QED  BY <2>2, <2>3, RoundIs
<1>8. \A t \in acked' : AckedWhole(t)'
  BY <1>2, <1>5, <1>7
<1>9. ASSUME ~spoiled' PROVE committed' = Len(log') /\ \A i \in DOMAIN log' : log'[i].whole
  <2>1. ~spoiled /\ ~failed /\ whole
    BY <1>2, <1>9
  <2> QED  BY <1>1, <1>2, <1>6, <2>1
<1> QED  BY <1>4, <1>8, <1>9

(* A sync, whichever of its records fails.                                 *)
LEMMA SyncInv == ASSUME Inv, Sync PROVE Inv'
<1>1. /\ Typed /\ LogInv /\ ~recovered /\ phase = "recording"
      /\ made = 0 /\ file = NoTracks /\ shown = NoTracks
  BY RecordingIs DEF Sync
<1>2. PICK m \in 0 .. Len(Round) : \E failed, thumbs, whole \in BOOLEAN :
        Synced(m, failed, thumbs, whole)
  BY <1>1, SyncIs
<1>3. PICK failed \in BOOLEAN, thumbs \in BOOLEAN, whole \in BOOLEAN :
        Synced(m, failed, thumbs, whole)
  BY <1>2
<1>4. /\ UNCHANGED <<phase, types, mux, cover, recovered, file, shown, made>>
      /\ written' = written \cup {Round[k].track : k \in 1 .. m}
      /\ acked' \in {acked, acked \cup mux.filled}
      /\ log' \in Seq(Records) /\ thumb' \in BOOLEAN /\ spoiled' \in BOOLEAN
  BY <1>3 DEF Synced, fileVars
<1>5. /\ Tracks' = Tracks /\ Len(log) \in Nat /\ DOMAIN log' = 1 .. Len(log')
      /\ \A j \in DOMAIN log : j \in DOMAIN log' /\ log'[j] = log[j]
      /\ \A k \in 1 .. m : /\ Len(log) + k \in DOMAIN log'
                           /\ log'[Len(log) + k] = Round[k] /\ k \in 1 .. Len(Round)
      /\ \A i, kind, t : IsRecord(i, kind, t) => IsIn(log', i, kind, t)
  BY <1>1, <1>3, SyncedIs
<1>6. \A i \in DOMAIN log' : RecordOk(i)'
  BY <1>1, <1>3, SyncedRecordsOk
<1>7. \A t \in Tracks : logged'[t] # <<>> => LastLogged(t)'
  BY <1>1, <1>3, SyncedLastLogged
<1>8. /\ committed' \in 0 .. Len(log')
      /\ \A t \in acked' : AckedWhole(t)'
      /\ ~spoiled' => committed' = Len(log') /\ \A i \in DOMAIN log' : log'[i].whole
  BY <1>1, <1>3, SyncedAcked
<1>9. /\ \A t \in Tracks : logged'[t] \in Seq(States)
      /\ \A t \in Tracks : \A k \in DOMAIN logged'[t] : logged'[t][k] \in StatesOf(types[t])
  BY <1>1, <1>3, SyncedConfigs
<1>10. logged' \in [Tracks -> Seq(States)] /\ DOMAIN logged' = Tracks
  <2>1. logged' = [t \in Tracks |->
          IF \E k \in 1 .. m : Round[k].kind = "stsd" /\ Round[k].track = t
          THEN Append(logged[t], mux.config[t]) ELSE logged[t]]
    BY <1>3 DEF Synced
  <2> QED  BY <1>9, <2>1
<1>11. ASSUME NEW i \in DOMAIN log', log'[i].kind = "trak"
       PROVE  /\ log'[i].track \in Tracks /\ logged'[log'[i].track] # <<>>
  <2>1. RecordOk(i)'
    BY <1>6
  <2>2. log'[i].track \in Tracks /\ IsIn(log', i + 1, "stsd", log'[i].track)
    BY <1>5, <1>11, <2>1 DEF RecordOk, IsRecord
  <2>3. PICK j \in DOMAIN log' : j = i + 1 /\ log'[j].kind = "stsd"
                                 /\ log'[j].track = log'[i].track
    BY <2>2 DEF IsIn
  <2>4. RecordOk(j)'
    BY <1>6
  <2>5. \E k \in DOMAIN logged'[log'[j].track] : TRUE
    BY <2>3, <2>4 DEF RecordOk
  <2> QED  BY <2>2, <2>3, <2>5
<1>12. ASSUME NEW i \in DOMAIN log', log'[i].kind # "covr"
       PROVE  \E j \in DOMAIN log' : IsIn(log', j, "trak", log'[i].track)
  <2>1. RecordOk(i)'
    BY <1>6
  <2>2. CASE log'[i].kind = "trak"
    BY <2>2 DEF IsIn
  <2>3. CASE log'[i].kind = "stsd"
    BY <2>1, <2>3 DEF RecordOk, IsRecord, IsIn
  <2>4. CASE log'[i].kind = "tables"
    <3>1. \E j \in 1 .. i : IsIn(log', j, "trak", log'[i].track)
      BY <2>1, <2>4 DEF RecordOk, IsRecord
    <3> QED  BY <3>1 DEF IsIn
  <2>5. log'[i].kind \in {"trak", "stsd", "tables", "covr"}
    <3>1. log'[i] \in Records
      BY <1>4
    <3> QED  BY <3>1 DEF Records
  <2> QED  BY <1>12, <2>2, <2>3, <2>4, <2>5
<1>13. ASSUME NEW t \in written' PROVE \E i \in DOMAIN log' : IsIn(log', i, "trak", t)
  <2>1. CASE t \in written
    <3>1. PICK i \in DOMAIN log : IsRecord(i, "trak", t)
      BY <1>1, <2>1 DEF LogInv
    <3> QED  BY <1>5, <3>1
  <2>2. CASE \E k \in 1 .. m : t = Round[k].track
    <3>1. PICK k \in 1 .. m : t = Round[k].track
      BY <2>2
    <3>2. Round[k].kind # "covr"
      BY <1>1, <1>3, LoggedRoundIs, RecordsAre
    <3>3. PICK i \in DOMAIN log' : log'[i] = Round[k]
      BY <1>5
    <3> QED  BY <1>12, <3>1, <3>2, <3>3
  <2> QED  BY <1>4, <2>1, <2>2
<1>14. ASSUME NEW t \in acked' PROVE \E i \in DOMAIN log' : IsIn(log', i, "trak", t)
  <2>1. AckedWhole(t)'
    BY <1>8
  <2>2. \E i \in 1 .. committed' : IsIn(log', i, "tables", t)
    BY <2>1 DEF AckedWhole, IsRecord
  <2>3. PICK i \in DOMAIN log' : log'[i].kind = "tables" /\ log'[i].track = t
    BY <2>2 DEF IsIn
  <2> QED  BY <1>12, <2>3
<1>15. acked' \cup written' \subseteq {t \in DOMAIN logged' : logged'[t] # <<>>}
  <2> SUFFICES ASSUME NEW t \in acked' \cup written'
               PROVE  t \in DOMAIN logged' /\ logged'[t] # <<>>
    OBVIOUS
  <2>1. PICK i \in DOMAIN log' : IsIn(log', i, "trak", t)
    BY <1>13, <1>14
  <2>2. log'[i].kind = "trak" /\ log'[i].track = t
    BY <2>1 DEF IsIn
  <2> QED  BY <1>10, <1>11, <2>2
<1>16. LogInv'
  <2>1. (\A t \in DOMAIN logged : \A k \in DOMAIN logged[t] :
           t \in Tracks /\ logged[t][k] \in StatesOf(types[t]))'
    BY <1>4, <1>5, <1>9, <1>10
  <2>2. (\A t \in Tracks : logged[t] # <<>> => LastLogged(t))'
    BY <1>5, <1>7
  <2>3. (\A t \in written : \E i \in DOMAIN log : IsRecord(i, "trak", t))'
    BY <1>13 DEF IsRecord
  <2> QED  BY <1>5, <1>6, <1>8, <1>10, <2>1, <2>2, <2>3 DEF LogInv
<1>17. MuxTyped'
  BY <1>1, <1>4, <1>5 DEF Typed, MuxTyped
<1>18. Typed'
  <2>1. Tracks' \subseteq DOMAIN logged' /\ logged' \in [DOMAIN logged' -> Seq(States)]
    BY <1>5, <1>10
  <2>2. phase' \in Phases /\ types' \in Seq(Types) /\ made' \in 0 .. MaxFiles
        /\ {cover', thumb', recovered', spoiled'} \subseteq BOOLEAN
    BY <1>1, <1>4 DEF Typed
  <2> QED  BY <1>4, <1>8, <1>15, <1>17, <2>1, <2>2 DEF Typed
<1>19. StageInv'
  BY <1>1, <1>4, NoTracksEmpty DEF StageInv
<1> QED  BY <1>1, <1>4, <1>16, <1>18, <1>19 DEF Inv

-----------------------------------------------------------------------------
(* The log is read.                                                        *)

(* What a record makes of the muxer.                                       *)
LEMMA StoppedIs ==
  ASSUME NEW m \in Readers
  PROVE  /\ Stopped(m) \in Readers /\ ~Stopped(m).on
         /\ Stopped(m).types = m.types /\ Stopped(m).config = m.config
         /\ Stopped(m).filled = m.filled /\ Stopped(m).refs = m.refs
BY DEF Stopped, Readers

(* A reader that stops keeps what it has.                                  *)
LEMMA StoppedOk ==
  ASSUME NEW m, ReaderOk(m), FilledOk(m)
  PROVE  ReaderOk(Stopped(m)) /\ FilledOk(Stopped(m)) /\ ~Stopped(m).on
<1>1. m \in Readers
  BY DEF ReaderOk
<1>2. /\ Stopped(m) \in Readers /\ ~Stopped(m).on
      /\ Stopped(m).types = m.types /\ Stopped(m).config = m.config
      /\ Stopped(m).filled = m.filled /\ Stopped(m).refs = m.refs
  BY <1>1, StoppedIs
<1>3. ReaderOk(Stopped(m))
  BY <1>2 DEF ReaderOk
<1>4. FilledOk(Stopped(m))
  BY <1>2 DEF FilledOk, Got
<1> QED  BY <1>2, <1>3, <1>4

(* A reference that is read changes nothing else.                          *)
LEMMA ReferIs ==
  ASSUME NEW m \in Readers, NEW t \in Nat, NEW b \in BOOLEAN
  PROVE  LET d == [m EXCEPT !.refs = IF b THEN @ \cup {t} ELSE @] IN
         /\ d \in Readers /\ d.types = m.types /\ d.config = m.config
         /\ d.filled = m.filled /\ d.on = m.on /\ d.refs \subseteq m.refs \cup {t}
<1> DEFINE s == IF b THEN m.refs \cup {t} ELSE m.refs
<1>1. s \in SUBSET Nat /\ s \subseteq m.refs \cup {t}
  BY DEF Readers
<1> HIDE DEF s
<1>2. LET d == [m EXCEPT !.refs = s] IN
      /\ d \in Readers /\ d.types = m.types /\ d.config = m.config
      /\ d.filled = m.filled /\ d.on = m.on /\ d.refs = s
  BY <1>1 DEF Readers
<1> QED  BY <1>1, <1>2 DEF s

(* A track that is read is put behind the others.                          *)
LEMMA AddedIs ==
  ASSUME NEW m \in Readers, NEW type \in Types
  PROVE  LET d == [m EXCEPT !.types = Append(@, type),
                            !.config = Append(@, UnsetOf(type))] IN
         /\ d \in Readers /\ d.types = Append(m.types, type)
         /\ d.config = Append(m.config, UnsetOf(type))
         /\ d.filled = m.filled /\ d.on = m.on /\ d.refs = m.refs
<1> DEFINE c == UnsetOf(type)
           ts == Append(m.types, type)
           cs == Append(m.config, c)
<1>1. c \in States
  BY UnsetIsState, StatesByType
<1>2. m.types \in Seq(Types) /\ m.config \in Seq(States)
  BY DEF Readers
<1>3. ts \in Seq(Types) /\ cs \in Seq(States)
  BY <1>1, <1>2
<1> HIDE DEF c, ts, cs
<1>4. LET d == [m EXCEPT !.types = ts, !.config = cs] IN
      /\ d \in Readers /\ d.types = ts /\ d.config = cs
      /\ d.filled = m.filled /\ d.on = m.on /\ d.refs = m.refs
  BY <1>3 DEF Readers
<1> QED  BY <1>4 DEF c, ts, cs

(* A track more.                                                           *)
LEMMA AddedOk ==
  ASSUME Typed, NEW m, ReaderOk(m), FilledOk(m), NEW t \in Tracks, ~Known(m, t)
  PROVE  LET n == Len(m.types) + 1
             d == [m EXCEPT !.types = Append(@, types[t]),
                            !.config = Append(@, UnsetOf(types[t]))] IN
         /\ ReaderOk(d) /\ FilledOk(d) /\ d \in Readers /\ d.on = m.on
         /\ d.filled = m.filled /\ n \in Nat
         /\ DOMAIN d.types = DOMAIN m.types \cup {n} /\ n \notin DOMAIN m.types
         /\ d.types[n] = types[t]
         /\ \A u \in DOMAIN m.types : d.types[u] = m.types[u] /\ d.config[u] = m.config[u]
         /\ DOMAIN m.types = 1 .. n - 1
<1> DEFINE n == Len(m.types) + 1
           type == types[t]
           c == UnsetOf(type)
           d == [m EXCEPT !.types = Append(@, type), !.config = Append(@, c)]
<1>1. type \in Types /\ t \in Nat /\ 1 <= t /\ t <= Len(types) /\ Len(types) \in Nat
  BY DEF Typed, Tracks
<1>2. c \in States /\ c \in StatesOf(type)
  BY <1>1, UnsetIsState, StatesByType
<1>3. /\ m \in Readers /\ Len(m.types) <= Len(types) /\ Len(m.config) = Len(m.types)
      /\ m.filled \subseteq DOMAIN m.types /\ m.refs \subseteq DOMAIN m.types
      /\ \A u \in DOMAIN m.types : m.config[u] \in StatesOf(m.types[u])
  BY DEF ReaderOk
<1>4. /\ d \in Readers /\ d.types = Append(m.types, type) /\ d.config = Append(m.config, c)
      /\ d.filled = m.filled /\ d.on = m.on /\ d.refs = m.refs
  BY <1>1, <1>3, AddedIs
<1> HIDE DEF d, c, type
<1>5. m.types \in Seq(Types) /\ m.config \in Seq(States) /\ Len(m.types) \in Nat
  BY <1>3 DEF Readers
<1>6. DOMAIN m.types = 1 .. n - 1 /\ n \in Nat /\ n \notin DOMAIN m.types
  BY <1>5
<1>7. n <= Len(types)
  <2>1. t \notin 1 .. n - 1
    BY <1>6 DEF Known
  <2> HIDE DEF n
  <2> QED  BY <1>1, <1>6, <2>1
<1>8. /\ Len(d.types) = n /\ DOMAIN d.types = DOMAIN m.types \cup {n} /\ d.types[n] = type
      /\ \A u \in DOMAIN m.types : d.types[u] = m.types[u]
  BY <1>1, <1>4, <1>5, <1>6
<1>9. /\ Len(d.config) = n /\ d.config[n] = c
      /\ \A u \in DOMAIN m.types : d.config[u] = m.config[u]
  BY <1>2, <1>3, <1>4, <1>5, <1>6
<1>10. ReaderOk(d)
  BY <1>2, <1>3, <1>4, <1>7, <1>8, <1>9 DEF ReaderOk
<1>11. FilledOk(d)
  BY <1>3, <1>4, <1>8, <1>9 DEF FilledOk, Got
<1> QED  BY <1>4, <1>6, <1>8, <1>9, <1>10, <1>11 DEF d, c, type

(* Behind the record of a track comes that of its config, and both are     *)
(* read or none is.                                                        *)
LEMMA BehindTrak ==
  ASSUME Typed, LogInv, NEW i \in 1 .. committed,
         NEW resume \in [ShortCovers -> 1 .. committed + 1],
         NEW t, IsRecord(i - 1, "trak", t), ~Swallowed(i - 1, resume)
  PROVE  IsRecord(i, "stsd", t) /\ ~Swallowed(i, resume)
<1>1. i - 1 \in DOMAIN log /\ log[i - 1].kind = "trak" /\ log[i - 1].track = t
  BY DEF IsRecord, IsIn
<1>2. RecordOk(i - 1)
  BY <1>1 DEF LogInv
<1>3. IsRecord((i - 1) + 1, "stsd", t)
  BY <1>1, <1>2 DEF RecordOk
<1>4. i \in Nat /\ (i - 1) + 1 = i /\ committed \in Nat
  BY DEF Typed
<1>5. i - 1 \notin DOMAIN resume
  BY <1>1 DEF ShortCovers
<1>6. ASSUME NEW j \in DOMAIN resume, j < i, i < resume[j] PROVE FALSE
  <2>1. j \in Nat /\ resume[j] \in Nat
    BY <1>4 DEF ShortCovers
  <2>2. j # i - 1
    BY <1>5
  <2>3. j < i - 1 /\ i - 1 < resume[j]
    BY <1>4, <1>6, <2>1, <2>2
  <2> QED  BY <2>3 DEF Swallowed
<1> QED  BY <1>3, <1>4, <1>6 DEF Swallowed

(* Where the log is whole up to a record, nothing is swallowed.            *)
LEMMA WholeBefore ==
  ASSUME Typed, NEW i \in 1 .. committed,
         NEW resume \in [ShortCovers -> 1 .. committed + 1], WholeTo(i)
  PROVE  /\ WholeTo(i - 1) /\ log[i].whole /\ ~Swallowed(i, resume)
<1>1. i \in Nat /\ \A j \in 1 .. i : log[j].whole
  BY DEF WholeTo, Typed
<1>2. WholeTo(i - 1) /\ log[i].whole
  BY <1>1 DEF WholeTo
<1>3. ASSUME NEW j \in DOMAIN resume, j < i PROVE FALSE
  <2>1. j \in Nat /\ j >= 1 /\ ~log[j].whole
    BY DEF ShortCovers, Typed
  <2>2. j \in 1 .. i
    BY <1>1, <1>3, <2>1
  <2> QED  BY <1>1, <2>1, <2>2
<1> QED  BY <1>2, <1>3 DEF Swallowed

(* A muxer that is read into no more.                                      *)
LEMMA OffOk ==
  ASSUME Typed, NEW i \in 1 .. committed,
         NEW resume \in [ShortCovers -> 1 .. committed + 1],
         NEW m, ReadOk(m, i - 1, resume), NEW d, ReaderOk(d), FilledOk(d), ~d.on,
         m.filled \subseteq d.filled, ~WholeTo(i)
  PROVE  ReadOk(d, i, resume)
<1>1. i \in Nat
  BY DEF Typed
<1>2. FilledAll(d, i)
  <2> SUFFICES ASSUME NEW t \in Tracks, NEW j \in 1 .. i, WholeTo(j),
                      IsRecord(j, "tables", t)
               PROVE  t \in d.filled
    BY DEF FilledAll
  <2>1. j # i
    OBVIOUS
  <2>2. j \in 1 .. i - 1
    BY <1>1, <2>1
  <2> QED  BY <2>2 DEF ReadOk, FilledAll
<1> QED  BY <1>2 DEF ReadOk, KnownOk, InStep

(* The tracks that are known when a record is read.                        *)
LEMMA KnownNow ==
  ASSUME Typed, LogInv, NEW i \in 1 .. committed,
         NEW resume \in [ShortCovers -> 1 .. committed + 1],
         NEW m, ReadOk(m, i - 1, resume), m.on
  PROVE  \A t \in DOMAIN m.types :
           /\ m.types[t] = types[t]
           /\ Got(m, t) \/ (IsRecord(i, "stsd", t) /\ ~Swallowed(i, resume))
<1> SUFFICES ASSUME NEW t \in DOMAIN m.types
             PROVE  /\ m.types[t] = types[t]
                    /\ Got(m, t) \/ (IsRecord(i, "stsd", t) /\ ~Swallowed(i, resume))
  OBVIOUS
<1>1. /\ m.types[t] = types[t]
      /\ Got(m, t) \/ (IsRecord(i - 1, "trak", t) /\ ~Swallowed(i - 1, resume))
  BY DEF ReadOk, KnownOk
<1> QED  BY <1>1, BehindTrak

(* Nothing is read of what a cover swallowed.                              *)
LEMMA SwallowedOk ==
  ASSUME Typed, LogInv, NEW i \in 1 .. committed,
         NEW resume \in [ShortCovers -> 1 .. committed + 1],
         NEW m, ReadOk(m, i - 1, resume), Swallowed(i, resume)
  PROVE  ReadOk(m, i, resume)
<1>1. ~WholeTo(i)
  BY WholeBefore
<1>2. CASE ~m.on
  BY <1>1, <1>2, OffOk DEF ReadOk
<1>3. CASE m.on
  <2>1. KnownOk(m, i, resume)
    BY <1>3, KnownNow DEF KnownOk
  <2>2. FilledAll(m, i)
    <3> SUFFICES ASSUME NEW t \in Tracks, NEW j \in 1 .. i, WholeTo(j),
                        IsRecord(j, "tables", t)
                 PROVE  t \in m.filled
      BY DEF FilledAll
    <3>1. i \in Nat
      BY DEF Typed
    <3>2. j \in 1 .. i - 1
      BY <1>1, <3>1
    <3> QED  BY <3>2 DEF ReadOk, FilledAll
  <2> QED  BY <1>1, <2>1, <2>2 DEF ReadOk, InStep
<1> QED  BY <1>2, <1>3

(* What stays in step behind a record that is read.                        *)
LEMMA StillInStep ==
  ASSUME Typed, LogInv, NEW i \in 1 .. committed,
         NEW resume \in [ShortCovers -> 1 .. committed + 1],
         NEW m, ReadOk(m, i - 1, resume), WholeTo(i)
  PROVE  /\ m.on /\ log[i].whole /\ i \in DOMAIN log /\ RecordOk(i)
         /\ \A t \in Tracks : \A j \in 1 .. i : IsRecord(j, "trak", t) /\ j # i => Known(m, t)
         /\ \A t \in DOMAIN m.types : \A j \in 1 .. i :
              /\ IsRecord(j, "stsd", t) /\ j # i
              /\ \A l \in j + 1 .. i : ~IsRecord(l, "stsd", t)
              => m.config[t] = ReadConfig(types[t], log[j].body)
<1>1. WholeTo(i - 1) /\ log[i].whole
  BY WholeBefore
<1>2. i \in Nat /\ i \in DOMAIN log
  BY DEF Typed
<1>3. RecordOk(i)
  BY <1>2 DEF LogInv
<1>4. /\ m.on
      /\ \A t \in Tracks : \A j \in 1 .. i - 1 : IsRecord(j, "trak", t) => Known(m, t)
      /\ \A t \in DOMAIN m.types : \A j \in 1 .. i - 1 :
           IsRecord(j, "stsd", t) /\ (\A l \in j + 1 .. i - 1 : ~IsRecord(l, "stsd", t)) =>
             m.config[t] = ReadConfig(types[t], log[j].body)
  BY <1>1 DEF ReadOk, InStep
<1>5. \A j \in 1 .. i : j # i => j \in 1 .. i - 1
  BY <1>2
<1>6. \A j \in 1 .. i : \A l \in j + 1 .. i - 1 : l \in j + 1 .. i
  BY <1>2
<1> QED  BY <1>1, <1>2, <1>3, <1>4, <1>5, <1>6

(* Tracks filled so far, those of record i aside.                          *)
LEMMA StillFilled ==
  ASSUME Typed, NEW i \in 1 .. committed,
         NEW resume \in [ShortCovers -> 1 .. committed + 1],
         NEW m, ReadOk(m, i - 1, resume), NEW d, m.filled \subseteq d.filled,
         \A t \in Tracks : WholeTo(i) /\ IsRecord(i, "tables", t) => t \in d.filled
  PROVE  FilledAll(d, i)
<1>1. i \in Nat
  BY DEF Typed
<1> SUFFICES ASSUME NEW t \in Tracks, NEW j \in 1 .. i, WholeTo(j),
                    IsRecord(j, "tables", t)
             PROVE  t \in d.filled
  BY DEF FilledAll
<1>2. CASE j = i
  BY <1>2
<1>3. CASE j # i
  <2>1. j \in 1 .. i - 1
    BY <1>1, <1>3
  <2> QED  BY <2>1 DEF ReadOk, FilledAll
<1> QED  BY <1>2, <1>3

(* The reader behind the record of a cover.                                *)
LEMMA CovrOk ==
  ASSUME Typed, LogInv, NEW i \in 1 .. committed,
         NEW resume \in [ShortCovers -> 1 .. committed + 1],
         NEW m, ReadOk(m, i - 1, resume), m.on, log[i].kind = "covr"
  PROVE  ReadOk(ReadRecord(m, log[i]), i, resume)
<1>1. ReadRecord(m, log[i]) = m
  BY DEF ReadRecord
<1>2. \A t : ~IsRecord(i, "stsd", t) /\ ~IsRecord(i, "tables", t) /\ ~IsRecord(i, "trak", t)
  BY DEF IsRecord, IsIn
<1>3. KnownOk(m, i, resume)
  BY <1>2, KnownNow DEF KnownOk
<1>4. FilledAll(m, i)
  BY <1>2, StillFilled
<1>5. InStep(m, i)
  <2> SUFFICES ASSUME WholeTo(i)
               PROVE  /\ m.on
                      /\ \A t \in Tracks : \A j \in 1 .. i :
                           IsRecord(j, "trak", t) => Known(m, t)
                      /\ \A t \in DOMAIN m.types : \A j \in 1 .. i :
                           /\ IsRecord(j, "stsd", t)
                           /\ \A l \in j + 1 .. i : ~IsRecord(l, "stsd", t)
                           => m.config[t] = ReadConfig(types[t], log[j].body)
    BY DEF InStep
  <2> QED  BY <1>2, StillInStep
<1> QED  BY <1>1, <1>3, <1>4, <1>5 DEF ReadOk

(* Behind that of a config.                                                *)
LEMMA StsdOk ==
  ASSUME Typed, LogInv, NEW i \in 1 .. committed,
         NEW resume \in [ShortCovers -> 1 .. committed + 1],
         NEW m, ReadOk(m, i - 1, resume), m.on, log[i].kind = "stsd"
  PROVE  ReadOk(ReadRecord(m, log[i]), i, resume)
<1> DEFINE r == log[i]
           t == r.track
<1>1. i \in Nat /\ i \in DOMAIN log
  BY DEF Typed
<1>2. RecordOk(i)
  BY <1>1 DEF LogInv
<1>3. /\ t \in Tracks /\ IsRecord(i - 1, "trak", t)
      /\ \E k \in DOMAIN logged[t] :
           /\ r.body = Logged(types[t], logged[t][k])
           /\ r.whole => Loggable(types[t], logged[t][k])
  BY <1>2 DEF RecordOk
<1>4. \A u : /\ ~IsRecord(i, "tables", u) /\ ~IsRecord(i, "trak", u)
             /\ IsRecord(i, "stsd", u) => u = t
  BY DEF IsRecord, IsIn
<1>5. ReaderOk(m) /\ FilledOk(m)
  BY DEF ReadOk
<1>6. CASE r.whole /\ Known(m, t)
  <2> DEFINE c == ReadConfig(m.types[t], r.body)
             d == [m EXCEPT !.config[t] = c]
  <2>1. ReadRecord(m, r) = d
    BY <1>6 DEF ReadRecord
  <2>2. t \in DOMAIN m.types /\ m.types[t] = types[t]
    BY <1>6, KnownNow DEF Known
  <2>3. PICK k \in DOMAIN logged[t] : r.body = Logged(types[t], logged[t][k])
                                      /\ Loggable(types[t], logged[t][k])
    BY <1>3, <1>6
  <2>4. c = ReadConfig(types[t], Logged(types[t], logged[t][k]))
        /\ c = ReadConfig(types[t], r.body)
    BY <2>2, <2>3
  <2>5. types[t] \in Types /\ logged[t][k] \in StatesOf(types[t])
    BY <1>3 DEF Typed, Tracks, LogInv
  <2>6. c \in StatesOf(types[t]) /\ c \in States
    BY <2>3, <2>4, <2>5, LoggedIsRead, StatesByType
  <2> HIDE DEF c
  <2>7. /\ m \in Readers /\ Len(m.config) = Len(m.types) /\ m.types \in Seq(Types)
        /\ m.config \in Seq(States)
    BY <1>5 DEF ReaderOk, Readers
  <2> DEFINE cs == [m.config EXCEPT ![t] = c]
  <2>8. /\ cs \in Seq(States) /\ Len(cs) = Len(m.types) /\ cs[t] = c
        /\ \A u \in DOMAIN m.types : u # t => cs[u] = m.config[u]
    BY <2>2, <2>6, <2>7
  <2>9. /\ d \in Readers /\ d.types = m.types /\ d.config = cs /\ d.filled = m.filled
        /\ d.refs = m.refs /\ d.on = m.on
    <3>1. d = [m EXCEPT !.config = cs]
      OBVIOUS
    <3> HIDE DEF d, cs
    <3> QED  BY <2>7, <2>8, <3>1 DEF Readers
  <2> HIDE DEF d, cs
  <2>10. ReaderOk(d)
    BY <1>5, <2>2, <2>6, <2>8, <2>9 DEF ReaderOk
  <2>11. Got(d, t)
    BY <2>3, <2>4, <2>8, <2>9 DEF Got
  <2>12. \A u \in DOMAIN m.types : u # t /\ Got(m, u) => Got(d, u)
    BY <2>8, <2>9 DEF Got
  <2>13. KnownOk(d, i, resume)
    BY <1>4, <2>9, <2>11, <2>12, KnownNow DEF KnownOk
  <2>14. FilledOk(d)
    BY <1>5, <2>2, <2>9, <2>11, <2>12 DEF FilledOk, ReaderOk
  <2>15. FilledAll(d, i)
    BY <1>4, <2>9, StillFilled
  <2>16. InStep(d, i)
    <3> SUFFICES ASSUME WholeTo(i)
                 PROVE  /\ d.on
                        /\ \A u \in Tracks : \A j \in 1 .. i :
                             IsRecord(j, "trak", u) => Known(d, u)
                        /\ \A u \in DOMAIN d.types : \A j \in 1 .. i :
                             /\ IsRecord(j, "stsd", u)
                             /\ \A l \in j + 1 .. i : ~IsRecord(l, "stsd", u)
                             => d.config[u] = ReadConfig(types[u], log[j].body)
      BY DEF InStep
    <3>1. \A u \in Tracks : \A j \in 1 .. i : IsRecord(j, "trak", u) => Known(d, u)
      BY <1>4, <2>9, StillInStep DEF Known
    <3>2. ASSUME NEW u \in DOMAIN d.types, NEW j \in 1 .. i, IsRecord(j, "stsd", u),
                 \A l \in j + 1 .. i : ~IsRecord(l, "stsd", u)
          PROVE  d.config[u] = ReadConfig(types[u], log[j].body)
      <4>1. CASE j = i
        BY <1>4, <2>4, <2>8, <2>9, <3>2, <4>1
      <4>2. CASE j # i
        <5>1. i \in j + 1 .. i /\ IsRecord(i, "stsd", t)
          BY <1>1, <4>2 DEF IsRecord, IsIn
        <5>2. u # t
          BY <3>2, <5>1
        <5>3. m.config[u] = ReadConfig(types[u], log[j].body)
          BY <2>9, <3>2, <4>2, StillInStep
        <5> QED  BY <2>8, <2>9, <5>2, <5>3
      <4> QED  BY <4>1, <4>2
    <3>3. d.on
      BY <2>9
    <3> QED  BY <3>1, <3>2, <3>3
  <2> QED  BY <2>1, <2>10, <2>13, <2>14, <2>15, <2>16 DEF ReadOk
<1>7. CASE ~(r.whole /\ Known(m, t))
  <2>1. ReadRecord(m, r) = Stopped(m)
    BY <1>7 DEF ReadRecord
  <2>2. ~WholeTo(i)
    <3> SUFFICES ASSUME WholeTo(i) PROVE FALSE
      OBVIOUS
    <3>1. r.whole
      BY WholeBefore
    <3>2. i - 1 \in 1 .. i /\ i - 1 # i
      BY <1>1, <1>3 DEF IsRecord, IsIn, Typed
    <3>3. Known(m, t)
      BY <1>3, <3>2, StillInStep
    <3> QED  BY <1>7, <3>1, <3>3
  <2>3. ReaderOk(Stopped(m)) /\ FilledOk(Stopped(m)) /\ ~Stopped(m).on
    BY <1>5, StoppedOk
  <2>4. m.filled \subseteq Stopped(m).filled
    BY <1>5, StoppedIs DEF ReaderOk
  <2> QED  BY <2>1, <2>2, <2>3, <2>4, OffOk
<1> QED  BY <1>6, <1>7

(* Behind that of samples.                                                 *)
LEMMA TablesOk ==
  ASSUME Typed, LogInv, NEW i \in 1 .. committed,
         NEW resume \in [ShortCovers -> 1 .. committed + 1],
         NEW m, ReadOk(m, i - 1, resume), m.on, log[i].kind = "tables"
  PROVE  ReadOk(ReadRecord(m, log[i]), i, resume)
<1> DEFINE r == log[i]
           t == r.track
<1>1. i \in Nat /\ i \in DOMAIN log
  BY DEF Typed
<1>2. RecordOk(i)
  BY <1>1 DEF LogInv
<1>3. t \in Tracks /\ \E j \in 1 .. i : IsRecord(j, "trak", t)
  BY <1>2 DEF RecordOk
<1>4. \A u : /\ ~IsRecord(i, "stsd", u) /\ ~IsRecord(i, "trak", u)
             /\ IsRecord(i, "tables", u) => u = t
  BY DEF IsRecord, IsIn
<1>5. ReaderOk(m) /\ FilledOk(m) /\ t \in Nat
  BY <1>3 DEF ReadOk, Typed, Tracks
<1>6. CASE Known(m, t)
  <2> DEFINE d == [m EXCEPT !.filled = @ \cup {t}]
  <2>1. ReadRecord(m, r) = d
    BY <1>6 DEF ReadRecord
  <2>2. t \in DOMAIN m.types /\ m.types[t] = types[t] /\ Got(m, t)
    BY <1>4, <1>6, KnownNow DEF Known
  <2>3. m \in Readers
    BY <1>5 DEF ReaderOk
  <2>4. /\ d \in Readers /\ d.types = m.types /\ d.config = m.config
        /\ d.filled = m.filled \cup {t} /\ d.refs = m.refs /\ d.on = m.on
    BY <1>5, <2>3 DEF Readers
  <2> HIDE DEF d
  <2>5. ReaderOk(d)
    BY <1>5, <2>2, <2>4 DEF ReaderOk
  <2>6. \A u : Got(m, u) => Got(d, u)
    BY <2>4 DEF Got
  <2>7. KnownOk(d, i, resume)
    BY <1>4, <2>4, <2>6, KnownNow DEF KnownOk
  <2>8. FilledOk(d)
    BY <1>5, <2>2, <2>4, <2>6 DEF FilledOk
  <2>9. FilledAll(d, i)
    BY <1>4, <2>4, StillFilled
  <2>10. InStep(d, i)
    BY <1>4, <2>4, StillInStep DEF InStep, Known
  <2> QED  BY <2>1, <2>5, <2>7, <2>8, <2>9, <2>10 DEF ReadOk
<1>7. CASE ~Known(m, t)
  <2>1. ReadRecord(m, r) = Stopped(m)
    BY <1>7 DEF ReadRecord
  <2>2. ~WholeTo(i)
    BY <1>3, <1>4, <1>7, StillInStep
  <2>3. ReaderOk(Stopped(m)) /\ FilledOk(Stopped(m)) /\ ~Stopped(m).on
    BY <1>5, StoppedOk
  <2>4. m.filled \subseteq Stopped(m).filled
    BY <1>5, StoppedIs DEF ReaderOk
  <2> QED  BY <2>1, <2>2, <2>3, <2>4, OffOk
<1> QED  BY <1>6, <1>7

(* Behind that of a track, as to its references.                           *)
LEMMA ReferOk ==
  ASSUME NEW m, ReaderOk(m), FilledOk(m), NEW t \in DOMAIN m.types, NEW b \in BOOLEAN
  PROVE  LET d == [m EXCEPT !.refs = IF b THEN @ \cup {t} ELSE @] IN
         /\ ReaderOk(d) /\ FilledOk(d) /\ d.types = m.types /\ d.config = m.config
         /\ d.filled = m.filled /\ d.on = m.on
<1> DEFINE d == [m EXCEPT !.refs = IF b THEN @ \cup {t} ELSE @]
<1>1. m \in Readers
  BY DEF ReaderOk
<1>2. t \in Nat
  BY <1>1 DEF Readers
<1>3. /\ d \in Readers /\ d.types = m.types /\ d.config = m.config
      /\ d.filled = m.filled /\ d.on = m.on /\ d.refs \subseteq m.refs \cup {t}
  BY <1>1, <1>2, ReferIs
<1> HIDE DEF d
<1>4. ReaderOk(d)
  BY <1>3 DEF ReaderOk
<1>5. FilledOk(d)
  BY <1>3 DEF FilledOk, Got
<1> QED  BY <1>3, <1>4, <1>5 DEF d

(* Behind that of a track.                                                 *)
LEMMA TrakOk ==
  ASSUME Typed, LogInv, NEW i \in 1 .. committed,
         NEW resume \in [ShortCovers -> 1 .. committed + 1], ~Swallowed(i, resume),
         NEW m, ReadOk(m, i - 1, resume), m.on, log[i].kind = "trak"
  PROVE  ReadOk(ReadRecord(m, log[i]), i, resume)
<1> DEFINE r == log[i]
           t == r.track
           n == Len(m.types) + 1
           e == [m EXCEPT !.types = Append(@, types[t]),
                          !.config = Append(@, UnsetOf(types[t]))]
           Refer(x) == [x EXCEPT !.refs = IF r.body[2] THEN @ \cup {t} ELSE @]
<1>1. i \in Nat /\ i \in DOMAIN log
  BY DEF Typed
<1>2. RecordOk(i)
  BY <1>1 DEF LogInv
<1>3. /\ t \in Tracks /\ r.body[1] = types[t] /\ r.body[2] \in BOOLEAN
      /\ IsRecord(i, "trak", t)
      /\ \A u \in Tracks : u < t => \E j \in 1 .. i : IsRecord(j, "trak", u)
  BY <1>1, <1>2 DEF RecordOk, IsRecord, IsIn
<1>4. \A u : /\ ~IsRecord(i, "stsd", u) /\ ~IsRecord(i, "tables", u)
             /\ IsRecord(i, "trak", u) => u = t
  BY DEF IsRecord, IsIn
<1>5. ReaderOk(m) /\ FilledOk(m)
  BY DEF ReadOk
<1>6. ReadRecord(m, r) = ReadTrack(m, t, r.body)
  BY DEF ReadRecord
<1>7. ASSUME Known(m, t) PROVE ReadOk(ReadRecord(m, r), i, resume)
  <2> DEFINE d == Refer(m)
  <2>1. ReadRecord(m, r) = d
    BY <1>6, <1>7 DEF ReadTrack
  <2>2. /\ ReaderOk(d) /\ FilledOk(d) /\ d.types = m.types /\ d.config = m.config
        /\ d.filled = m.filled /\ d.on = m.on
    BY <1>3, <1>5, <1>7, ReferOk DEF Known
  <2> HIDE DEF d
  <2>3. \A u : Got(m, u) => Got(d, u)
    BY <2>2 DEF Got
  <2>4. KnownOk(d, i, resume)
    BY <1>4, <2>2, <2>3, KnownNow DEF KnownOk
  <2>5. FilledAll(d, i)
    BY <1>4, <2>2, StillFilled
  <2>6. InStep(d, i)
    BY <1>4, <1>7, <2>2, StillInStep DEF InStep, Known
  <2> QED  BY <2>1, <2>2, <2>4, <2>5, <2>6 DEF ReadOk
<1>8. ASSUME ~Known(m, t)
      PROVE  /\ ReaderOk(e) /\ FilledOk(e) /\ e \in Readers /\ e.on = m.on
             /\ e.filled = m.filled /\ n \in Nat
             /\ DOMAIN e.types = DOMAIN m.types \cup {n} /\ n \notin DOMAIN m.types
             /\ e.types[n] = types[t]
             /\ \A u \in DOMAIN m.types :
                  e.types[u] = m.types[u] /\ e.config[u] = m.config[u]
             /\ DOMAIN m.types = 1 .. n - 1
  BY <1>3, <1>5, <1>8, AddedOk
<1> HIDE DEF e
<1>9. ASSUME ~Known(m, t)
      PROVE  ReadRecord(m, r) = IF Known(e, t) THEN Refer(e) ELSE Stopped(e)
  BY <1>3, <1>6, <1>9 DEF ReadTrack, e
<1>10. ASSUME ~Known(m, t), t = n PROVE ReadOk(ReadRecord(m, r), i, resume)
  <2> DEFINE d == Refer(e)
  <2>1. Known(e, t) /\ t \in DOMAIN e.types
    BY <1>8, <1>10 DEF Known
  <2>2. ReadRecord(m, r) = d
    BY <1>9, <1>10, <2>1
  <2>3. /\ ReaderOk(d) /\ FilledOk(d) /\ d.types = e.types /\ d.config = e.config
        /\ d.filled = e.filled /\ d.on = e.on
    BY <1>3, <1>8, <1>10, <2>1, ReferOk
  <2> HIDE DEF d
  <2>4. \A u \in DOMAIN m.types : /\ d.types[u] = m.types[u] /\ d.config[u] = m.config[u]
                                  /\ Got(m, u) => Got(d, u)
    BY <1>8, <1>10, <2>3 DEF Got
  <2>5. DOMAIN d.types = DOMAIN m.types \cup {t} /\ d.types[t] = types[t]
        /\ d.filled = m.filled /\ d.on = m.on
    BY <1>8, <1>10, <2>3
  <2>6. KnownOk(d, i, resume)
    BY <1>3, <1>4, <2>4, <2>5, KnownNow DEF KnownOk
  <2>7. FilledAll(d, i)
    BY <1>4, <2>5, StillFilled
  <2>8. InStep(d, i)
    <3> SUFFICES ASSUME WholeTo(i)
                 PROVE  /\ d.on
                        /\ \A u \in Tracks : \A j \in 1 .. i :
                             IsRecord(j, "trak", u) => Known(d, u)
                        /\ \A u \in DOMAIN d.types : \A j \in 1 .. i :
                             /\ IsRecord(j, "stsd", u)
                             /\ \A l \in j + 1 .. i : ~IsRecord(l, "stsd", u)
                             => d.config[u] = ReadConfig(types[u], log[j].body)
      BY DEF InStep
    <3>1. \A u \in Tracks : \A j \in 1 .. i : IsRecord(j, "trak", u) => Known(d, u)
      BY <1>4, <2>5, StillInStep DEF Known
    <3>2. ASSUME NEW u \in DOMAIN d.types, NEW j \in 1 .. i, IsRecord(j, "stsd", u),
                 \A l \in j + 1 .. i : ~IsRecord(l, "stsd", u)
          PROVE  d.config[u] = ReadConfig(types[u], log[j].body)
      <4>1. j # i
        BY <1>4, <3>2
      <4>2. CASE u \in DOMAIN m.types
        BY <2>4, <3>2, <4>1, <4>2, StillInStep
      <4>3. CASE u = t
        <5>1. j \in DOMAIN log /\ log[j].kind = "stsd" /\ log[j].track = t
          BY <3>2, <4>3 DEF IsRecord, IsIn
        <5>2. RecordOk(j)
          BY <5>1 DEF LogInv
        <5>3. IsRecord(j - 1, "trak", t)
          BY <5>1, <5>2 DEF RecordOk
        <5>4. j - 1 \in 1 .. i /\ j - 1 # i
          <6>1. j - 1 \in DOMAIN log
            BY <5>3 DEF IsRecord, IsIn
          <6> QED  BY <1>1, <6>1 DEF Typed
        <5>5. Known(m, t)
          BY <1>3, <5>3, <5>4, StillInStep
        <5> QED  BY <1>10, <5>5
      <4> QED  BY <2>5, <4>2, <4>3
    <3>3. d.on
      BY <2>5
    <3> QED  BY <3>1, <3>2, <3>3
  <2> QED  BY <2>2, <2>3, <2>6, <2>7, <2>8 DEF ReadOk
<1>11. ASSUME ~Known(m, t), t # n PROVE ReadOk(ReadRecord(m, r), i, resume)
  <2>1. ~Known(e, t)
    BY <1>8, <1>11 DEF Known
  <2>2. ReadRecord(m, r) = Stopped(e)
    BY <1>9, <1>11, <2>1
  <2>3. ~WholeTo(i)
    <3> SUFFICES ASSUME WholeTo(i) PROVE FALSE
      OBVIOUS
    <3>1. t \in Nat /\ 1 <= t /\ t <= Len(types) /\ Tracks = 1 .. Len(types)
      BY <1>3 DEF Typed, Tracks
    <3>2. n \in Nat /\ n >= 1 /\ t \notin 1 .. n - 1
      BY <1>5, <1>8, <1>11 DEF Known, ReaderOk, Readers
    <3> HIDE DEF n, t
    <3>3. n < t /\ n \in Tracks
      BY <1>11, <3>1, <3>2
    <3>4. PICK j \in 1 .. i : IsRecord(j, "trak", n)
      BY <1>3, <3>3
    <3>5. j # i
      BY <1>4, <1>11, <3>4
    <3>6. Known(m, n)
      BY <3>3, <3>4, <3>5, StillInStep
    <3> QED  BY <1>8, <1>11, <3>6 DEF Known
  <2>4. ReaderOk(Stopped(e)) /\ FilledOk(Stopped(e)) /\ ~Stopped(e).on
    BY <1>8, <1>11, StoppedOk
  <2>5. m.filled \subseteq Stopped(e).filled
    BY <1>8, <1>11, StoppedIs
  <2> QED  BY <2>2, <2>3, <2>4, <2>5, OffOk
<1> QED  BY <1>7, <1>10, <1>11

(* Behind the next record, whatever it is.                                 *)
LEMMA ReadNextOk ==
  ASSUME Typed, LogInv, NEW i \in 1 .. committed,
         NEW resume \in [ShortCovers -> 1 .. committed + 1],
         NEW m, ReadOk(m, i - 1, resume)
  PROVE  ReadOk(ReadNext(m, i, resume), i, resume)
<1>1. CASE Swallowed(i, resume)
  BY <1>1, SwallowedOk DEF ReadNext
<1>2. CASE ~Swallowed(i, resume) /\ ~m.on
  <2>1. ReadNext(m, i, resume) = m
    BY <1>2 DEF ReadNext, ReadRecord
  <2>2. ~WholeTo(i)
    BY <1>2, StillInStep
  <2>3. ReaderOk(m) /\ FilledOk(m)
    BY DEF ReadOk
  <2> QED  BY <1>2, <2>1, <2>2, <2>3, OffOk
<1>3. CASE ~Swallowed(i, resume) /\ m.on
  <2>1. ReadNext(m, i, resume) = ReadRecord(m, log[i])
    BY <1>3 DEF ReadNext
  <2>2. log[i].kind \in {"trak", "stsd", "tables", "covr"}
    <3>1. log[i] \in Records
      BY DEF Typed
    <3> QED  BY <3>1 DEF Records
  <2> QED  BY <1>3, <2>1, <2>2, TrakOk, StsdOk, TablesOk, CovrOk
<1> QED  BY <1>1, <1>2, <1>3

(* Before the first record.                                                *)
LEMMA NewReaderOk ==
  ASSUME Typed, LogInv, NEW resume
  PROVE  ReadOk(NewReader, 0, resume)
<1>1. NewReader = [types |-> <<>>, config |-> <<>>, filled |-> {}, refs |-> {}, on |-> TRUE]
  BY DEF NewReader
<1>2. /\ NewReader \in Readers /\ DOMAIN NewReader.types = {} /\ Len(NewReader.types) = 0
      /\ Len(NewReader.config) = 0 /\ NewReader.filled = {} /\ NewReader.refs = {}
      /\ NewReader.on
  BY <1>1 DEF Readers
<1>3. Len(types) \in Nat
  BY DEF Typed
<1>4. \A j : j \notin 1 .. 0
  OBVIOUS
<1>5. ReaderOk(NewReader) /\ FilledOk(NewReader)
  BY <1>2, <1>3 DEF ReaderOk, FilledOk
<1>6. KnownOk(NewReader, 0, resume) /\ FilledAll(NewReader, 0) /\ InStep(NewReader, 0)
  BY <1>2, <1>4 DEF KnownOk, FilledAll, InStep
<1> QED  BY <1>5, <1>6 DEF ReadOk

(* What the recovery makes of the log.                                     *)
LEMMA ReplayedOk ==
  ASSUME Typed, LogInv, NEW resume \in [ShortCovers -> 1 .. committed + 1]
  PROVE  ReadOk(Replayed(resume), committed, resume)
<1> DEFINE n == committed
           S == Readers
           step == [p \in S \X (1 .. n) |-> IF ReadNext(p[1], p[2], resume) \in S
                                             THEN ReadNext(p[1], p[2], resume) ELSE p[1]]
           Read(g) == [i \in 0 .. n |->
             IF i = 0 THEN NewReader
             ELSE IF Swallowed(i, resume) THEN g[i - 1] ELSE ReadRecord(g[i - 1], log[i])]
           R == CHOOSE g : g = Read(g)
<1>1. n \in Nat
  BY DEF Typed
<1>2. NewReader \in S /\ ReadOk(NewReader, 0, resume)
  BY NewReaderOk DEF ReadOk, ReaderOk
<1>3. step \in [S \X (1 .. n) -> S]
  OBVIOUS
<1>4. \A m \in S : \A i \in 1 .. n :
        ReadNext(m, i, resume) \in S => step[<<m, i>>] = ReadNext(m, i, resume)
  OBVIOUS
<1> HIDE DEF step
<1>5. PICK f : Follows(f, S, n, NewReader, step)
  <2> HIDE DEF S, n
  <2> QED  BY <1>1, <1>2, <1>3, Recursion
<1>6. f \in [0 .. n -> S] /\ f[0] = NewReader /\ \A i \in 1 .. n : f[i] = step[<<f[i - 1], i>>]
  BY <1>5 DEF Follows
<1>7. ASSUME NEW i \in 1 .. n, NEW m, ReadOk(m, i - 1, resume)
      PROVE  ReadOk(ReadNext(m, i, resume), i, resume) /\ ReadNext(m, i, resume) \in S
  <2>1. ReadOk(ReadNext(m, i, resume), i, resume)
    BY <1>7, ReadNextOk
  <2> QED  BY <2>1 DEF ReadOk, ReaderOk
<1> DEFINE P == {i \in 0 .. n : ReadOk(f[i], i, resume)}
<1>8. 0 \in P
  BY <1>1, <1>2, <1>6
<1>9. ASSUME NEW i \in 1 .. n, i - 1 \in P
      PROVE  i \in P /\ f[i] = ReadNext(f[i - 1], i, resume)
  <2>1. ReadOk(f[i - 1], i - 1, resume) /\ f[i - 1] \in S
    BY <1>6, <1>9
  <2>2. ReadOk(ReadNext(f[i - 1], i, resume), i, resume)
        /\ ReadNext(f[i - 1], i, resume) \in S
    BY <1>7, <2>1
  <2>3. f[i] = ReadNext(f[i - 1], i, resume)
    BY <1>4, <1>6, <2>1, <2>2
  <2>4. i \in 0 .. n
    BY <1>1
  <2> QED  BY <2>2, <2>3, <2>4
<1>10. \A i \in 0 .. n : i \in P
  <2> HIDE DEF P
  <2> QED  BY <1>1, <1>8, <1>9, Induction
<1>11. f = Read(f)
  <2>1. ASSUME NEW i \in 0 .. n
        PROVE  f[i] = IF i = 0 THEN NewReader
                      ELSE IF Swallowed(i, resume) THEN f[i - 1]
                      ELSE ReadRecord(f[i - 1], log[i])
    <3>1. CASE i = 0
      BY <1>6, <3>1
    <3>2. CASE i # 0
      <4>1. i \in 1 .. n /\ i - 1 \in 0 .. n
        BY <1>1, <3>2
      <4>2. f[i] = ReadNext(f[i - 1], i, resume)
        BY <1>9, <1>10, <4>1
      <4> QED  BY <3>2, <4>2 DEF ReadNext
    <3> QED  BY <3>1, <3>2
  <2> QED  BY <1>6, <2>1
<1>12. R = Read(R)
  <2> HIDE DEF Read
  <2> QED  BY <1>11
<1>13. Replayed(resume) = R[n]
  BY DEF Replayed
<1> HIDE DEF R
<1> DEFINE Q == {i \in 0 .. n : ReadOk(R[i], i, resume)}
<1>14. 0 \in Q
  <2>1. 0 \in 0 .. n
    BY <1>1
  <2>2. R[0] = NewReader
    BY <1>12, <2>1
  <2> QED  BY <1>2, <2>1, <2>2
<1>15. ASSUME NEW i \in 1 .. n, i - 1 \in Q PROVE i \in Q
  <2>1. i \in 0 .. n /\ i # 0
    BY <1>1
  <2>2. R[i] = ReadNext(R[i - 1], i, resume)
    BY <1>12, <2>1 DEF ReadNext
  <2>3. ReadOk(R[i - 1], i - 1, resume)
    BY <1>15
  <2>4. ReadOk(R[i], i, resume)
    BY <1>7, <2>2, <2>3
  <2> QED  BY <2>1, <2>4
<1>16. \A i \in 0 .. n : i \in Q
  <2> HIDE DEF Q
  <2> QED  BY <1>1, <1>14, <1>15, Induction
<1>17. n \in 0 .. n
  BY <1>1
<1>18. n \in Q
  BY <1>16, <1>17
<1> QED  BY <1>13, <1>18

(* The recovery, wherever the reader gets in step again, and its close.    *)
LEMMA RecoverInv == ASSUME Inv, Recover PROVE Inv'
<1>1. /\ Typed /\ LogInv /\ ~recovered /\ made = 0 /\ file = NoTracks /\ shown = NoTracks
  BY DEF Recover, Inv, StageInv
<1>2. PICK resume \in [ShortCovers -> 1 .. committed + 1] :
        LET m == Replayed(resume) IN
        /\ types' = m.types
        /\ mux' = [config |-> m.config, filled |-> m.filled, refs |-> m.refs]
        /\ CloseOf(m, m.types)
  BY DEF Recover
<1> DEFINE m == Replayed(resume)
<1>3. /\ types' = m.types /\ mux'.config = m.config /\ mux'.filled = m.filled
      /\ mux'.refs = m.refs
      /\ mux' = [config |-> m.config, filled |-> m.filled, refs |-> m.refs]
      /\ CloseOf(m, m.types)
  BY <1>2
<1>4. /\ recovered' /\ recovered' \in BOOLEAN
      /\ UNCHANGED <<cover, written, thumb, log, committed, logged, acked, spoiled, shown>>
  BY DEF Recover, logVars
<1>5. ReadOk(m, committed, resume)
  BY <1>1, <1>2, ReplayedOk
<1> HIDE DEF m
<1>6. /\ ReaderOk(m) /\ FilledOk(m) /\ FilledAll(m, committed) /\ InStep(m, committed)
  BY <1>5 DEF ReadOk
<1>7. /\ m \in Readers /\ Len(m.types) <= Len(types) /\ Len(m.config) = Len(m.types)
      /\ m.filled \subseteq DOMAIN m.types /\ m.refs \subseteq DOMAIN m.types
      /\ \A t \in DOMAIN m.types : m.config[t] \in StatesOf(m.types[t])
  BY <1>6 DEF ReaderOk
<1>8. /\ m.types \in Seq(Types) /\ m.config \in Seq(States)
      /\ DOMAIN m.config = DOMAIN m.types /\ DOMAIN m.types \subseteq Tracks
      /\ m.config \in [DOMAIN m.types -> States]
  BY <1>1, <1>7 DEF Readers, Typed, Tracks
<1>9. Tracks' = DOMAIN m.types /\ Tracks' \subseteq Tracks
  BY <1>3, <1>8 DEF Tracks
<1>10. MuxTyped'
  <2>1. mux' \in [config : [DOMAIN m.types -> States], filled : SUBSET DOMAIN m.types,
                  refs : SUBSET DOMAIN m.types]
    BY <1>3, <1>7, <1>8
  <2>2. \A t \in DOMAIN m.types : mux'.config[t] \in StatesOf(types'[t])
    BY <1>3, <1>7
  <2> QED  BY <1>9, <2>1, <2>2 DEF MuxTyped
<1>11. CloseOf(mux', types')
  <2>1. /\ FileOf(m, m.types) = FileOf(mux', types')
        /\ Unwritten(m, m.types) <=> Unwritten(mux', types')
    BY <1>3 DEF FileOf, Entries, Unwritten
  <2> QED  BY <1>3, <2>1 DEF CloseOf
<1>12. /\ StageInv' /\ made' \in 0 .. MaxFiles /\ phase' \in Phases
       /\ phase' = "failed" => Unwritten(mux, types)'
  BY <1>1, <1>4, <1>11, FirstClose
<1>13. Typed'
  BY <1>1, <1>3, <1>4, <1>8, <1>9, <1>10, <1>12 DEF Typed
<1>14. ASSUME NEW t \in mux'.filled PROVE FromLog(t)'
  <2>1. t \in m.filled /\ t \in DOMAIN m.types /\ t \in Tracks
    BY <1>3, <1>7, <1>8, <1>14
  <2>2. m.types[t] = types[t] /\ Got(m, t)
    BY <1>6, <2>1 DEF FilledOk
  <2>3. PICK k \in DOMAIN logged[t] :
          /\ Loggable(types[t], logged[t][k])
          /\ m.config[t] = ReadConfig(types[t], Logged(types[t], logged[t][k]))
    BY <2>2 DEF Got
  <2>4. t \in DOMAIN logged /\ \A j \in DOMAIN logged[t] : logged[t][j] \in StatesOf(types[t])
    BY <1>1, <2>1 DEF LogInv
  <2>5. logged' = logged /\ types'[t] = types[t] /\ mux'.config[t] = m.config[t]
        /\ spoiled' = spoiled
    BY <1>3, <1>4, <2>2
  <2>6. CASE spoiled
    BY <2>3, <2>4, <2>5, <2>6 DEF FromLog
  <2>7. CASE ~spoiled
    <3> DEFINE n == Len(logged[t])
    <3>1. committed = Len(log) /\ \A j \in DOMAIN log : log[j].whole
      BY <1>1, <2>7 DEF LogInv
    <3>2. WholeTo(committed) /\ DOMAIN log = 1 .. committed /\ committed \in Nat
      BY <1>1, <3>1 DEF WholeTo, Typed
    <3>3. logged[t] # <<>> /\ n \in DOMAIN logged[t]
      <4>1. logged[t] \in Seq(States)
        BY <1>1, <2>4 DEF Typed
      <4> QED  BY <2>3, <4>1
    <3>4. LastLogged(t)
      BY <1>1, <2>1, <3>3 DEF LogInv
    <3>5. PICK i \in DOMAIN log :
            /\ IsRecord(i, "stsd", t)
            /\ log[i].body = Logged(types[t], logged[t][n])
            /\ log[i].whole => Loggable(types[t], logged[t][n])
            /\ \A j \in DOMAIN log : j > i => ~IsRecord(j, "stsd", t)
      BY <3>4 DEF LastLogged
    <3>6. i \in 1 .. committed /\ \A l \in i + 1 .. committed : ~IsRecord(l, "stsd", t)
      BY <3>2, <3>5
    <3>7. m.config[t] = ReadConfig(types[t], log[i].body)
      BY <1>6, <2>1, <3>2, <3>5, <3>6 DEF InStep
    <3>8. /\ Loggable(types[t], logged[t][n])
          /\ m.config[t] = ReadConfig(types[t], Logged(types[t], logged[t][n]))
      BY <3>1, <3>5, <3>7
    <3> QED  BY <2>4, <2>5, <3>3, <3>8 DEF FromLog
  <2> QED  BY <2>6, <2>7
<1>15. acked' \subseteq mux'.filled
  <2> SUFFICES ASSUME NEW t \in acked PROVE t \in m.filled
    BY <1>3, <1>4
  <2>1. PICK i \in 1 .. committed :
          IsRecord(i, "tables", t) /\ \A j \in 1 .. i : log[j].whole
    BY <1>1 DEF LogInv, AckedWhole
  <2>2. t \in Tracks
    <3>1. i \in DOMAIN log /\ log[i].kind = "tables" /\ log[i].track = t
      BY <2>1 DEF IsRecord, IsIn
    <3>2. RecordOk(i)
      BY <1>1, <3>1 DEF LogInv
    <3> QED  BY <3>1, <3>2 DEF RecordOk
  <2>3. WholeTo(i)
    BY <2>1 DEF WholeTo
  <2> QED  BY <1>6, <2>1, <2>2, <2>3 DEF FilledAll
<1>16. RecInv'
  BY <1>12, <1>14, <1>15 DEF RecInv
<1> QED  BY <1>4, <1>12, <1>13, <1>16 DEF Inv

-----------------------------------------------------------------------------
(* Every step.                                                             *)

(* Every step keeps the invariant.                                         *)
LEMMA NextInv == ASSUME Inv, [Next]_vars PROVE Inv'
<1>1. CASE Next
  <2>1. ASSUME NEW t \in Tracks,
               \/ \E c \in VideoConfigs : SetVideo(t, c)
               \/ \E c \in AudioConfigs : SetAudio(t, c)
               \/ \E c \in MimeTypes : SetMime(t, c)
               \/ AddRef(t)
               \/ AddSample(t)
        PROVE  Inv'
    BY <2>1, SetVideoInv, SetAudioInv, SetMimeInv, AddRefInv, AddSampleInv
  <2>2. CASE SetCover \/ Sync \/ Crash \/ Close \/ Recover \/ Open \/ Copy
    BY <2>2, SetCoverInv, SyncInv, CrashInv, CloseInv, RecoverInv, OpenInv, CopyInv
  <2> QED  BY <1>1, <2>1, <2>2 DEF Next
<1>2. CASE UNCHANGED vars
  <2>1. UNCHANGED <<phase, types, mux, cover, written, thumb, log, committed, recovered,
                    file, shown, made, logged, acked, spoiled>>
    BY <1>2 DEF vars
  <2>2. Typed'
    BY <2>1 DEF Inv, Typed, MuxTyped, Tracks
  <2>3. StageInv'
    <3>1. Opened' = Opened /\ Copied' = Copied /\ Tracks' = Tracks
      BY <2>1 DEF Opened, Copied, Tracks
    <3>2. StageInv
      BY DEF Inv
    <3>3. (\A t \in DOMAIN shown :
             t \in Tracks /\ Passed(types[t], shown[t]) /\ Rest(types[t], shown[t]))'
      <4>1. \A t \in DOMAIN shown :
              t \in Tracks /\ Passed(types[t], shown[t]) /\ Rest(types[t], shown[t])
        BY <3>2 DEF StageInv
      <4>2. Opened' = Opened
        BY <3>1
      <4> QED  BY <2>1, <4>1, <4>2 DEF Rest, Tracks
    <3>4. (phase = "closed" /\ made >= 2 =>
             /\ shown = [t \in DOMAIN shown |-> shown[t]]
             /\ mux.filled = Copied
             /\ \A t \in mux.filled : mux.config[t] = Settings(types[t], shown[t]))'
      <4>1. phase = "closed" /\ made >= 2 =>
              /\ shown = [t \in DOMAIN shown |-> shown[t]]
              /\ mux.filled = Copied
              /\ \A t \in mux.filled : mux.config[t] = Settings(types[t], shown[t])
        BY <3>2 DEF StageInv
      <4>2. Copied' = Copied
        BY <3>1
      <4> QED  BY <2>1, <4>1, <4>2
    <3>5. (phase = "open" => shown = [t \in DOMAIN file |-> Shown(types[t], file[t])])'
      BY <2>1, <3>2 DEF StageInv
    <3>6. (/\ phase \in {"recording", "dead"} => ~recovered
           /\ phase \in {"recording", "dead", "failed"} =>
                made = 0 /\ file = NoTracks /\ shown = NoTracks
           /\ phase = "closed" /\ made = 1 => shown = NoTracks)'
      BY <2>1, <3>2 DEF StageInv, NoTracks
    <3>7. (phase \in {"closed", "open"} => made >= 1 /\ file = FileOf(mux, types))'
      <4>1. phase \in {"closed", "open"} => made >= 1 /\ file = FileOf(mux, types)
        BY <3>2 DEF StageInv
      <4> QED  BY <2>1, <4>1
    <3>8. (phase \in {"closed", "open"} /\ made >= 2 => ~Unwritten(mux, types))'
      <4>1. phase \in {"closed", "open"} /\ made >= 2 => ~Unwritten(mux, types)
        BY <3>2 DEF StageInv
      <4> QED  BY <2>1, <4>1
    <3>9. (phase \in {"closed", "open"} /\ Opened >= 2 => Copied = DOMAIN shown)'
      <4>1. phase \in {"closed", "open"} /\ Opened >= 2 => Copied = DOMAIN shown
        BY <3>2 DEF StageInv
      <4>2. Opened' = Opened /\ Copied' = Copied
        BY <3>1
      <4> QED  BY <2>1, <4>1, <4>2
    <3> QED  BY <3>3, <3>4, <3>5, <3>6, <3>7, <3>8, <3>9 DEF StageInv
  <2>4. ~recovered => LogInv'
    BY <2>1, LogKept DEF Inv
  <2>5. recovered /\ made < 2 => RecInv'
    BY <2>1 DEF Inv, RecInv, FromLog, Unwritten
  <2> QED  BY <2>1, <2>2, <2>3, <2>4, <2>5 DEF Inv
<1> QED  BY <1>1, <1>2

(* The invariant holds in every reachable state.                           *)
THEOREM Invariance == Spec => []Inv
<1>1. Init => Inv
  BY InitInv
<1>2. Inv /\ [Next]_vars => Inv'
  BY NextInv
<1> QED  BY <1>1, <1>2, PTL DEF Spec

(* The types are a part of the invariant.                                  *)
LEMMA TypeOKHolds == ASSUME Inv PROVE TypeOK
<1>1. Typed /\ StageInv /\ MuxTyped
  BY DEF Inv, Typed
<1>2. DOMAIN mux.config = Tracks /\ mux.filled \subseteq Tracks /\ mux.refs \subseteq Tracks
  BY <1>1 DEF MuxTyped
<1>3. DOMAIN shown \subseteq Tracks
  BY <1>1 DEF StageInv
<1>4. DOMAIN file \subseteq Tracks
  <2>1. CASE phase \in {"recording", "dead", "failed"}
    BY <1>1, <2>1, NoTracksEmpty DEF StageInv
  <2>2. CASE phase \in {"closed", "open"}
    <3>1. DOMAIN file \subseteq mux.filled
      BY <1>1, <2>2, FileHolds DEF StageInv
    <3> QED  BY <1>2, <3>1
  <2> QED  BY <1>1, <2>1, <2>2 DEF Typed, Phases
<1> QED  BY <1>1, <1>2, <1>3, <1>4 DEF Typed, Types, TypeOK

(* The variables keep their types.                                         *)
THEOREM TypeCorrect == Spec => []TypeOK
BY Invariance, TypeOKHolds, PTL

-----------------------------------------------------------------------------
(* What files show.                                                        *)

(* What an open file shows, in terms of the muxer that made it.            *)
LEMMA OpenIs ==
  ASSUME Inv, phase = "open"
  PROVE  /\ DOMAIN shown \subseteq mux.filled
         /\ \A t \in DOMAIN shown :
              /\ t \in Tracks /\ types[t] \in Types
              /\ shown[t] = Shown(types[t], Entry(types[t], mux.config[t]))
              /\ mux.config[t] \in StatesOf(types[t])
              /\ ~Unwritable(types[t], mux.config[t])
         /\ IF Unwritten(mux, types) THEN DOMAIN shown = {}
            ELSE DOMAIN shown = mux.filled
<1>1. Typed /\ file = FileOf(mux, types)
      /\ shown = [t \in DOMAIN file |-> Shown(types[t], file[t])]
  BY DEF Inv, StageInv
<1>2. /\ DOMAIN file \subseteq mux.filled
      /\ \A t \in DOMAIN file : /\ file[t] = Entry(types[t], mux.config[t])
                               /\ ~Unwritable(types[t], mux.config[t])
      /\ IF Unwritten(mux, types) THEN DOMAIN file = {} ELSE DOMAIN file = mux.filled
  BY <1>1, FileHolds
<1>5. /\ DOMAIN shown = DOMAIN file
      /\ \A t \in DOMAIN file :
           shown[t] = Shown(types[t], Entry(types[t], mux.config[t]))
  BY <1>1, <1>2
<1>3. mux.filled \subseteq Tracks /\ \A t \in Tracks : mux.config[t] \in StatesOf(types[t])
  BY <1>1 DEF Typed, MuxTyped
<1>4. \A t \in Tracks : types[t] \in Types
  BY <1>1 DEF Typed, Tracks
<1> QED  BY <1>2, <1>3, <1>4, <1>5

(* Only the calls of the recording, the recovery and a copy change what    *)
(* the muxer holds, and the copy makes the second file or a later one.     *)
LEMMA RoomKept ==
  ASSUME UNCHANGED types, RoomInv,
         \A t \in Tracks : types[t] = "video" => mux'.config[t] = mux.config[t]
  PROVE  RoomInv'
BY DEF RoomInv, Tracks

(* A config of another kind leaves those of the videos alone.              *)
LEMMA SetIsOther ==
  ASSUME Typed, RoomInv, NEW t \in Tracks, types[t] # "video", NEW c, Set(t, c)
  PROVE  RoomInv'
<1>1. mux' = [mux EXCEPT !.config[t] = c] /\ types' = types
  BY DEF Set
<1>2. mux \in [config : [Tracks -> States], filled : SUBSET Tracks, refs : SUBSET Tracks]
  BY DEF Typed, MuxTyped
<1>3. \A u \in Tracks : u # t => mux'.config[u] = mux.config[u]
  BY <1>1, <1>2
<1> QED  BY <1>1, <1>3, RoomKept

(* A video config that has room, or one refused that leaves what had room. *)
LEMMA SetVideoRoom ==
  ASSUME InfosInRoom, Inv, RoomInv, NEW t \in Tracks, NEW c \in VideoConfigs,
         SetVideo(t, c)
  PROVE  RoomInv'
<1> DEFINE old == mux.config[t]
           new == IF Refused(c) THEN Resized(old, c) ELSE c
<1>1. Typed /\ types[t] = "video" /\ Set(t, new) /\ old.codec \in {"UNKNOWN", c.codec}
  BY DEF Inv, SetVideo
<1>2. old \in VideoStates
  BY <1>1, StatesByType DEF Typed, MuxTyped
<1>3. new.codec = "HEVC" /\ new.sps # NoSet => InRoom(new.info)
  <2>1. CASE ~Refused(c)
    BY <2>1 DEF InfosInRoom
  <2>2. CASE Refused(c)
    <3>1. /\ new.codec = c.codec /\ new.sps = old.sps
          /\ new.info = IF c.codec = "HEVC" /\ old.info = NoInfo THEN ZeroInfo ELSE old.info
      BY <1>2, <2>2 DEF Resized, VideoStates
    <3>2. ASSUME c.codec = "HEVC", old.sps # NoSet PROVE InRoom(old.info) /\ old.info # NoInfo
      <4>1. old.codec = "HEVC"
        BY <1>1, <1>2, <3>2 DEF VideoStates
      <4>2. old.info \in Infos
        BY <1>2, <4>1 DEF VideoStates
      <4> QED  BY <1>1, <3>2, <4>1, <4>2, SetsAre DEF RoomInv
    <3> HIDE DEF old, new
    <3> QED  BY <3>1, <3>2
  <2> QED  BY <2>1, <2>2
<1> HIDE DEF new
<1>4. mux' = [mux EXCEPT !.config[t] = new] /\ types' = types
  BY <1>1 DEF Set
<1>5. mux \in [config : [Tracks -> States], filled : SUBSET Tracks, refs : SUBSET Tracks]
  BY <1>1 DEF Typed, MuxTyped
<1>6. \A u \in Tracks : mux'.config[u] = IF u = t THEN new ELSE mux.config[u]
  BY <1>4, <1>5
<1> QED  BY <1>3, <1>4, <1>6 DEF RoomInv, Tracks

(* Every step leaves the muxer of a recording with infos that have room.   *)
LEMMA RoomStep ==
  ASSUME InfosInRoom, Inv, Roomy, [Next]_vars
  PROVE  Roomy'
<1> SUFFICES ASSUME ~recovered', made' < 2 PROVE RoomInv'
  BY DEF Roomy
<1>1. Typed /\ made \in Nat
  BY OpenedIs DEF Inv
<1>2. mux \in [config : [Tracks -> States], filled : SUBSET Tracks, refs : SUBSET Tracks]
  BY <1>1 DEF Typed, MuxTyped
<1>3. ASSUME UNCHANGED <<types, recovered>>, mux'.config = mux.config, made' \in {made, made + 1}
      PROVE  RoomInv'
  <2>1. RoomInv
    BY <1>1, <1>3 DEF Roomy
  <2> QED  BY <1>3, <2>1, RoomKept
<1>4. ASSUME NEW t \in Tracks, Call, UNCHANGED <<recovered, made>>,
             \/ \E c \in VideoConfigs : SetVideo(t, c)
             \/ \E c \in AudioConfigs : SetAudio(t, c)
             \/ \E c \in MimeTypes : SetMime(t, c)
      PROVE  RoomInv'
  <2>1. RoomInv
    BY <1>4 DEF Roomy
  <2>2. ASSUME NEW c \in AudioConfigs, SetAudio(t, c) PROVE RoomInv'
    <3>1. types[t] # "video" /\ \E d : Set(t, d)
      BY <2>2 DEF SetAudio
    <3> QED  BY <1>1, <2>1, <3>1, SetIsOther
  <2>3. ASSUME NEW c \in MimeTypes, SetMime(t, c) PROVE RoomInv'
    <3>1. types[t] # "video" /\ Set(t, c)
      BY <2>3 DEF SetMime
    <3> QED  BY <1>1, <2>1, <3>1, SetIsOther
  <2> QED  BY <1>4, <2>1, <2>2, <2>3, SetVideoRoom
<1>5. ASSUME NEW t \in Tracks, \E c \in VideoConfigs : SetVideo(t, c) PROVE RoomInv'
  BY <1>4, <1>5 DEF SetVideo, Set, fileVars
<1>6. ASSUME NEW t \in Tracks, \E c \in AudioConfigs : SetAudio(t, c) PROVE RoomInv'
  BY <1>4, <1>6 DEF SetAudio, Set, fileVars
<1>7. ASSUME NEW t \in Tracks, \E c \in MimeTypes : SetMime(t, c) PROVE RoomInv'
  BY <1>4, <1>7 DEF SetMime, Set, fileVars
<1>8. ASSUME NEW t \in Tracks, AddRef(t) \/ AddSample(t) PROVE RoomInv'
  <2>1. UNCHANGED <<types, recovered, made>>
    BY <1>8 DEF AddRef, AddSample, fileVars
  <2>2. mux' = [mux EXCEPT !.refs = @ \cup {t}] \/ mux' = [mux EXCEPT !.filled = @ \cup {t}]
    BY <1>8 DEF AddRef, AddSample
  <2>3. mux'.config = mux.config
    BY <1>2, <2>2
  <2> QED  BY <1>3, <2>1, <2>3
<1>9. CASE SetCover
  BY <1>3, <1>9 DEF SetCover, fileVars
<1>10. CASE Sync
  BY <1>3, <1>10 DEF Sync, fileVars
<1>11. CASE Crash
  BY <1>3, <1>11 DEF Crash, fileVars
<1>12. CASE Open
  BY <1>3, <1>12 DEF Open
<1>13. CASE Close
  <2>1. UNCHANGED <<types, mux, recovered>> /\ CloseOf(mux, types)
    BY <1>13 DEF Close
  <2>2. made' = made \/ made' = made + 1
    BY <2>1 DEF CloseOf
  <2> QED  BY <1>1, <1>3, <2>1, <2>2
<1>14. CASE Recover
  BY <1>14 DEF Recover
<1>15. CASE Copy
  <2>1. made >= 1 /\ Inv'
    BY <1>15, CopyInv DEF Copy, Inv, StageInv
  <2>2. (phase' = "failed" /\ made' = made) \/ made' = made + 1
    BY <1>15 DEF Copy, CloseOf
  <2>3. phase' = "failed" => made' = 0
    BY <2>1 DEF Inv, StageInv
  <2> QED  BY <1>1, <2>1, <2>2, <2>3
<1>16. CASE UNCHANGED vars
  BY <1>3, <1>16 DEF vars
<1> QED  BY <1>5, <1>6, <1>7, <1>8, <1>9, <1>10, <1>11, <1>12, <1>13, <1>14, <1>15, <1>16 DEF Next

(* A new muxer has no info.                                                *)
LEMMA RoomInit == ASSUME Init PROVE Roomy
<1>1. \A t \in Tracks : types[t] = "video" => mux.config[t].codec = "UNKNOWN"
  BY DEF Init, NewMux, UnsetOf, Tracks
<1> QED  BY <1>1 DEF Roomy, RoomInv

(* Closed, by the sample entry; recovered, by the log and the sample       *)
(* entry.                                                                  *)
LEMMA ConfigsShownHolds == ASSUME Inv, Roomy PROVE ConfigsShown
<1> SUFFICES ASSUME phase = "open", made = 1, NEW t \in DOMAIN shown
             PROVE  IF recovered
                    THEN \E i \in DOMAIN logged[t] :
                           /\ spoiled \/ i = Len(logged[t])
                           /\ Agrees(types[t], shown[t], logged[t][i])
                    ELSE /\ Agrees(types[t], shown[t], mux.config[t])
                         /\ types[t] = "video" => SameInfo(shown[t], mux.config[t])
  BY DEF ConfigsShown
<1>1. /\ t \in mux.filled /\ t \in Tracks /\ types[t] \in Types
      /\ shown[t] = Shown(types[t], Entry(types[t], mux.config[t]))
      /\ mux.config[t] \in StatesOf(types[t])
      /\ ~Unwritable(types[t], mux.config[t])
  BY OpenIs
<1>2. CASE recovered
  <2>1. FromLog(t)
    BY <1>1, <1>2 DEF Inv, RecInv
  <2>2. PICK i \in DOMAIN logged[t] :
          /\ spoiled \/ i = Len(logged[t])
          /\ logged[t][i] \in StatesOf(types[t])
          /\ Loggable(types[t], logged[t][i])
          /\ mux.config[t] = ReadConfig(types[t], Logged(types[t], logged[t][i]))
    BY <2>1 DEF FromLog
  <2>3. Agrees(types[t], shown[t], logged[t][i])
    BY <1>1, <2>2, LoggedIsRead
  <2> QED  BY <1>2, <2>2, <2>3
<1>3. CASE ~recovered
  <2>1. Agrees(types[t], shown[t], mux.config[t])
    BY <1>1, ConfigIsShown
  <2>2. ASSUME types[t] = "video" PROVE SameInfo(shown[t], mux.config[t])
    <3>1. mux.config[t] \in VideoStates /\ ~Unwritable("video", mux.config[t])
      BY <1>1, <2>2, StatesByType
    <3>2. mux.config[t].sps # NoSet
      BY <3>1, SetsAre DEF Unwritable
    <3>3. mux.config[t].codec = "HEVC" => InRoom(mux.config[t].info)
      BY <1>1, <1>3, <2>2, <3>2 DEF Roomy, RoomInv
    <3> QED  BY <1>1, <2>2, <3>1, <3>3, InfoIsShown
  <2> QED  BY <1>3, <2>1, <2>2
<1> QED  BY <1>2, <1>3

(* A file shows of each track the config that was set last, and a          *)
(* recovered file one that was logged, the last one unless a record of     *)
(* the log lacks its end; where the infos of the caller have the room that *)
(* the bits of an hvcC box give them.                                      *)
THEOREM ConfigsAreShown == ASSUME InfosInRoom PROVE Spec => []ConfigsShown
<1>1. Init => Roomy
  BY RoomInit
<1>2. Inv /\ Roomy /\ [Next]_vars => Roomy'
  BY RoomStep
<1>3. Inv /\ Roomy => ConfigsShown
  BY ConfigsShownHolds
<1> QED  BY <1>1, <1>2, <1>3, Invariance, PTL DEF Spec

(* A recovery that shows no track has met a config that cannot be written, *)
(* and that was logged.                                                    *)
LEMMA AckedShownHolds == ASSUME Inv PROVE AckedTracksShown
<1> SUFFICES ASSUME recovered, made < 2
             PROVE  /\ acked \subseteq mux.filled
                    /\ phase \in {"open", "failed"} =>
                         \/ phase = "open" /\ acked \subseteq DOMAIN shown
                         \/ /\ DOMAIN shown = {}
                            /\ \E t \in Tracks : \E i \in DOMAIN logged[t] :
                                 Unwritable(types[t], logged[t][i])
  BY DEF AckedTracksShown
<1>1. RecInv /\ acked \subseteq mux.filled
  BY DEF Inv, RecInv
<1>2. ASSUME phase = "open", ~Unwritten(mux, types)
      PROVE  acked \subseteq DOMAIN shown
  BY <1>1, <1>2, OpenIs
<1>3. ASSUME Unwritten(mux, types)
      PROVE  \E t \in Tracks : \E i \in DOMAIN logged[t] : Unwritable(types[t], logged[t][i])
  <2>1. PICK t \in mux.filled : Unwritable(types[t], mux.config[t])
    BY <1>3 DEF Unwritten
  <2>2. t \in Tracks /\ types[t] \in Types
    <3>1. types \in Seq(Types) /\ mux.filled \subseteq Tracks
      BY DEF Inv, Typed, MuxTyped
    <3> QED  BY <3>1 DEF Tracks
  <2>3. FromLog(t)
    BY <1>1 DEF RecInv
  <2>4. PICK i \in DOMAIN logged[t] :
          /\ logged[t][i] \in StatesOf(types[t])
          /\ Loggable(types[t], logged[t][i])
          /\ mux.config[t] = ReadConfig(types[t], Logged(types[t], logged[t][i]))
    BY <2>3 DEF FromLog
  <2>5. Unwritable(types[t], logged[t][i])
    BY <2>1, <2>2, <2>4, LoggedIsRead
  <2> QED  BY <2>2, <2>5
<1>4. phase = "open" /\ Unwritten(mux, types) => DOMAIN shown = {}
  BY OpenIs
<1>5. phase = "failed" => Unwritten(mux, types) /\ DOMAIN shown = {}
  BY <1>1, NoTracksEmpty DEF Inv, StageInv, RecInv
<1> QED  BY <1>1, <1>2, <1>3, <1>4, <1>5

(* A track with samples at a sync that returned 0 is in the recovered      *)
(* file, unless a config that cannot be written was logged: then no track  *)
(* is in it.                                                               *)
THEOREM AckedAreShown == Spec => []AckedTracksShown
BY Invariance, AckedShownHolds, PTL

(* From the fourth file on nothing is lost that the file before had.       *)
LEMMA OpenSettles ==
  ASSUME Inv, Open, made >= 4
  PROVE  shown' = shown
<1>1. /\ DOMAIN shown' = DOMAIN file
      /\ DOMAIN file = mux.filled
      /\ \A t \in mux.filled :
           /\ t \in Tracks /\ types[t] \in Types
           /\ shown'[t] = Shown(types[t], Entry(types[t], mux.config[t]))
           /\ t \in DOMAIN shown /\ Passed(types[t], shown[t])
           /\ Rest(types[t], shown[t])
           /\ mux.config[t] = Settings(types[t], shown[t])
  <2>1. made >= 2
    BY OpenedIs
  <2> QED  BY <2>1, OpenShows
<1>2. phase = "closed" /\ StageInv /\ made \in Nat
  BY OpenedIs DEF Inv, Open
<1>3. Opened >= 3 /\ Opened >= 2 /\ made >= 2
  BY <1>2 DEF Opened
<1>4. mux.filled = DOMAIN shown /\ shown = [t \in DOMAIN shown |-> shown[t]]
  BY <1>2, <1>3 DEF StageInv
<1>5. ASSUME NEW t \in mux.filled
      PROVE  Shown(types[t], Entry(types[t], mux.config[t])) = shown[t]
  <2>1. /\ types[t] \in Types /\ Passed(types[t], shown[t]) /\ Rest(types[t], shown[t])
        /\ mux.config[t] = Settings(types[t], shown[t])
    BY <1>1, <1>3
  <2>2. types[t] = "video" /\ shown[t].codec = "HEVC" => shown[t].info.layers = 0
    BY <1>3, <2>1 DEF Rest
  <2> QED  BY <2>1, <2>2, CopyIsShown
<1>6. shown' = [t \in DOMAIN shown' |-> shown'[t]]
  BY DEF Open
<1> QED  BY <1>1, <1>4, <1>5, <1>6

(* Only the demuxer opens a file.                                          *)
LEMMA SettlesStep ==
  ASSUME Inv, [Next]_vars
  PROVE  [made >= 4 /\ phase = "closed" /\ phase' = "open" => shown' = shown]_vars
<1> SUFFICES ASSUME made >= 4, phase = "closed", phase' = "open" PROVE shown' = shown
  OBVIOUS
<1>1. ~Call /\ ~Sync /\ ~Crash /\ ~Close /\ ~Recover /\ ~Copy
  BY DEF Call, Sync, Crash, Close, Recover, Copy
<1>2. ~SetCover
  BY <1>1 DEF SetCover
<1>3. \A t \in Tracks :
        /\ \A c \in VideoConfigs : ~SetVideo(t, c)
        /\ \A c \in AudioConfigs : ~SetAudio(t, c)
        /\ \A c \in MimeTypes : ~SetMime(t, c)
        /\ ~AddRef(t) /\ ~AddSample(t)
  BY <1>1 DEF SetVideo, SetAudio, SetMime, AddRef, AddSample
<1>4. ~(UNCHANGED vars)
  BY DEF vars
<1>5. Open
  BY <1>1, <1>2, <1>3, <1>4 DEF Next
<1> QED  BY <1>5, OpenSettles

(* From the third file on a copy shows what the file it was made from      *)
(* shows: what the octets of an hvcC box lose, they have lost by then.     *)
THEOREM CopiesComeToRest == Spec => CopiesSettle
<1>1. Inv /\ [Next]_vars =>
        [made >= 4 /\ phase = "closed" /\ phase' = "open" => shown' = shown]_vars
  BY SettlesStep
<1> QED  BY <1>1, Invariance, PTL DEF Spec, CopiesSettle
=============================================================================
