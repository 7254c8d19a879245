----------------------------- MODULE TrackConfig -----------------------------
(***************************************************************************)
(* What a track says of its samples: the parameter sets of a video         *)
(* decoder, the specific config of an audio decoder, the type of timed     *)
(* metadata.  It is set on the muxer, logged once by mp4_mux_sync with the *)
(* track, packed into the sample entry of the file by mp4_mux_close, or by *)
(* the recovery from the log, unpacked by mp4_demux_open, and copied into  *)
(* a new file by the tool mp4_mux.                                         *)
(*                                                                         *)
(* Parameter sets and audio configs are taken as wholes; the words of the  *)
(* log and the bytes of an hvcC box are kept one by one.  The tables are   *)
(* not written by mp4_mux_sync here, and the samples of a track are        *)
(* logged together.                                                        *)
(***************************************************************************)
EXTENDS Integers, Sequences, FiniteSets, SequencesExt

CONSTANTS
  TrackLists,    (* the lists of types that a recording may have; handles    *)
                 (* are 1, 2, ...                                            *)
  Sets,          (* parameter sets and audio configs                         *)
  NoSet,         (* one of 0 bytes                                           *)
  ShortSets,     (* those of less than 4                                     *)
  LowComplexity, (* the audio configs of object type 2                       *)
  VideoConfigs,  (* the video decoder configs the caller may set             *)
  AudioConfigs,
  MimeTypes,
  NoInfo,        (* of an AVC decoder                                        *)
  Null, Empty,   (* no string, and the one without a character               *)
  MaxCalls,      (* bound: configs, references and covers set                *)
  MaxSyncs,      (* bound: calls of mp4_mux_sync                             *)
  MaxFiles       (* bound: files made one from the other                     *)

ASSUME TrackConfigAssumption ==
  /\ TrackLists \subseteq Seq({"video", "audio", "metadata", "chapters"})
  /\ NoSet \in ShortSets /\ ShortSets \subseteq Sets
  /\ LowComplexity \subseteq Sets \ {NoSet}
  /\ Null # Empty
  /\ {MaxCalls, MaxSyncs, MaxFiles} \subseteq Nat /\ MaxFiles > 0

(* The fields of the info of an HEVC decoder are octets; flags stands for   *)
(* the others, which are copied.                                            *)
Octets == 0 .. 255

Infos == [space : Octets, tier : Octets, idc : Octets, flags : Nat,
          parallelism : Octets, chroma : Octets, depth : Octets, rate : Octets,
          layers : Octets, nested : Octets, length : Octets]

Strings == {Null, Empty} \cup UNION {{c.encoding, c.mime} : c \in MimeTypes}

ASSUME DecoderAssumption ==
  /\ NoInfo \notin Infos
  /\ VideoConfigs \subseteq
       [codec : {"AVC"}, vps : {NoSet}, sps : Sets, pps : Sets, info : {NoInfo},
        width : Nat, height : Nat]
       \cup [codec : {"HEVC"}, vps : Sets, sps : Sets, pps : Sets, info : Infos,
             width : Nat, height : Nat]
  /\ AudioConfigs \subseteq [asc : Sets, channels : Nat, size : Nat, rate : Nat]
  /\ MimeTypes \subseteq [encoding : Strings, mime : Strings]

VARIABLES
  phase,
  types,     (* of the tracks of the muxer                                  *)
  mux,       (* config of each track, and the tracks filled, that is, with  *)
             (* samples, and those that refer to the video                  *)
  cover,     (* whether a cover is set                                      *)
  written,   (* tracks of which track_info_written is set                   *)
  thumb,     (* recovery.thumb_written                                      *)
  log,       (* the records of the tables file                              *)
  committed, (* how many of them the header covers                          *)
  calls, syncs,
  recovered, (* whether the file is that of mp4_recovery_recover_file       *)
  file,      (* the sample entries of the file, by track                    *)
  shown,     (* what the demuxer shows of them                              *)
  made,      (* files made, the last one from the one before                *)
  logged,    (* history: the configs of each track that were logged         *)
  acked,     (* history: tracks with samples at a sync that returned 0      *)
  spoiled    (* history: whether a record of the log lacks its end          *)

vars == <<phase, types, mux, cover, written, thumb, log, committed, calls, syncs,
          recovered, file, shown, made, logged, acked, spoiled>>

logVars  == <<written, thumb, log, committed, syncs, logged, acked, spoiled>>
fileVars == <<recovered, file, shown, made>>

Phases == {"recording", "dead", "closed", "failed", "open"}
Tracks == DOMAIN types
NoTracks == <<>>   (* the function without a track *)

-----------------------------------------------------------------------------
(* The muxer before, and after, a config is set. *)

ZeroInfo == [space |-> 0, tier |-> 0, idc |-> 0, flags |-> 0, parallelism |-> 0,
             chroma |-> 0, depth |-> 0, rate |-> 0, layers |-> 0, nested |-> 0,
             length |-> 0]

UnsetOf(type) ==
  CASE type = "video" -> [codec |-> "UNKNOWN", vps |-> NoSet, sps |-> NoSet,
                          pps |-> NoSet, info |-> NoInfo, width |-> 0, height |-> 0]
    [] type = "audio" -> [codec |-> "UNKNOWN", asc |-> NoSet, channels |-> 0,
                          size |-> 0, rate |-> 0]
    [] type = "metadata" -> [encoding |-> Null, mime |-> Null]
    [] type = "chapters" -> Null

NewMux(kinds) == [config |-> [t \in DOMAIN kinds |-> UnsetOf(kinds[t])],
                  filled |-> {}, refs |-> {}]

Init ==
  /\ phase = "recording" /\ types \in TrackLists /\ mux = NewMux(types)
  /\ cover = FALSE /\ written = {} /\ thumb = FALSE
  /\ log = <<>> /\ committed = 0 /\ calls = 0 /\ syncs = 0
  /\ recovered = FALSE /\ file = NoTracks /\ shown = NoTracks /\ made = 0
  /\ logged = [t \in Tracks |-> <<>>] /\ acked = {} /\ spoiled = FALSE

Call == phase = "recording" /\ calls < MaxCalls /\ calls' = calls + 1

Set(t, config) ==
  /\ mux' = [mux EXCEPT !.config[t] = config]
  /\ UNCHANGED <<phase, types, cover, logVars, fileVars>>

(* The codec and the size of the picture are set before the parameter sets *)
(* are looked at: a config that is refused leaves the sets of before.      *)
Refused(c) ==
  NoSet \in {c.sps, c.pps} \cup (IF c.codec = "HEVC" THEN {c.vps} ELSE {})

Resized(old, c) ==
  [old EXCEPT !.codec = c.codec, !.width = c.width, !.height = c.height,
              !.info = IF c.codec = "HEVC" /\ @ = NoInfo THEN ZeroInfo ELSE @]

SetVideo(t, c) ==
  /\ Call /\ types[t] = "video"
  /\ mux.config[t].codec \in {"UNKNOWN", c.codec}
  /\ Set(t, IF Refused(c) THEN Resized(mux.config[t], c) ELSE c)

(* The rate is stored in 16.16 bits.  Above that the conversion of the     *)
(* float is undefined: the integer wraps or saturates.                     *)
Stored(rate) ==
  IF rate < 65536 THEN {rate} ELSE {rate % 65536, 65535}

SetAudio(t, c) ==
  /\ Call /\ types[t] = "audio"
  /\ \E rate \in Stored(c.rate) :
       Set(t, [codec |-> "AAC_LC", asc |-> c.asc, channels |-> c.channels,
               size |-> c.size, rate |-> rate])

SetMime(t, c) == Call /\ types[t] = "metadata" /\ Set(t, c)

SetCover ==
  /\ Call /\ cover' = TRUE /\ thumb' = FALSE
  /\ UNCHANGED <<phase, types, mux, written, log, committed, syncs, logged, acked,
                 spoiled, fileVars>>

(* A new reference makes the track, its config with it, be logged again.   *)
AddRef(t) ==
  /\ Call /\ types[t] = "metadata" /\ "video" \in Range(types)
  /\ t \notin mux.refs
  /\ mux' = [mux EXCEPT !.refs = @ \cup {t}]
  /\ written' = written \ {t}
  /\ UNCHANGED <<phase, types, cover, thumb, log, committed, syncs, logged, acked,
                 spoiled, fileVars>>

AddSample(t) ==
  /\ phase = "recording" /\ t \notin mux.filled
  /\ mux' = [mux EXCEPT !.filled = @ \cup {t}]
  /\ UNCHANGED <<phase, types, cover, calls, logVars, fileVars>>

-----------------------------------------------------------------------------
(* mp4_mux_sync without the tables: the log. *)

(* The info of an HEVC decoder is not logged. *)
LoggedVideo(c) ==
  CASE c.codec = "AVC"  -> <<"avc1", c.sps, c.pps, c.width, c.height>>
    [] c.codec = "HEVC" -> <<"hvc1", c.sps, c.pps, c.vps, c.width, c.height>>
    [] OTHER            -> <<"hvc1">>

Length(string) == IF string = Null THEN Empty ELSE string

Logged(type, c) ==
  CASE type = "video"    -> LoggedVideo(c)
    [] type = "audio"    -> <<c.codec, c.asc, c.channels, c.size, c.rate>>
    [] type = "metadata" -> <<Length(c.encoding), Length(c.mime)>>
    [] type = "chapters" -> <<>>

(* A video track of an unknown codec is not logged to the end. *)
Unloggable(t) == types[t] = "video" /\ mux.config[t].codec = "UNKNOWN"

Record(kind, t, body, whole) ==
  [kind |-> kind, track |-> t, body |-> body, whole |-> whole]

Tables(t) == Record("tables", t, <<>>, TRUE)

TrackRecord(t) == Record("trak", t, <<types[t], t \in mux.refs>>, TRUE)

StsdRecord(t) ==
  Record("stsd", t, Logged(types[t], mux.config[t]), ~Unloggable(t))

(* Mutant: the config is left to a sync that finds samples. *)
TrackRecordsBare(t) ==
  (IF t \in written THEN <<>> ELSE <<TrackRecord(t)>>)
    \o (IF t \in mux.filled /\ ~Contains(log, Tables(t))
        THEN <<StsdRecord(t), Tables(t)>> ELSE <<>>)

TrackRecords(t) ==
  (IF t \in written THEN <<>> ELSE <<TrackRecord(t), StsdRecord(t)>>)
    \o (IF t \in mux.filled /\ ~Contains(log, Tables(t)) THEN <<Tables(t)>> ELSE <<>>)

CoverRecord(whole) == Record("covr", 0, <<>>, whole)

Until(records) ==
  LET broken == {i \in DOMAIN records : ~records[i].whole}
  IN IF broken = {} THEN records
     ELSE SubSeq(records, 1, CHOOSE i \in broken : \A j \in broken : i <= j)

(* Mutant: what mp4_mux_recovery_write_vdec returns is not looked at. *)
FailsNever(records) == FALSE

Fails(records) == \E i \in DOMAIN records : ~records[i].whole

(* The first failure ends the sync, with the record as it is, and before   *)
(* the header is written; only that of the cover goes unnoticed.           *)
Sync ==
  LET records == Until(FlattenSeq([t \in Tracks |-> TrackRecords(t)]))
      failed  == Fails(records)
      thumbs  == ~failed /\ cover /\ ~thumb
      entries == {i \in DOMAIN records : records[i].kind = "stsd"}
  IN
  /\ phase = "recording" /\ syncs < MaxSyncs /\ syncs' = syncs + 1
  /\ \E whole \in IF thumbs THEN BOOLEAN ELSE {TRUE} :
       /\ log' = log \o records \o (IF thumbs THEN <<CoverRecord(whole)>> ELSE <<>>)
       /\ spoiled' = (spoiled \/ failed \/ ~whole)
  /\ thumb' = (thumb \/ thumbs)
  /\ written' = written \cup {records[i].track : i \in DOMAIN records}
  /\ committed' = IF failed THEN committed ELSE Len(log')
  /\ logged' = [t \in Tracks |-> IF \E i \in entries : records[i].track = t
                                 THEN Append(logged[t], mux.config[t]) ELSE logged[t]]
  /\ acked' = IF failed \/ spoiled THEN acked ELSE acked \cup mux.filled
  /\ UNCHANGED <<phase, types, mux, cover, calls, fileVars>>

Crash ==
  /\ phase = "recording" /\ phase' = "dead"
  /\ UNCHANGED <<types, mux, cover, calls, logVars, fileVars>>

-----------------------------------------------------------------------------
(* mp4_recovery_recover_file: the log read into a new muxer, and closed. *)

(* Mutant: the picture parameter sets are taken before the sequence ones. *)
ReadVideoSwapped(b) ==
  IF b[1] = "avc1"
  THEN [codec |-> "AVC", sps |-> b[3], pps |-> b[2], vps |-> NoSet,
        info |-> NoInfo, width |-> b[4], height |-> b[5]]
  ELSE [codec |-> "HEVC", sps |-> b[3], pps |-> b[2], vps |-> b[4],
        info |-> ZeroInfo, width |-> b[5], height |-> b[6]]

ReadVideo(b) ==
  IF b[1] = "avc1"
  THEN [codec |-> "AVC", sps |-> b[2], pps |-> b[3], vps |-> NoSet,
        info |-> NoInfo, width |-> b[4], height |-> b[5]]
  ELSE [codec |-> "HEVC", sps |-> b[2], pps |-> b[3], vps |-> b[4],
        info |-> ZeroInfo, width |-> b[5], height |-> b[6]]

ReadConfig(type, b) ==
  CASE type = "video"    -> ReadVideo(b)
    [] type = "audio"    -> [codec |-> b[1], asc |-> b[2], channels |-> b[3],
                             size |-> b[4], rate |-> b[5]]
    [] type = "metadata" -> [encoding |-> b[1], mime |-> b[2]]
    [] type = "chapters" -> Null

(* The muxer that the recovery fills, and whether it goes on reading.      *)
NewReader == [types |-> <<>>, config |-> <<>>, filled |-> {}, refs |-> {}, on |-> TRUE]

Stopped(m) == [m EXCEPT !.on = FALSE]

Known(m, t) == t \in DOMAIN m.types

(* A track gets the next handle, which may not be the one of the record.   *)
ReadTrack(m, t, b) ==
  LET n == Len(m.types) + 1
      added == IF Known(m, t) THEN m
               ELSE [m EXCEPT !.types = Append(@, b[1]),
                              !.config = Append(@, UnsetOf(b[1]))]
  IN IF Known(added, t)
     THEN [added EXCEPT !.refs = IF b[2] THEN @ \cup {t} ELSE @]
     ELSE Stopped(added)

(* One record, and that of a cover, which has nothing to do with tracks.   *)
ReadRecord(m, r) ==
  IF ~m.on THEN m
  ELSE
  CASE r.kind = "covr" -> m
    [] r.kind = "trak" -> ReadTrack(m, r.track, r.body)
    [] r.kind = "stsd" /\ r.whole /\ Known(m, r.track) ->
         [m EXCEPT !.config[r.track] = ReadConfig(m.types[r.track], r.body)]
    [] r.kind = "tables" /\ Known(m, r.track) ->
         [m EXCEPT !.filled = @ \cup {r.track}]
    [] OTHER -> Stopped(m)

(* Behind a cover that lacks bytes the reader is out of step: it stops,    *)
(* with an error or at the end of the file, or the cover swallows whole    *)
(* records and it is in step again, at resume[i].                          *)
ShortCovers == {i \in 1..committed : log[i].kind = "covr" /\ ~log[i].whole}

Swallowed(i, resume) == \E j \in DOMAIN resume : j < i /\ i < resume[j]

Replayed(resume) ==
  LET read[i \in 0..committed] ==
        IF i = 0 THEN NewReader
        ELSE IF Swallowed(i, resume) THEN read[i - 1]
        ELSE ReadRecord(read[i - 1], log[i])
  IN read[committed]

-----------------------------------------------------------------------------
(* The sample entries of a file. *)

(* The lowest byte of what the operator | makes of words, bit by bit.      *)
Bit(word, place) == (word \div place) % 2

BitOf(words, place) == IF \E word \in words : Bit(word, place) = 1 THEN place ELSE 0

Packed(words) == BitOf(words, 1) + BitOf(words, 2) + BitOf(words, 4) + BitOf(words, 8)
                 + BitOf(words, 16) + BitOf(words, 32) + BitOf(words, 64)
                 + BitOf(words, 128)

(* Mutant: the size of the lengths is written as it is, not less one.      *)
HvccBytesLonger(i) ==
  [profile     |-> Packed({i.space * 64, i.tier * 32, i.idc}),
   flags       |-> i.flags,
   parallelism |-> Packed({i.parallelism, 252}),
   chroma      |-> Packed({i.chroma, 252}),
   depth       |-> Packed({(i.depth - 8) % 256, 248}),
   framerate   |-> Packed({i.rate * 64, i.layers * 32, i.nested * 4, i.length})]

HvccBytes(i) ==
  [profile     |-> Packed({i.space * 64, i.tier * 32, i.idc}),
   flags       |-> i.flags,
   parallelism |-> Packed({i.parallelism, 252}),
   chroma      |-> Packed({i.chroma, 252}),
   depth       |-> Packed({(i.depth - 8) % 256, 248}),
   framerate   |-> Packed({i.rate * 64, i.layers * 32, i.nested * 4,
                           (i.length - 1) % 256})]

ReadHvcc(b) ==
  [space       |-> b.profile \div 64,
   tier        |-> Bit(b.profile, 32),
   idc         |-> b.profile % 32,
   flags       |-> b.flags,
   parallelism |-> 2 * Bit(b.parallelism, 2),
   chroma      |-> 2 * Bit(b.chroma, 2),
   depth       |-> (b.depth % 4) + 8,
   rate        |-> b.framerate \div 64,
   layers      |-> (b.framerate \div 8) % 8,
   nested      |-> Bit(b.framerate, 4),
   length      |-> (b.framerate % 4) + 1]

Unwritable(type, c) ==
  CASE type = "video" -> c.codec = "UNKNOWN" \/ c.sps \in ShortSets
    [] type = "audio" -> c.asc = NoSet
    [] OTHER          -> FALSE

(* An mp4a entry has two channels of 16 bits, whatever was set. *)
Entry(type, c) ==
  CASE type = "video" ->
         [codec |-> c.codec, vps |-> c.vps, sps |-> c.sps, pps |-> c.pps,
          bytes |-> IF c.codec = "HEVC" THEN HvccBytes(c.info) ELSE NoInfo,
          width |-> c.width % 65536, height |-> c.height % 65536]
    [] type = "audio" ->
         [asc |-> c.asc, channels |-> 2, size |-> 16, rate |-> c.rate]
    [] type = "metadata" ->
         [encoding |-> Length(c.encoding), mime |-> Length(c.mime)]
    [] type = "chapters" -> Null

Entries(m, kinds) == [t \in m.filled |-> Entry(kinds[t], m.config[t])]

Unwritten(m, kinds) == \E t \in m.filled : Unwritable(kinds[t], m.config[t])

(* A config that its box writer refuses costs the whole moov. *)
FileOf(m, kinds) == IF Unwritten(m, kinds) THEN NoTracks ELSE Entries(m, kinds)

(* The error of a box writer is overwritten by the result of fsync: the    *)
(* close returns 0.  Only that of the second attempt, for a moov that does *)
(* not fit before the samples, is returned.                                *)
CloseOf(m, kinds) ==
  \/ phase' = "closed" /\ file' = FileOf(m, kinds) /\ made' = made + 1
  \/ Unwritten(m, kinds) /\ phase' = "failed" /\ UNCHANGED <<file, made>>

Close ==
  /\ phase = "recording" /\ CloseOf(mux, types)
  /\ UNCHANGED <<types, mux, cover, calls, logVars, recovered, shown>>

Recover ==
  /\ phase \in {"dead", "failed"} /\ ~recovered /\ recovered' = TRUE
  /\ \E resume \in [ShortCovers -> 1..committed + 1] :
       LET m == Replayed(resume) IN
       /\ types' = m.types
       /\ mux' = [config |-> m.config, filled |-> m.filled, refs |-> m.refs]
       /\ CloseOf(m, m.types)
  /\ UNCHANGED <<cover, calls, logVars, shown>>

-----------------------------------------------------------------------------
(* The demuxer, and the copy by tools/mp4_mux.c. *)

ShownString(string) == IF string = Empty THEN Null ELSE string

Shown(type, entry) ==
  CASE type = "video" ->
         [codec |-> entry.codec, vps |-> entry.vps, sps |-> entry.sps, pps |-> entry.pps,
          info |-> IF entry.codec = "HEVC" THEN ReadHvcc(entry.bytes) ELSE NoInfo,
          width |-> entry.width, height |-> entry.height]
    [] type = "audio" ->
         [codec |-> IF entry.asc \in LowComplexity THEN "AAC_LC" ELSE "UNKNOWN",
          asc |-> entry.asc, channels |-> entry.channels, size |-> entry.size,
          rate |-> entry.rate]
    [] type = "metadata" ->
         [encoding |-> ShownString(entry.encoding), mime |-> ShownString(entry.mime)]
    [] type = "chapters" -> Null

Open ==
  /\ phase = "closed" /\ phase' = "open"
  /\ shown' = [t \in DOMAIN file |-> Shown(types[t], file[t])]
  /\ UNCHANGED <<types, mux, cover, calls, logVars, recovered, file, made>>

(* The first track of each kind, with chapters left out; timed metadata    *)
(* has samples only with those of the video it refers to.  Tracks keep     *)
(* their handles here.                                                     *)
Copied ==
  {t \in DOMAIN shown :
     /\ types[t] \in {"video", "audio", "metadata"}
     /\ \A u \in DOMAIN shown : u < t => types[u] # types[t]
     /\ types[t] = "metadata" => t \in mux.refs
     /\ \E u \in DOMAIN shown : types[u] = "video"}

Settings(type, s) == IF type = "audio" THEN [s EXCEPT !.codec = "AAC_LC"] ELSE s

Copy ==
  LET m == [config |-> [t \in Tracks |-> IF t \in Copied THEN Settings(types[t], shown[t])
                                         ELSE UnsetOf(types[t])],
            filled |-> Copied, refs |-> mux.refs \cap Copied]
  IN
  /\ phase = "open" /\ made < MaxFiles
  /\ mux' = m /\ CloseOf(m, types)
  /\ UNCHANGED <<types, cover, calls, logVars, recovered, shown>>

-----------------------------------------------------------------------------
Next ==
  \/ \E t \in Tracks :
       \/ \E c \in VideoConfigs : SetVideo(t, c)
       \/ \E c \in AudioConfigs : SetAudio(t, c)
       \/ \E c \in MimeTypes : SetMime(t, c)
       \/ AddRef(t)
       \/ AddSample(t)
  \/ SetCover \/ Sync \/ Crash \/ Close \/ Recover \/ Open \/ Copy

Spec == Init /\ [][Next]_vars

-----------------------------------------------------------------------------
(* Properties. *)

(* The variables keep their types: the header covers records that are      *)
(* there, only tracks that were logged are acknowledged, what the recovery *)
(* makes of the log is tracks of the recording.                            *)
TypeOK ==
  /\ phase \in Phases
  /\ types \in Seq({"video", "audio", "metadata", "chapters"})
  /\ DOMAIN mux.config = Tracks /\ mux.filled \subseteq Tracks /\ mux.refs \subseteq Tracks
  /\ committed \in 0..Len(log)
  /\ Tracks \subseteq DOMAIN logged
  /\ acked \cup written \subseteq {t \in DOMAIN logged : logged[t] # <<>>}
  /\ DOMAIN file \subseteq Tracks /\ DOMAIN shown \subseteq Tracks
  /\ made \in 0..MaxFiles

(* Fields of the info that the bytes of an hvcC box have room for. *)
KeptInfo == {"space", "tier", "idc", "flags", "depth", "nested", "length"}

SameVideo(s, c) ==
  /\ \A field \in {"codec", "vps", "sps", "pps"} : s[field] = c[field]
  /\ \A field \in {"width", "height"} : c[field] < 65536 => s[field] = c[field]

SameInfo(s, c) ==
  c.codec = "HEVC" =>
    /\ \A field \in KeptInfo : s.info[field] = c.info[field]
    /\ c.info.layers < 2 => s.info.rate = c.info.rate

Agrees(type, s, c) ==
  CASE type = "video"    -> SameVideo(s, c)
    [] type = "audio"    -> /\ s.asc = c.asc /\ s.rate = c.rate
                            /\ c.asc \in LowComplexity => s.codec = c.codec
    [] type = "metadata" -> \A field \in {"encoding", "mime"} :
                              Length(s[field]) = Length(c[field])
    [] type = "chapters" -> TRUE

(* A file shows of each track the config the calls left on the muxer, and  *)
(* a recovered file the one that was logged last, or, behind a record that *)
(* lacks its end, one logged before: in every word that goes through the   *)
(* log (mp4_mux_recovery_write_stsd), the sample entry (mp4_box_stsd_write)*)
(* and mp4_box_stsd_read, but for the fields known to be lost.             *)
ConfigsShown ==
  phase = "open" /\ made = 1 =>
    \A t \in DOMAIN shown :
      IF recovered
      THEN \E i \in DOMAIN logged[t] :
             /\ spoiled \/ i = Len(logged[t])
             /\ Agrees(types[t], shown[t], logged[t][i])
      ELSE /\ Agrees(types[t], shown[t], mux.config[t])
           /\ types[t] = "video" => SameInfo(shown[t], mux.config[t])

(* A track that had samples at an mp4_mux_sync that returned 0, with every *)
(* record before it whole, is in the recovered file, unless a config that  *)
(* cannot be written was logged: then no track is, whether the recovery    *)
(* returned an error or 0.                                                 *)
AckedTracksShown ==
  recovered /\ made < 2 =>
    /\ acked \subseteq mux.filled
    /\ phase \in {"open", "failed"} =>
         \/ phase = "open" /\ acked \subseteq DOMAIN shown
         \/ /\ DOMAIN shown = {}
            /\ \E t \in Tracks : \E i \in DOMAIN logged[t] :
                 Unwritable(types[t], logged[t][i])

(* Copies of copies, each packed and unpacked again by tools/mp4_mux.c,    *)
(* come to rest: from the third file on a copy shows what the file it was  *)
(* made from shows, though no two files before need to.                    *)
CopiesSettle ==
  [][made >= 4 /\ phase = "closed" /\ phase' = "open" => shown' = shown]_vars

(* libmp4.h: mp4_recovery_recover_file will "merge the two into a valid    *)
(* MP4 file", with "0 on success": when it has returned 0, each track that *)
(* had samples at an mp4_mux_sync that returned 0, with every record       *)
(* before it whole, is in the file that the demuxer opens.                 *)
AckedInFile ==
  phase = "open" /\ recovered /\ made = 1 => acked \subseteq DOMAIN shown
=============================================================================
