------------------------------ MODULE Metadata ------------------------------
(***************************************************************************)
(* What a file says of itself: the metadata of the file and of its tracks, *)
(* the cover, and the references between tracks.  They are set on the      *)
(* muxer, logged by mp4_mux_sync, written into the moov by mp4_mux_close,  *)
(* or by the recovery from the log, and read back by mp4_demux_open.       *)
(*                                                                         *)
(* A moov is the sequence of its boxes that matter here, in the order in   *)
(* which they are read; keys and values are taken as wholes.               *)
(***************************************************************************)
EXTENDS Integers, Sequences, FiniteSets, SequencesExt

CONSTANTS
  Types,       (* the types of the tracks, in the order of the file: handles *)
               (* and IDs are 1, 2, ...                                      *)
  MetaKeys,    (* keys that begin with "com.", stored in moov/meta           *)
  Tags,        (* keys of four characters that the demuxer knows, stored in  *)
               (* moov/udta/meta                                             *)
  OtherTags,   (* those it does not know                                     *)
  LocationTag, (* MP4_UDTA_KEY_LOCATION, stored in moov/udta                 *)
  Alternate,   (* the other key of the same meaning, or NoKey                *)
  NoKey,
  Values,      (* values of metadata                                         *)
  Empty,       (* the empty one                                              *)
  NoValue,
  Owners,      (* bound: what metadata is added to, File or tracks           *)
  MaxCalls,    (* bound: metadata, covers, references and samples added      *)
  MaxSyncs     (* bound: calls of mp4_mux_sync                               *)

File   == 0
Tracks == DOMAIN Types
Keys   == MetaKeys \cup Tags \cup OtherTags \cup {LocationTag}
MaxTrackRefs == 10  (* MP4_TRACK_REF_MAX *)

ASSUME MetadataAssumption ==
  /\ Types \in Seq({"video", "audio", "metadata", "chapters"})
  /\ MetaKeys \cap (Tags \cup OtherTags \cup {LocationTag}) = {}
  /\ Tags \cap OtherTags = {} /\ LocationTag \notin Tags \cup OtherTags
  /\ Alternate \in [Keys -> Keys \cup {NoKey}] /\ NoKey \notin Keys
  /\ \A key \in Keys : Alternate[key] # NoKey =>
       Alternate[key] # key /\ Alternate[Alternate[key]] = key
  /\ Empty \in Values /\ NoValue \notin Values
  /\ Owners \subseteq {File} \cup Tracks
  /\ MaxCalls \in Nat /\ MaxSyncs \in Nat

VARIABLES
  phase,
  mux,       (* what was set: metas, cover, refs and the tracks filled,     *)
             (* that is, with samples                                       *)
  calls,     (* of the user, without those of mp4_mux_sync                  *)
  log,       (* the records of the tables file                              *)
  written,   (* meta_write_count, 0 for the first                           *)
  unlogged,  (* tracks of which track_info_written is not set               *)
  thumb,     (* recovery.thumb_written                                      *)
  syncs,     (* calls of mp4_mux_sync so far                                *)
  recovered, (* whether the muxer is that of mp4_recovery_recover_file      *)
  movie,     (* the boxes of the moov                                       *)
  shown,     (* what the demuxer has of them                                *)
  synced,    (* history: mux at the last mp4_mux_sync or, if it was not     *)
             (* interrupted, at mp4_mux_close                               *)
  stale,     (* history: keys of the file overridden when already logged    *)
  outdated   (* history: of them, those at the last mp4_mux_sync            *)

vars == <<phase, mux, calls, log, written, unlogged, thumb, syncs, recovered,
          movie, shown, synced, stale, outdated>>
logVars  == <<log, written, unlogged, thumb, syncs, synced, outdated>>
fileVars == <<recovered, movie, shown>>

Phases == {"mux", "dead", "recovered", "closed", "failed", "open", "refused"}

Nothing == [metas |-> [o \in {File} \cup Tracks |-> <<>>], cover |-> 0,
            refs |-> [t \in Tracks |-> <<>>], filled |-> {}]

Unwritten == [o \in {File} \cup Tracks |-> 0]

Init ==
  /\ phase = "mux" /\ mux = Nothing /\ calls = 0
  /\ log = <<>> /\ written = Unwritten
  /\ unlogged = Tracks /\ thumb = FALSE /\ syncs = 0
  /\ recovered = FALSE /\ movie = <<>> /\ shown = <<>>
  /\ synced = Nothing /\ stale = {} /\ outdated = {}

-----------------------------------------------------------------------------
(* Calls of the muxer. *)

Storage(key) == CASE key \in MetaKeys  -> "meta"
                  [] key = LocationTag -> "root"
                  [] OTHER             -> "udta"

AsSet(list) == {list[i] : i \in DOMAIN list}
Keyed(list) == {list[i].key : i \in DOMAIN list}

(* What a list has of a set. *)
Only(list, metas) ==
  FlattenSeq([i \in DOMAIN list |->
                IF list[i] \in metas THEN <<list[i]>> ELSE <<>>])

Kept(list, storage) ==
  Only(list, {meta \in AsSet(list) : Storage(meta.key) = storage})

(* The user overrides a value.  The alternate key does not: it gets the    *)
(* value only if it has none.                                              *)
Override(list, key, value) ==
  IF key \in Keyed(list)
  THEN [i \in DOMAIN list |-> IF list[i].key = key
                              THEN [key |-> key, value |-> value]
                              ELSE list[i]]
  ELSE Append(list, [key |-> key, value |-> value])

(* Mutant: a key that is there already is added once more. *)
CompleteAlways(list, key, value) ==
  IF key = NoKey THEN list ELSE Append(list, [key |-> key, value |-> value])

Complete(list, key, value) ==
  IF key \in Keyed(list) \cup {NoKey} THEN list
  ELSE Append(list, [key |-> key, value |-> value])

Added(list, key, value) ==
  Complete(Override(list, key, value), Alternate[key], value)

(* Mutant: a value that is overridden is not logged again. *)
AddMetadataOnce(o, key, value) ==
  /\ phase = "mux" /\ calls < MaxCalls /\ calls' = calls + 1
  /\ mux' = [mux EXCEPT !.metas[o] = Added(@, key, value)]
  /\ stale' = IF o = File /\ key \in Keyed(synced.metas[File])
              THEN stale \cup {key} ELSE stale
  /\ UNCHANGED <<phase, logVars, fileVars>>

(* Only the metadata of a track is all logged again after an override. *)
AddMetadata(o, key, value) ==
  /\ phase = "mux" /\ calls < MaxCalls /\ calls' = calls + 1
  /\ mux' = [mux EXCEPT !.metas[o] = Added(@, key, value)]
  /\ written' = IF o # File /\ key \in Keyed(mux.metas[o])
                THEN [written EXCEPT ![o] = 0] ELSE written
  /\ stale' = IF o = File /\ key \in Keyed(synced.metas[File])
              THEN stale \cup {key} ELSE stale
  /\ UNCHANGED <<phase, log, unlogged, thumb, syncs, synced, outdated, fileVars>>

SetCover ==
  /\ phase = "mux" /\ calls < MaxCalls /\ calls' = calls + 1
  /\ mux' = [mux EXCEPT !.cover = @ + 1]
  /\ thumb' = FALSE
  /\ UNCHANGED <<phase, log, written, unlogged, syncs, synced, outdated,
                 stale, fileVars>>

(* Mutant: the reference is added behind the back of the log. *)
AddRefUnlogged(t, u) ==
  /\ phase = "mux" /\ calls < MaxCalls /\ calls' = calls + 1
  /\ Len(mux.refs[t]) < MaxTrackRefs /\ ~Contains(mux.refs[t], u)
  /\ mux' = [mux EXCEPT !.refs[t] = Append(@, u)]
  /\ UNCHANGED <<phase, logVars, stale, fileVars>>

(* mp4_mux_add_ref_to_track *)
AddRef(t, u) ==
  /\ phase = "mux" /\ calls < MaxCalls /\ calls' = calls + 1
  /\ Len(mux.refs[t]) < MaxTrackRefs /\ ~Contains(mux.refs[t], u)
  /\ mux' = [mux EXCEPT !.refs[t] = Append(@, u)]
  /\ unlogged' = unlogged \cup {t}
  /\ UNCHANGED <<phase, log, written, thumb, syncs, synced, outdated,
                 stale, fileVars>>

(* The first sample of a track: those after it change nothing here. *)
Fill(t) ==
  /\ phase = "mux" /\ t \notin mux.filled
  /\ calls < MaxCalls /\ calls' = calls + 1
  /\ mux' = [mux EXCEPT !.filled = @ \cup {t}]
  /\ UNCHANGED <<phase, logVars, stale, fileVars>>

-----------------------------------------------------------------------------
(* The log. *)

(* The count of the references is taken for their size in bytes: of n      *)
(* handles, each one byte and three zeroes, n bytes are logged.            *)
LoggedRefs(handles) ==
  [i \in DOMAIN handles |-> IF 4 * (i - 1) < Len(handles) THEN handles[i] ELSE 0]

TrackRecord(t) ==
  [kind |-> "trak", owner |-> t, refs |-> LoggedRefs(mux.refs[t])]

(* mp4_mux_sync_meta: written counts one more than what was written. *)
MetaRecords(o) ==
  LET skipped == IF written[o] = 0 THEN 0 ELSE written[o] - 1
  IN [i \in 1 .. Len(mux.metas[o]) - skipped |->
        [kind |-> "meta", owner |-> o, meta |-> mux.metas[o][skipped + i]]]

TrackRecords(t) ==
  (IF t \in unlogged THEN <<TrackRecord(t)>> ELSE <<>>)
  \o (IF t \in mux.filled
      THEN <<[kind |-> "samples", owner |-> t]>> \o MetaRecords(t) ELSE <<>>)

(* mp4_mux_incremental_sync: the metadata of a track without samples waits.*)
Sync ==
  /\ phase = "mux" /\ syncs < MaxSyncs
  /\ syncs' = syncs + 1
  /\ log' = log \o FlattenSeq([t \in Tracks |-> TrackRecords(t)])
                \o MetaRecords(File)
                \o (IF mux.cover # 0 /\ ~thumb
                    THEN <<[kind |-> "covr", cover |-> mux.cover]>> ELSE <<>>)
  /\ written' = [o \in DOMAIN written |->
                   IF o \in {File} \cup mux.filled
                   THEN Len(mux.metas[o]) + 1 ELSE written[o]]
  /\ unlogged' = {} /\ thumb' = (thumb \/ mux.cover # 0)
  /\ synced' = mux /\ outdated' = stale
  /\ UNCHANGED <<phase, mux, calls, stale, fileVars>>

Forget ==
  /\ calls' = 0 /\ syncs' = 0
  /\ written' = Unwritten /\ unlogged' = Tracks /\ thumb' = FALSE
  /\ stale' = {}

(* Only the log is left. *)
Crash ==
  /\ phase = "mux" /\ syncs > 0
  /\ phase' = "dead" /\ mux' = Nothing /\ Forget
  /\ UNCHANGED <<log, synced, outdated, fileVars>>

(* mp4_mux_fill_from_file calls what the user called, record by record.    *)
Replayed(m, record) ==
  CASE record.kind = "trak"    -> [m EXCEPT !.refs[record.owner] = record.refs]
    [] record.kind = "samples" -> [m EXCEPT !.filled = @ \cup {record.owner}]
    [] record.kind = "covr"    -> [m EXCEPT !.cover = record.cover]
    [] record.kind = "meta"    ->
         [m EXCEPT !.metas[record.owner] =
            Added(@, record.meta.key, record.meta.value)]

Replay(records) ==
  LET filled[n \in 0 .. Len(records)] ==
        IF n = 0 THEN Nothing ELSE Replayed(filled[n - 1], records[n])
  IN filled[Len(records)]

-----------------------------------------------------------------------------
(* The moov: the boxes of a track with samples, then those of the file.    *)

(* Each of the n references has a box of its own, of n + 2 words: its      *)
(* size, its type (here 0) and all of the references.                      *)
TrefWords(t) ==
  LET n == Len(mux.refs[t])
  IN [i \in 1 .. n * (n + 2) |->
        LET at == (i - 1) % (n + 2)
        IN IF at = 0 THEN 8 + 4 * n ELSE IF at = 1 THEN 0 ELSE mux.refs[t][at - 1]]

MetaBoxes(o) ==
  LET list == Kept(mux.metas[o], "meta")
  IN IF list = <<>> THEN <<>>
     ELSE <<[box |-> "keys", owner |-> o,
             list |-> [i \in DOMAIN list |->
                         [key |-> list[i].key, value |-> NoValue]]]>>
          \o [i \in DOMAIN list |->
                [box |-> "data", owner |-> o, at |-> i,
                 value |-> list[i].value]]

(* The cover goes with the tags, or not at all. *)
UdtaBoxes(o) ==
  LET list == Kept(mux.metas[o], "udta")
  IN IF list = <<>> THEN <<>>
     ELSE <<[box |-> "ilst"]>>
          \o [i \in DOMAIN list |->
                [box |-> "tag", key |-> list[i].key, value |-> list[i].value]]
          \o (IF o = File /\ mux.cover # 0
              THEN <<[box |-> "covr", cover |-> mux.cover]>> ELSE <<>>)

RootBoxes(o) ==
  LET list == Kept(mux.metas[o], "root")
  IN [i \in DOMAIN list |->
        [box |-> "xyz", key |-> list[i].key, value |-> list[i].value]]

InfoBoxes(o) == MetaBoxes(o) \o UdtaBoxes(o) \o RootBoxes(o)

(* Mutant: a track is written without its metadata. *)
TrackBoxesBare(t) ==
  <<[box |-> "trak", owner |-> t, type |-> Types[t]]>>
  \o (IF mux.refs[t] = <<>> THEN <<>>
      ELSE <<[box |-> "tref", owner |-> t, words |-> TrefWords(t)]>>)

TrackBoxes(t) ==
  <<[box |-> "trak", owner |-> t, type |-> Types[t]]>>
  \o (IF mux.refs[t] = <<>> THEN <<>>
      ELSE <<[box |-> "tref", owner |-> t, words |-> TrefWords(t)]>>)
  \o InfoBoxes(t)

Moov ==
  FlattenSeq([t \in Tracks |-> IF t \in mux.filled THEN TrackBoxes(t) ELSE <<>>])
  \o InfoBoxes(File)

(* Otherwise -ENOENT, or -EINVAL. *)
Writable(m) ==
  \A t \in m.filled : \A i \in DOMAIN m.refs[t] :
    /\ m.refs[t][i] \in Tracks
    /\ Types[t] = "metadata" \/ Types[m.refs[t][i]] = "chapters"

Close ==
  /\ phase \in {"mux", "recovered"}
  /\ IF Writable(mux)
     THEN /\ phase' = "closed"
          /\ movie' = Moov
     ELSE phase' = "failed" /\ UNCHANGED movie
  /\ log' = <<>> /\ Forget
  /\ synced' = IF recovered THEN synced ELSE mux
  /\ outdated' = {}
  /\ UNCHANGED <<mux, recovered, shown>>

(* mp4_recovery_recover_file, up to its mp4_mux_close. *)
Recover ==
  /\ phase = "dead"
  /\ phase' = "recovered" /\ recovered' = TRUE
  /\ mux' = Replay(log)
  /\ UNCHANGED <<calls, logVars, stale, movie, shown>>

-----------------------------------------------------------------------------
(* mp4_demux_open. *)

Unread == [refused |-> FALSE, found |-> {}, ids |-> [t \in Tracks |-> <<>>],
           metas |-> [o \in {File} \cup Tracks |-> <<>>],
           udta |-> <<>>, location |-> <<>>, cover |-> 0]

(* The boxes below udta are not told whose udta it is: those of a track    *)
(* are taken for the file's, until the file's own come.  A box 'data'      *)
(* without a byte of a value is refused, and with it the file.             *)
ReadBox(r, b) ==
  IF r.refused \/ (b.box \in {"data", "tag"} /\ b.value = Empty)
  THEN [r EXCEPT !.refused = TRUE]
  ELSE
  CASE b.box = "trak" -> [r EXCEPT !.found = @ \cup {b.owner}]
    [] b.box = "tref" ->
         [r EXCEPT !.ids[b.owner] =
            SubSeq(b.words, 3, IF Len(b.words) < MaxTrackRefs + 2
                               THEN Len(b.words) ELSE MaxTrackRefs + 2)]
    [] b.box = "keys" -> [r EXCEPT !.metas[b.owner] = b.list]
    [] b.box = "data" -> [r EXCEPT !.metas[b.owner][b.at].value = b.value]
    [] b.box = "ilst" -> [r EXCEPT !.udta = <<>>]
    [] b.box = "tag" /\ b.key \in Tags ->
         [r EXCEPT !.udta = Append(@, [key |-> b.key, value |-> b.value])]
    [] b.box = "xyz" -> [r EXCEPT !.location = <<[key |-> b.key, value |-> b.value]>>]
    [] b.box = "covr" -> [r EXCEPT !.cover = b.cover]
    [] OTHER -> r

Reading(boxes) ==
  LET read[n \in 0 .. Len(boxes)] ==
        IF n = 0 THEN Unread ELSE ReadBox(read[n - 1], boxes[n])
  IN read[Len(boxes)]

(* mp4_tracks_build: the last track of metadata that refers to a track; if *)
(* there is no reference, the only one to the only video.                  *)
OfType(r, type) == {t \in r.found : Types[t] = type}

MetadataOf(r, t) ==
  LET links == {m \in OfType(r, "metadata") : Contains(r.ids[m], t)}
      only(type) == Cardinality(OfType(r, type)) = 1
  IN IF links # {} THEN CHOOSE m \in links : \A k \in links : k <= m
     ELSE IF Types[t] = "video" /\ only("video") /\ only("metadata")
             /\ OfType(r, "audio") = {}
          THEN CHOOSE m \in OfType(r, "metadata") : TRUE
     ELSE 0

(* Every track of chapters that another track refers to loses its type. *)
Chapters(r) ==
  {u \in OfType(r, "chapters") : \E t \in r.found \ OfType(r, "metadata") :
     Contains(r.ids[t], u)}

(* mp4_metadata_build *)
FileMetadata(r) ==
  LET all == r.metas[File] \o r.udta \o r.location
  IN Only(all, {meta \in AsSet(all) : meta.value \notin {NoValue, Empty}})

Shown(r) ==
  [file |-> FileMetadata(r), tracks |-> r.metas, cover |-> r.cover,
   metadata |-> [t \in r.found |-> MetadataOf(r, t)], chapters |-> Chapters(r)]

Open ==
  /\ phase = "closed"
  /\ LET r == Reading(movie)
     IN IF r.refused THEN phase' = "refused" /\ UNCHANGED shown
        ELSE /\ phase' = "open"
             /\ shown' = Shown(r)
  /\ UNCHANGED <<mux, calls, logVars, stale, recovered, movie>>

-----------------------------------------------------------------------------
Next ==
  \/ \E o \in Owners, key \in Keys, value \in Values : AddMetadata(o, key, value)
  \/ SetCover
  \/ \E t, u \in Tracks : AddRef(t, u)
  \/ \E t \in Tracks : Fill(t)
  \/ Sync \/ Crash \/ Recover
  \/ Close \/ Open

Spec == Init /\ [][Next]_vars

-----------------------------------------------------------------------------
(* Correctness. *)

Meta == [key : Keys, value : Values]
Muxed == [metas : [{File} \cup Tracks -> Seq(Meta)], cover : 0 .. MaxCalls,
          refs : [Tracks -> Seq({0} \cup Tracks)], filled : SUBSET Tracks]

(* The muxer has a list of keys and values of which no key occurs twice,   *)
(* and never counts more of them as logged than it has.                    *)
TypeOK ==
  /\ phase \in Phases
  /\ mux \in Muxed /\ synced \in Muxed
  /\ \A o \in DOMAIN mux.metas :
       /\ Cardinality(Keyed(mux.metas[o])) = Len(mux.metas[o])
       /\ phase = "mux" => written[o] \in 0 .. Len(mux.metas[o]) + 1
  /\ unlogged \subseteq Tracks /\ thumb \in BOOLEAN /\ recovered \in BOOLEAN
  /\ stale \subseteq Keys /\ outdated \subseteq Keys

(* The demuxer shows every key of the file that it knows, with its value,  *)
(* and nothing else; but for the tags, or the location, of a track when    *)
(* the file has none of its own.  A track shows its own keys that begin    *)
(* with "com.", and no other.  A file that was closed is only refused for  *)
(* an empty value.                                                         *)
FileShown ==
  LET own == AsSet(mux.metas[File])
      strays(storage) ==
        IF Kept(mux.metas[File], storage) # <<>> THEN {}
        ELSE UNION {AsSet(Kept(mux.metas[t], storage)) : t \in mux.filled}
  IN /\ {meta \in own : meta.key \notin OtherTags /\ meta.value # Empty}
           \subseteq AsSet(shown.file)
     /\ AsSet(shown.file) \subseteq own \cup strays("udta") \cup strays("root")

HasEmptyValue ==
  \E o \in {File} \cup mux.filled : \E meta \in AsSet(mux.metas[o]) :
    meta.value = Empty /\ Storage(meta.key) # "root"

MetadataShown ==
  /\ phase = "open" =>
       /\ FileShown
       /\ \A t \in mux.filled :
            AsSet(shown.tracks[t]) = AsSet(Kept(mux.metas[t], "meta"))
  /\ phase = "refused" => HasEmptyValue

(* What mp4_mux_sync logged is what the recovery has: of every track with  *)
(* samples the metadata, overridden or not, and the cover; of the file the *)
(* keys, and the values of those that were not overridden after a sync.    *)
(* The recovery then fails to write the movie only where mp4_mux_close     *)
(* would have failed, or if a track has several references: of those the   *)
(* log has as many bytes as there should be numbers of four bytes.         *)
Recovered ==
  /\ phase = "recovered" =>
       /\ mux.filled = synced.filled /\ mux.cover = synced.cover
       /\ \A t \in mux.filled : AsSet(mux.metas[t]) = AsSet(synced.metas[t])
       /\ Keyed(mux.metas[File]) = Keyed(synced.metas[File])
       /\ \A meta \in AsSet(synced.metas[File]) :
            meta.key \notin outdated => meta \in AsSet(mux.metas[File])
  /\ phase = "failed" /\ recovered /\ Writable(synced) =>
       \E t \in synced.filled : Len(synced.refs[t]) > 1

(* The tracks that go together when the file is read are those that the    *)
(* references of the muxer, when it was synced if the file was recovered,  *)
(* put together.                                                           *)
LinksShown ==
  phase = "open" =>
    LET linked(t) == {m \in synced.filled : Types[m] = "metadata" /\
                                              Contains(synced.refs[m], t)}
    IN /\ \A t \in synced.filled :
            linked(t) # {} => shown.metadata[t] \in linked(t)
       /\ shown.chapters =
            {u \in synced.filled : Types[u] = "chapters" /\
               \E t \in synced.filled : Types[t] # "metadata" /\
                                           Contains(synced.refs[t], u)}
=============================================================================
