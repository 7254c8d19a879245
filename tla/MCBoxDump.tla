----------------------------- MODULE MCBoxDump -----------------------------
(* Small instances of BoxDump for TLC. *)
EXTENDS BoxDump

OneTrack(kind, params) ==
  [kind |-> kind, refs |-> 0, samples |-> 2, deltas |-> 1, syncs |-> 1,
   params |-> params, keys |-> 0, tags |-> 0, located |-> FALSE]

Avc      == OneTrack("avc", 30)
Hevc     == OneTrack("hevc", 90)
Audio    == OneTrack("audio", 2)
(* Three descriptors whose lengths take two bytes. *)
LongAudio == OneTrack("audio", 130)
(* With tables of which the dump skips some, or all. *)
Long(track) == [track EXCEPT !.samples = 3, !.deltas = 2, !.syncs = 0]
Longer(track) == [track EXCEPT !.samples = 4, !.deltas = 3, !.syncs = 3]
Metadata == [OneTrack("metadata", 0) EXCEPT !.refs = 2, !.keys = 1]
Chapters == [OneTrack("chapters", 0) EXCEPT !.tags = 1, !.located = TRUE]

Recorded(tracks, keys, tags, located, moov, mdat, padding, data) ==
  [tracks |-> tracks, keys |-> keys, tags |-> tags, located |-> located,
   moov |-> moov, mdat |-> mdat, padding |-> padding, data |-> data]

TrackLists == {<<>>, <<Avc, LongAudio>>, <<Longer(Hevc)>>, <<Long(Audio), Metadata>>,
               <<Avc, Chapters, Metadata>>}

(* Every kind of track, with and without metadata, and every place of the  *)
(* moov.                                                                   *)
AllRecordings ==
  {Recorded(tracks, metadata[1], metadata[2], metadata[3], moov, mdat, 20, data) :
     tracks \in TrackLists,
     metadata \in {<<0, 0, FALSE>>, <<2, 1, FALSE>>, <<0, 0, TRUE>>},
     moov \in {"front", "behind"},
     mdat \in {"mdat", "wide"}, data \in {40, 20000}}
  \cup {Recorded(<<>>, 0, 0, FALSE, "none", "open", 900, data) : data \in {0, 40}}

(* For the cuts: what ends the moov is a table that is read, or skipped,   *)
(* a value, a location.                                                    *)
CutRecordings ==
  {Recorded(<<Avc>>, 0, 0, FALSE, "behind", "mdat", 20, 40),
   Recorded(<<Longer(Avc)>>, 0, 0, FALSE, "behind", "mdat", 20, 40),
   Recorded(<<Long(Avc), Audio>>, 0, 0, FALSE, "front", "mdat", 20, 40),
   Recorded(<<>>, 2, 0, FALSE, "behind", "mdat", 20, 40),
   Recorded(<<LongAudio>>, 0, 1, FALSE, "behind", "mdat", 20, 40),
   Recorded(<<Chapters>>, 1, 1, TRUE, "front", "wide", 20, 40),
   Recorded(<<Hevc>>, 0, 0, TRUE, "behind", "mdat", 20, 40),
   Recorded(<<>>, 0, 0, FALSE, "none", "open", 100, 40)}

Dumped == AllRecordings \cup CutRecordings
=============================================================================
