--------------------------- MODULE MCTrackConfig ---------------------------
(* Small instances of TrackConfig for TLC. *)
EXTENDS TrackConfig

Pairs == {<<"audio", "video">>, <<"video", "metadata">>, <<"video", "chapters">>}

Info(chroma, rate, layers) ==
  [space |-> 1, tier |-> 1, idc |-> 2, flags |-> 5, parallelism |-> 1,
   chroma |-> chroma, depth |-> 10, rate |-> rate, layers |-> layers,
   nested |-> 1, length |-> 4]

Hevc(info, sps, width) ==
  [codec |-> "HEVC", vps |-> "vps", sps |-> sps, pps |-> "pps", info |-> info,
   width |-> width, height |-> 720]

Avc(sps, width) ==
  [codec |-> "AVC", vps |-> "none", sps |-> sps, pps |-> "pps", info |-> NoInfo,
   width |-> width, height |-> 480]

ManyVideos ==
  {Hevc(Info(1, 0, 1), "sps", 1280), Hevc(Info(2, 1, 3), "sps2", 70000),
   Avc("sps", 640), Avc("none", 320), Avc("short", 640)}

ManyAudios ==
  {[asc |-> "lc", channels |-> 1, size |-> 16, rate |-> 48000],
   [asc |-> "he", channels |-> 2, size |-> 16, rate |-> 96000]}

ManyMimes ==
  {[encoding |-> Null, mime |-> "json"], [encoding |-> "", mime |-> "json"]}
=============================================================================
