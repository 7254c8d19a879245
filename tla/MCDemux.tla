------------------------------- MODULE MCDemux ------------------------------
(* Small instances of Demux for TLC: a video track and its metadata. *)
EXTENDS Demux

TwoTracks      == {1, 2}
FirstTrack     == {1}
Timescales     == <<3, 2>>
SecondOfFirst  == <<2, 0>>
FewDts         == {0, 1, 3}
FewTimes       == {0, 1, 3, 4, 6}
SamplesOfEach  == <<3, 2>>
=============================================================================
