---------------------------- MODULE MCRecoveryLog ----------------------------
(* Small instances of RecoveryLog for TLC. *)
EXTENDS RecoveryLogInv

NoFaults   == {}
DiskFaults == {"disk"}
Power      == {"power"}
WriteFault == {"write"}
AllFaults  == {"disk", "write", "power"}

Track(t)   == [type |-> t, enabled |-> TRUE]
Video      == {Track("video")}
Audio      == {Track("audio")}
VideoTwice == {Track("video"), [type |-> "video", enabled |-> FALSE]}
AudioTwice == {Track("audio"), [type |-> "audio", enabled |-> FALSE]}
VideoMeta  == {Track("video"), Track("metadata")}

UnitSize == {1}
TwoSizes == {1, 2}
=============================================================================
