------------------------------ MODULE MCMuxFile ------------------------------
(* Small instances of MuxFile for TLC. *)
EXTENDS MuxFile

OneSize == {4}
NewOrOld == {0, 24}
NewFile  == {0}
=============================================================================
