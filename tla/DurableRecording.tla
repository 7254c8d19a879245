--------------------------- MODULE DurableRecording ---------------------------
(***************************************************************************)
(* What the muxer and its recovery promise together to an application,     *)
(* without any file: samples are appended to tracks, a successful          *)
(* mp4_mux_sync promises every sample appended so far, and a recording,    *)
(* closed or interrupted and recovered, ends in a movie that shows at      *)
(* least the promised samples of each track, and no other ones than those  *)
(* appended.                                                               *)
(***************************************************************************)
EXTENDS Naturals

CONSTANTS Handles   (* the tracks *)

VARIABLES
  phase,      (* "recording", "stopped", "finished", "refused", "discarded" *)
  appended,   (* appended[h]: samples added to track h                      *)
  promised,   (* promised[h]: the first of them that a sync has promised    *)
  published   (* published[h]: the first of them that the movie shows       *)

recording == <<phase, appended, promised, published>>

Nothing == [h \in Handles |-> 0]

Init ==
  /\ phase = "recording"
  /\ appended = Nothing /\ promised = Nothing /\ published = Nothing

AppendSample(h) ==
  /\ phase = "recording"
  /\ appended' = [appended EXCEPT ![h] = @ + 1]
  /\ UNCHANGED <<phase, promised, published>>

Promise ==
  /\ phase = "recording"
  /\ promised' = appended
  /\ UNCHANGED <<phase, appended, published>>

(* mp4_mux_sync with write_tables. *)
Publish ==
  /\ phase = "recording"
  /\ published' = appended
  /\ UNCHANGED <<phase, appended, promised>>

(* mp4_mux_close. *)
Finish ==
  /\ phase = "recording" /\ phase' = "finished"
  /\ published' = appended
  /\ UNCHANGED <<appended, promised>>

(* The movie is lost with the process that was rewriting it, or when a     *)
(* recovery begins.                                                        *)
Stop ==
  /\ phase \in {"recording", "stopped"} /\ phase' = "stopped"
  /\ published' \in {published, Nothing}
  /\ UNCHANGED <<appended, promised>>

Reopen ==
  /\ phase = "finished" /\ phase' = "stopped"
  /\ published' = Nothing
  /\ UNCHANGED <<appended, promised>>

Recover ==
  /\ phase = "stopped" /\ phase' = "finished"
  /\ published' \in [Handles -> Nat]
  /\ \A h \in Handles :
       promised[h] <= published'[h] /\ published'[h] <= appended[h]
  /\ UNCHANGED <<appended, promised>>

(* Only a recording in which nothing was promised is beyond recovery. *)
Refuse ==
  /\ phase \in {"stopped", "finished"} /\ phase' = "refused"
  /\ promised = Nothing
  /\ UNCHANGED <<appended, promised, published>>

Discard ==
  /\ phase = "finished" /\ phase' = "discarded"
  /\ published' \in {published, Nothing}
  /\ UNCHANGED <<appended, promised>>

Next ==
  \/ \E h \in Handles : AppendSample(h)
  \/ Promise \/ Publish \/ Finish \/ Stop \/ Reopen
  \/ Recover \/ Refuse \/ Discard

Spec == Init /\ [][Next]_recording
=============================================================================
