------------------------------ MODULE Playback ------------------------------
(***************************************************************************)
(* What the demuxer promises to a player: each track has a sample that is  *)
(* the next one to be shown.  Showing it moves on to the next one; a seek  *)
(* moves the tracks to the samples that the method names for the time.     *)
(* Samples that are only decoded, not shown, are not seen at all here.     *)
(***************************************************************************)
EXTENDS Integers, Sequences

CONSTANTS
  Tracks,  (* 1 .. the number of tracks                            *)
  Moments  (* the times that can be asked for, in each track's own *)
           (* timescale                                            *)

Methods == {"previous", "previous_sync", "nearest", "nearest_sync", "next",
            "next_sync"}

VARIABLES
  times,  (* the decoding times of each track             *)
  sync,   (* the numbers of the sync samples of each track *)
  at      (* the next sample to be shown of each track    *)

vars == <<times, sync, at>>

Samples(t) == DOMAIN times[t]

(* Two samples at the same time cannot be told apart by a time. *)
Distinct == \A t \in Tracks : \A i, j \in Samples(t) :
              times[t][i] = times[t][j] => i = j

Least(S)    == CHOOSE i \in S : \A j \in S : i <= j
Greatest(S) == CHOOSE i \in S : \A j \in S : j <= i
Distance(t, i, ts) ==
  IF times[t][i] < ts THEN ts - times[t][i] ELSE times[t][i] - ts

AtOrBefore(t, ts) == Greatest({i \in Samples(t) : times[t][i] <= ts})
After(t, ts)      == {i \in Samples(t) : i > AtOrBefore(t, ts)}
Nearest(t, S, ts) ==
  Least({i \in S : \A j \in S : Distance(t, i, ts) <= Distance(t, j, ts)})

(* The samples that a method can mean: none where there is no such sample. *)
(* The nearest sync sample is looked for only from the previous sample on. *)
Aims(t, ts, method) ==
  LET last == AtOrBefore(t, ts)
      ahead == {i \in sync[t] : i >= last}
  IN CASE method = "previous" -> {last}
       [] method = "previous_sync" ->
            IF \E i \in sync[t] : i <= last THEN {last}
            ELSE IF ahead # {} THEN {Least(ahead)} ELSE {}
       [] method = "nearest" -> {Nearest(t, Samples(t), ts)}
       [] method = "nearest_sync" ->
            IF ahead # {} THEN {Nearest(t, ahead, ts)} ELSE {}
       [] method = "next" ->
            IF After(t, ts) # {} THEN {last + 1} ELSE {}
       [] method = "next_sync" ->
            IF ahead \ {last} # {} THEN {Least(ahead \ {last})} ELSE {}

Show(t) ==
  /\ at[t] \in Samples(t)
  /\ at' = [at EXCEPT ![t] = @ + 1]
  /\ UNCHANGED <<times, sync>>

(* The tracks are moved in their order, up to the first one that cannot be.*)
Seek(ts, method) ==
  LET aims  == [t \in Tracks |-> Aims(t, ts[t], method)]
      moved == {t \in Tracks : \A u \in 1 .. t : aims[u] # {}}
  IN /\ at' \in [Tracks -> Nat]
     /\ \A t \in Tracks : IF t \in moved THEN at'[t] \in aims[t]
                           ELSE at'[t] = at[t]
     /\ UNCHANGED <<times, sync>>

Init ==
  /\ times = [t \in Tracks |-> <<>>]
  /\ sync = [t \in Tracks |-> {}]
  /\ at = [t \in Tracks |-> 1]

Open ==
  /\ \A t \in Tracks : Samples(t) = {}
  /\ times' \in [Tracks -> Seq(Nat)] /\ sync' \in [Tracks -> SUBSET Nat]
  /\ at' = [t \in Tracks |-> 1]

(* Nothing is promised about them. *)
SeekAmongEquals ==
  /\ ~Distinct
  /\ at' \in [Tracks -> Nat]
  /\ UNCHANGED <<times, sync>>

Next ==
  \/ Open
  \/ \E t \in Tracks : Show(t)
  \/ \E ts \in Moments, method \in Methods : Seek(ts, method)
  \/ SeekAmongEquals

Spec == Init /\ [][Next]_vars
=============================================================================
