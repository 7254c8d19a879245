---------------------------- MODULE SampleTables ----------------------------
(***************************************************************************)
(* The tables of a track, as functions of the samples: what the muxer      *)
(* makes of their decoding times when it closes, and what the demuxer      *)
(* makes of the tables when it opens the file; and how both convert times  *)
(* between timescales.  Samples are numbered from 1.                       *)
(***************************************************************************)
EXTENDS Integers, Sequences, SequencesExt

CONSTANTS
  Wrap,  (* 2^32: deltas of decoding times have 32 bits *)
  Usec   (* 1000000: microseconds in a second           *)

ASSUME TablesAssumption == Wrap \in Nat \ {0} /\ Usec \in Nat \ {0}

-----------------------------------------------------------------------------
(* Timescales *)

(* Mutant: the time is not rounded. *)
UsecToSampleTimeCut(time, timescale) == (time * timescale) \div Usec

UsecToSampleTime(time, timescale) == (time * timescale + Usec \div 2) \div Usec

SampleTimeToUsec(time, timescale) ==
  (time * Usec + timescale \div 2) \div timescale

ConvertTimescale(time, from, to) ==
  IF from = to THEN time ELSE (time * to + from \div 2) \div from

-----------------------------------------------------------------------------
(* mp4_mux_track_compute_tts: a run of equal deltas is an entry, and the   *)
(* last sample has an entry of its own.                                    *)
Delta(dts, i) == (dts[i] - dts[i - 1]) % Wrap

(* Mutant: the last sample has no entry. *)
TimeToSampleUnended(dts) ==
  LET runs[i \in 0 .. Len(dts)] ==
        IF i <= 1 THEN <<>>
        ELSE IF i = 2 \/ Delta(dts, i) # Delta(dts, i - 1)
        THEN Append(runs[i - 1], [count |-> 1, delta |-> Delta(dts, i)])
        ELSE [runs[i - 1] EXCEPT ![Len(runs[i - 1])].count = @ + 1]
  IN runs[Len(dts)]

(* The delta before the first one is UINT32_MAX, with no entry to count.   *)
PreviousDelta(dts, i) == IF i = 2 THEN Wrap - 1 ELSE Delta(dts, i - 1)

(* The entries before the first i samples, and what sample i makes of them.*)
Counted(dts, before, i) ==
  IF i <= 1 THEN <<>>
  ELSE IF Delta(dts, i) # PreviousDelta(dts, i)
  THEN Append(before, [count |-> 1, delta |-> Delta(dts, i)])
  ELSE IF before = <<>> THEN before
  ELSE [before EXCEPT ![Len(before)].count = @ + 1]

Runs(dts) ==
  LET runs[i \in 0 .. Len(dts)] ==
        IF i = 0 THEN <<>> ELSE Counted(dts, runs[i - 1], i)
  IN runs

TimeToSample(dts) ==
  IF dts = <<>> THEN <<>>
  ELSE Append(Runs(dts)[Len(dts)], [count |-> 1, delta |-> 0])

Duration(dts) ==
  LET sum[i \in 0 .. Len(dts)] ==
        IF i <= 1 THEN 0 ELSE sum[i - 1] + Delta(dts, i)
  IN sum[Len(dts)]

-----------------------------------------------------------------------------
(* mp4_tracks_build: the decoding times start at 0. *)
Deltas(stts) ==
  FlattenSeq([e \in DOMAIN stts |->
                [j \in 1 .. stts[e].count |-> stts[e].delta]])

Elapsed(delta) ==
  LET ts[i \in 0 .. Len(delta)] ==
        IF i <= 1 THEN 0 ELSE ts[i - 1] + delta[i - 1]
  IN ts

DecodingTimes(stts) ==
  [i \in 1 .. Len(Deltas(stts)) |-> Elapsed(Deltas(stts))[i]]

(* -EPROTO: there is no sample, or the entries do not count them all. *)
Buildable(stts, count) == count > 0 /\ Len(Deltas(stts)) = count
=============================================================================
