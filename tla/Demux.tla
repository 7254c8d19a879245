------------------------------- MODULE Demux --------------------------------
(***************************************************************************)
(* The demuxer on a file that the muxer wrote: the samples are added, the  *)
(* file is closed and opened, and then a player reads samples, steps and   *)
(* seeks.  A call is an action; a track has a cursor, nextSample, and a    *)
(* time before which its samples are silent, that is decoded but not shown.*)
(*                                                                         *)
(* Samples, and so nextSample, count from 1 here, from 0 in the code.      *)
(***************************************************************************)
EXTENDS SampleTables, FiniteSets

CONSTANTS
  Tracks,     (* 1 .. the number of tracks: mp4->tracks, in its order       *)
  Video,      (* the video tracks, the only ones with a table of sync samples *)
  Timescale,  (* the timescale of each track                               *)
  Metadata,   (* tk->metadata: the metadata track of a track, or 0         *)
  MaxSamples, (* bound: samples of each track                              *)
  Dts,        (* the decoding times used                                  *)
  Sought      (* the times sought, in microseconds                        *)

ASSUME TracksAssumption ==
  /\ IsFiniteSet(Tracks) /\ Tracks = 1 .. Cardinality(Tracks)
  /\ Video \subseteq Tracks
  /\ Timescale \in [Tracks -> Nat \ {0}]
  /\ Metadata \in [Tracks -> {0} \cup Tracks]
  /\ MaxSamples \in [Tracks -> Nat] /\ Dts \subseteq Nat /\ Sought \subseteq Nat

VARIABLES
  phase,           (* of the file: muxed, refused by mp4_demux_open, open  *)
  dts,             (* decoding times of the samples added                  *)
  keys,            (* which of them are in track->sync                     *)
  times,           (* tk->sampleDecodingTime                               *)
  duration,        (* tk->duration                                         *)
  nextSample,
  pendingSeekTime,
  decoded          (* history: the sample up to which a decoder that got   *)
                   (* the samples so far could follow them                 *)

vars == <<phase, dts, keys, times, duration, nextSample, pendingSeekTime,
          decoded>>
media == <<phase, dts, keys, times, duration>>

Phases == {"mux", "refused", "open", "killed"}

(* Values of decoded besides a sample: none can be shown before a sync     *)
(* sample; any can, after a seek that does not care; one was that could    *)
(* not.                                                                    *)
Lost == 0
Loose == -1
Broken == -2

Count(t) == Len(times[t])
Samples(t) == 1 .. Count(t)

Init ==
  /\ phase = "mux"
  /\ dts = [t \in Tracks |-> <<>>] /\ keys = [t \in Tracks |-> {}]
  /\ times = [t \in Tracks |-> <<>>] /\ duration = [t \in Tracks |-> 0]
  /\ nextSample = [t \in Tracks |-> 1]
  /\ pendingSeekTime = [t \in Tracks |-> 0]
  /\ decoded = [t \in Tracks |-> Loose]

-----------------------------------------------------------------------------
LastDts(t) == IF dts[t] = <<>> THEN 0 ELSE Last(dts[t])

(* mp4_mux_track_add_sample.  A last_dts of 0 is taken for none. *)
AddSample(t, time, sync) ==
  /\ phase = "mux" /\ Len(dts[t]) < MaxSamples[t]
  /\ LastDts(t) = 0 \/ time > LastDts(t)
  /\ dts' = [dts EXCEPT ![t] = Append(@, time)]
  /\ keys' = IF sync /\ t \in Video
             THEN [keys EXCEPT ![t] = @ \cup {Len(dts[t]) + 1}] ELSE keys
  /\ UNCHANGED <<phase, times, duration, nextSample, pendingSeekTime, decoded>>

(* mp4_mux_close and mp4_demux_open.  The muxer leaves a track without     *)
(* samples out of the file, which is then that of the other tracks alone.  *)
Open ==
  /\ phase = "mux" /\ \A t \in Tracks : dts[t] # <<>>
  /\ LET stts(t) == TimeToSample(dts[t])
     IN IF \A t \in Tracks : Buildable(stts(t), Len(dts[t]))
        THEN /\ phase' = "open"
             /\ times' = [t \in Tracks |-> DecodingTimes(stts(t))]
             /\ duration' = [t \in Tracks |-> Duration(dts[t])]
        ELSE /\ phase' = "refused"
             /\ UNCHANGED <<times, duration>>
  /\ UNCHANGED <<dts, keys, nextSample, pendingSeekTime, decoded>>

-----------------------------------------------------------------------------
(* mp4_track.c.  0 stands for no sample, -ENOENT. *)

(* Mutant: the entries count from 1, the samples from 0. *)
IsSyncUncorrected(t, i) == keys[t] = {} \/ i - 1 \in keys[t]

(* No table is written without a sync sample, and then all of them are.    *)
IsSync(t, i) == keys[t] = {} \/ i \in keys[t]

Searchable(t, i, sync) == sync => IsSync(t, i)

Least(S)    == IF S = {} THEN 0 ELSE CHOOSE i \in S : \A j \in S : i <= j
Greatest(S) == IF S = {} THEN 0 ELSE CHOOSE i \in S : \A j \in S : j <= i

PrevSync(t, i) == Greatest({j \in keys[t] : j < i})

(* Mutant: the comparison is that of MP4_TIME_CMP_LT_EQ. *)
FindNotAfter(t, time, sync, start) ==
  Greatest({i \in 1 .. start : times[t][i] <= time /\ Searchable(t, i, sync)})

FindBefore(t, time, sync, start) ==
  Greatest({i \in 1 .. start : times[t][i] < time /\ Searchable(t, i, sync)})

(* Mutant: the comparison is that of MP4_TIME_CMP_GT_EQ. *)
FindNotBefore(t, time, sync, start) ==
  Least({i \in start .. Count(t) :
           times[t][i] >= time /\ Searchable(t, i, sync)})

FindAfter(t, time, sync, start) ==
  Least({i \in start .. Count(t) :
           times[t][i] > time /\ Searchable(t, i, sync)})

Gap(a, b) == IF a < b THEN b - a ELSE a - b

(* The search goes on until a sample is farther away than the one before. *)
FindNearest(t, time, sync, start) ==
  LET away    == [i \in Samples(t) |-> Gap(times[t][i], time)]
      all     == {i \in start .. Count(t) : Searchable(t, i, sync)}
      visited == {i \in all : \A j, k \in all :
                    j < k /\ k < i => away[k] <= away[j]}
  IN Least({i \in visited : \A j \in visited : away[i] <= away[j]})

-----------------------------------------------------------------------------
(* get_seek_sample *)
Methods == {"previous", "previous_sync", "nearest", "nearest_sync", "next",
            "next_sync"}

SeekSample(t, start, ts, method) ==
  LET next(sync) == FindAfter(t, times[t][start], sync, start)
  IN CASE method = "previous"      -> start
       [] method = "previous_sync" -> IF IsSync(t, start) THEN start
                                      ELSE IF PrevSync(t, start) # 0
                                      THEN PrevSync(t, start)
                                      ELSE next(TRUE)
       [] method = "nearest"       -> FindNearest(t, ts, FALSE, start)
       [] method = "nearest_sync"  -> FindNearest(t, ts, TRUE, start)
       [] method = "next"          -> next(FALSE)
       [] method = "next_sync"     -> next(TRUE)

(* Where mp4_demux_seek begins to search: an estimate of the sample.  A    *)
(* division by a duration of 0 that does not kill the process gives 0.     *)
Estimate(t, ts) ==
  LET index == IF duration[t] = 0 THEN 0
               ELSE (Count(t) * ts + duration[t] - 1) \div duration[t]
  IN IF index < Count(t) THEN index + 1 ELSE Count(t)

(* From there, forward to the time and back to it. *)
SeekStart(t, ts) ==
  LET forward == Least({i \in Estimate(t, ts) .. Count(t) :
                          times[t][i] >= ts \/ i = Count(t)})
  IN Greatest({i \in 1 .. forward : times[t][i] <= ts})

(* mp4_demux_seek moves the tracks in their order and returns -ENOENT at   *)
(* the first one that has no such sample: the ones before it have moved.   *)
SeekTo(time, method) ==
  LET ts    == [t \in Tracks |-> UsecToSampleTime(time, Timescale[t])]
      start == [t \in Tracks |-> SeekStart(t, ts[t])]
      found == [t \in Tracks |-> SeekSample(t, start[t], ts[t], method)]
      moved == {t \in Tracks : \A u \in 1 .. t : found[u] # 0}
      exact == method \in {"previous_sync", "nearest_sync", "next_sync"}
  IN /\ nextSample' =
          [t \in Tracks |-> IF t \in moved THEN found[t] ELSE nextSample[t]]
     /\ pendingSeekTime' =
          [t \in Tracks |-> IF t \notin moved THEN pendingSeekTime[t]
                            ELSE IF found[t] = start[t] THEN 0
                            ELSE times[t][start[t]]]
     /\ decoded' =
          [t \in Tracks |-> IF t \notin moved THEN decoded[t]
                            ELSE IF exact THEN Lost ELSE Loose]
     /\ UNCHANGED media

Seek(time, method) == phase = "open" /\ SeekTo(time, method)

(* The process may die of a division by zero. *)
SeekKills ==
  /\ phase = "open" /\ \E t \in Tracks : duration[t] = 0
  /\ phase' = "killed"
  /\ UNCHANGED <<dts, keys, times, duration, nextSample, pendingSeekTime,
                 decoded>>

-----------------------------------------------------------------------------
(* Mutant: two neighbours may be as close as each other. *)
MetadataSampleOfEither(t, i) ==
  LET m == Metadata[t]
      found == FindNearest(m, ConvertTimescale(times[t][i], Timescale[t],
                                               Timescale[m]), FALSE, 1)
      time == ConvertTimescale(times[m][found], Timescale[m], Timescale[t])
      away(j) == Gap(time, times[t][j])
  IN IF m # 0 /\ \A j \in {i - 1, i + 1} \cap Samples(t) : away(i) <= away(j)
     THEN found ELSE 0

(* get_metadata_sample_from_ref_track: the metadata of sample i, or 0. *)
MetadataSample(t, i) ==
  LET m == Metadata[t]
      found == FindNearest(m, ConvertTimescale(times[t][i], Timescale[t],
                                               Timescale[m]), FALSE, 1)
      time == ConvertTimescale(times[m][found], Timescale[m], Timescale[t])
      away(j) == Gap(time, times[t][j])
  IN IF m # 0 /\ (\/ away(i) = 0
                  \/ \A j \in {i - 1, i + 1} \cap Samples(t) :
                       away(i) < away(j))
     THEN found ELSE 0

(* track_sample->silent *)
Silent(t) ==
  pendingSeekTime[t] # 0 /\ times[t][nextSample[t]] < pendingSeekTime[t]

(* A decoder can follow with a sync sample of the muxer, or with the one   *)
(* that comes after the last one, which it may be given twice.             *)
Follow(t, i) ==
  IF keys[t] = {} \/ i \in keys[t] \/ decoded[t] \in {i - 1, i} \ {Lost} THEN i
  ELSE IF decoded[t] \in {Loose, Broken} THEN decoded[t]
  ELSE IF Silent(t) THEN Lost ELSE Broken

(* Mutant: the wait ends with the first sample got. *)
GetSampleImpatient(t, advance) ==
  /\ phase = "open" /\ nextSample[t] <= Count(t)
  /\ pendingSeekTime' = [pendingSeekTime EXCEPT ![t] = 0]
  /\ nextSample' = IF advance THEN [nextSample EXCEPT ![t] = @ + 1]
                   ELSE nextSample
  /\ decoded' = [decoded EXCEPT ![t] = Follow(t, nextSample[t])]
  /\ UNCHANGED media

(* Mutant: the sample after the last one can be got, too. *)
GetSampleAtEnd(t, advance) ==
  /\ phase = "open" /\ nextSample[t] <= Count(t) + 1
  /\ nextSample' = IF advance THEN [nextSample EXCEPT ![t] = @ + 1]
                   ELSE nextSample
  /\ UNCHANGED <<media, pendingSeekTime, decoded>>

(* mp4_demux_get_track_sample.  At the end, and when the sample cannot be  *)
(* read or the buffer is too small, it changes nothing.                    *)
GetSample(t, advance) ==
  /\ phase = "open" /\ nextSample[t] <= Count(t)
  /\ pendingSeekTime' =
       [pendingSeekTime EXCEPT ![t] =
          IF times[t][nextSample[t]] >= @ THEN 0 ELSE @]
  /\ nextSample' = IF advance THEN [nextSample EXCEPT ![t] = @ + 1]
                   ELSE nextSample
  /\ decoded' = [decoded EXCEPT ![t] = Follow(t, nextSample[t])]
  /\ UNCHANGED media

(* track_sample->prev_sync_dts and next_sync_dts: of these samples, or 0 *)
PrevSyncSample(t, i) == FindBefore(t, times[t][i], TRUE, i)
NextSyncSample(t, i) == FindAfter(t, times[t][i], TRUE, i)

SampleUsec(t, i) == SampleTimeToUsec(times[t][i], Timescale[t])

(* mp4_demux_seek_to_track_prev_sample *)
SeekPrev(t) ==
  /\ phase = "open" /\ nextSample[t] # 2
  /\ SeekTo(SampleUsec(t, IF nextSample[t] > 2 THEN nextSample[t] - 2 ELSE 1),
            "previous_sync")

(* mp4_demux_seek_to_track_next_sample *)
SeekNext(t, resync) ==
  /\ phase = "open"
  /\ nextSample[t] <= (IF resync THEN Count(t) ELSE Count(t) - 1)
  /\ IF resync THEN SeekTo(SampleUsec(t, nextSample[t]), "previous_sync")
     ELSE SeekTo(SampleUsec(t, nextSample[t] + 1), "previous")

-----------------------------------------------------------------------------
Next ==
  \/ \E t \in Tracks, time \in Dts, sync \in BOOLEAN :
       AddSample(t, time, sync)
  \/ Open
  \/ \E time \in Sought, method \in Methods : Seek(time, method)
  \/ SeekKills
  \/ \E t \in Tracks, advance \in BOOLEAN : GetSample(t, advance)
  \/ \E t \in Tracks : SeekPrev(t)
  \/ \E t \in Tracks, resync \in BOOLEAN : SeekNext(t, resync)

Spec == Init /\ [][Next]_vars

-----------------------------------------------------------------------------
(* Correctness. *)

(* Every variable has the type of its field of struct mp4_track: a cursor  *)
(* is at a sample or at the end, and what it waits for is the time of one. *)
TypeOK ==
  /\ phase \in Phases
  /\ dts \in [Tracks -> Seq(Nat)] /\ times \in [Tracks -> Seq(Nat)]
  /\ keys \in [Tracks -> SUBSET Nat] /\ duration \in [Tracks -> Nat]
  /\ \A t \in Tracks :
       /\ nextSample[t] \in 1 .. Count(t) + 1
       /\ pendingSeekTime[t] \in {0} \cup {times[t][i] : i \in Samples(t)}
       /\ decoded[t] \in Broken .. Count(t)

(* The times that are sought: those asked for, and the times of samples,   *)
(* each of which is the sum of the deltas before it.                       *)
Moments ==
  LET samples == UNION {{SampleTimeToUsec(x, Timescale[t]) :
                           x \in 0 .. (MaxSamples[t] - 1) * (Wrap - 1)} :
                          t \in Tracks}
  IN {[t \in Tracks |-> UsecToSampleTime(time, Timescale[t])] :
        time \in Sought \cup samples}

(* The next sample that is not silent. *)
Audible(t) ==
  IF pendingSeekTime[t] = 0 THEN nextSample[t]
  ELSE Least({i \in nextSample[t] .. Count(t) + 1 :
                i \in Samples(t) => times[t][i] >= pendingSeekTime[t]})

Promise == INSTANCE Playback WITH
  sync <- [t \in Tracks |-> {i \in Samples(t) : IsSync(t, i)}],
  at   <- [t \in Tracks |-> Audible(t)]

(* The demuxer implements Playback: reading moves a track one sample on,   *)
(* but for silent samples, which are not seen to be read; every other step *)
(* is a seek of all tracks to one time, up to a track that has no such     *)
(* sample.                                                                 *)
PlaysAsPromised == Promise!Spec

Distinct == Promise!Distinct

(* The sample at which a seek has a track, and the one it then shows first,*)
(* are the ones the method names, whatever the estimate that the search    *)
(* begins with; and it only fails where there is no such sample.           *)
SeeksFindAims ==
  phase = "open" /\ Distinct =>
    \A t \in Tracks, time \in Sought, method \in Methods :
      LET ts    == UsecToSampleTime(time, Timescale[t])
          start == SeekStart(t, ts)
          found == SeekSample(t, start, ts, method)
          shown == IF start <= found THEN found ELSE start
          aims  == Promise!Aims(t, ts, method)
      IN IF found = 0 THEN aims = {}
         ELSE /\ shown \in aims
              /\ method \in {"previous_sync", "nearest_sync", "next_sync"}
                   => IsSync(t, found)

(* A player that only uses seeks to sync samples is never told to show a   *)
(* sample that its decoder cannot decode: one that neither is a sync       *)
(* sample nor comes right after a sample that was decoded.                 *)
ShownIsDecoded == \A t \in Tracks : decoded[t] # Broken

(* With nothing silent pending, mp4_demux_seek_to_track_prev_sample and    *)
(* _next_sample move the track by exactly one sample, although they go     *)
(* through a time in microseconds and move every track; provided that the  *)
(* track begins with a sync sample.                                        *)
StepsByOne ==
  [][Distinct => \A t \in Tracks : pendingSeekTime[t] = 0 /\ IsSync(t, 1) =>
       /\ SeekPrev(t) /\ nextSample[t] > 2 => Audible(t)' = nextSample[t] - 2
       /\ SeekNext(t, FALSE) => Audible(t)' = nextSample[t] + 1
       /\ SeekNext(t, TRUE)  => Audible(t)' = nextSample[t]]_vars

(* The times of a file are those that were added, from 0 on, as long as    *)
(* they differ by less than UINT32_MAX; and such a file can be opened.     *)
TimesKept ==
  LET near(t) == \A i \in 2 .. Len(dts[t]) : dts[t][i] < dts[t][i - 1] + Wrap - 1
  IN /\ phase = "open" => \A t \in Tracks : near(t) =>
          times[t] = [i \in 1 .. Len(dts[t]) |-> dts[t][i] - dts[t][1]]
     /\ phase = "refused" => \E t \in Tracks : dts[t] = <<>> \/ ~near(t)

(* A metadata sample goes with one sample of its track at most. *)
MetadataOnce ==
  phase = "open" /\ Distinct => \A t \in Tracks : \A i, j \in Samples(t) :
    MetadataSample(t, i) # 0 /\ MetadataSample(t, i) = MetadataSample(t, j)
      => i = j

(* The sync samples that are reported around a sample are the closest ones,*)
(* and a seek to their time in microseconds finds them.                    *)
ReportedSyncsFound ==
  LET found(t, i) ==
        SeekStart(t, UsecToSampleTime(SampleUsec(t, i), Timescale[t]))
      syncs(t) == {j \in Samples(t) : IsSync(t, j)}
  IN phase = "open" /\ Distinct => \A t \in Tracks : \A i \in Samples(t) :
       /\ LET prev == PrevSyncSample(t, i)
          IN IF prev = 0 THEN \A j \in syncs(t) : i <= j
             ELSE /\ prev \in syncs(t) /\ found(t, prev) = prev
                  /\ prev < i /\ \A j \in syncs(t) : j <= prev \/ i <= j
       /\ LET next == NextSyncSample(t, i)
          IN IF next = 0 THEN \A j \in syncs(t) : j <= i
             ELSE /\ next \in syncs(t) /\ found(t, next) = next
                  /\ i < next /\ \A j \in syncs(t) : j <= i \/ next <= j
=============================================================================
