-------------------------- MODULE RecoveryLogProofs --------------------------
(***************************************************************************)
(* What RecoveryLog guarantees for any number of tracks, samples, syncs    *)
(* and recoveries.  With every fault: type correctness (TypeCorrect), and, *)
(* whatever the log looked like, a movie whose sizes and offsets match and *)
(* that shows only bytes the data file still holds.  As long as no write   *)
(* to the tables file fails: the tables read back are prefixes of the      *)
(* tables the muxer had in memory.                                         *)
(*                                                                         *)
(* As long as only processes and writes of samples fail and mp4_mux_dump   *)
(* is not called: no sample that a sync acknowledged is lost (AckedKept),  *)
(* a recovery that crashed can be run again (RecoveryRepeats), and the     *)
(* whole implements DurableRecording (PromiseIsImplemented).               *)
(***************************************************************************)
EXTENDS RecoveryLogInv, FiniteSetTheorems, SequenceTheorems, TLAPS

-----------------------------------------------------------------------------
(* Frames: what an action leaves alone keeps its type and its bounds.      *)

LEMMA MuxFrame == ASSUME MuxTypeOK, UNCHANGED muxVars PROVE MuxTypeOK'
  BY DEF MuxTypeOK, muxVars

LEMMA SyncFrame == ASSUME SyncTypeOK, UNCHANGED syncVars PROVE SyncTypeOK'
  BY DEF SyncTypeOK, syncVars

LEMMA DataFrame == ASSUME DataTypeOK, UNCHANGED dataVars PROVE DataTypeOK'
  BY DEF DataTypeOK, dataVars

LEMMA LogFrame == ASSUME LogTypeOK, UNCHANGED logVars PROVE LogTypeOK'
  BY DEF LogTypeOK, logVars

LEMMA RecFrame == ASSUME RecTypeOK, UNCHANGED recVars PROVE RecTypeOK'
  BY DEF RecTypeOK, recVars

LEMMA OutFrame == ASSUME OutTypeOK, UNCHANGED outVars PROVE OutTypeOK'
  BY DEF OutTypeOK, outVars

LEMMA CountFrame ==
  ASSUME UNCHANGED <<samples, syncs, ttsCount>>, NEW h, NEW k
  PROVE  Count(h, k)' = Count(h, k)
  BY DEF Count

LEMMA CountType ==
  ASSUME MuxTypeOK, NEW h \in Handles, NEW k PROVE Count(h, k) \in Nat
  BY DEF MuxTypeOK, Count

(* A step of the muxer that neither touches the log nor what of the log    *)
(* and of the recovery is bounded by the samples.                          *)
LEMMA BoundsFrame ==
  ASSUME TInv, UNCHANGED logVars, UNCHANGED recVars,
         samples' \in [Handles -> Seq([off : Nat, size : Nat])],
         \A h \in Handles : Len(samples[h]) <= Len(samples'[h])
  PROVE  LogInBounds' /\ RecInBounds'
<1>0. /\ samples \in [Handles -> Seq([off : Nat, size : Nat])]
      /\ log \in Seq(LogRecord) /\ log' = log /\ rec' = rec
      /\ rec \in [Handles -> [Kinds -> Seq(Nat)]]
  BY DEF TInv, TypeOK, MuxTypeOK, LogTypeOK, RecTypeOK, logVars, recVars
<1>1. LogInBounds'
  <2> SUFFICES ASSUME NEW i \in DOMAIN log, log[i].kind \in {"stsz", "stco"}
               PROVE  log[i].first + log[i].got <= Len(samples'[log[i].h]) + 1
    BY <1>0 DEF LogInBounds, TInv
  <2>1. log[i] \in LogRecord
    BY <1>0
  <2>2. log[i].first + log[i].got <= Len(samples[log[i].h]) + 1
    BY DEF TInv, LogInBounds
  <2> QED  BY <2>1, <2>2, <1>0 DEF LogRecord
<1>2. RecInBounds'
  <2> SUFFICES ASSUME NEW h \in Handles, NEW k \in {"stsz", "stco"},
                      NEW i \in DOMAIN rec[h][k]
               PROVE  rec[h][k][i] <= Len(samples'[h])
    BY <1>0 DEF RecInBounds
  <2>1. rec[h][k][i] \in Nat /\ rec[h][k][i] <= Len(samples[h])
    BY <1>0 DEF TInv, RecInBounds, Kinds
  <2> QED  BY <2>1, <1>0
<1> QED  BY <1>1, <1>2

LEMMA NotOpen ==
  ASSUME TInv, pc # "sync" PROVE open = FALSE
  BY DEF TInv, OpenIsLast, TypeOK, SyncTypeOK

-----------------------------------------------------------------------------
LEMMA TInvInit == Init => TInv
<1> SUFFICES ASSUME Init PROVE TInv
  OBVIOUS
<1>1. MuxTypeOK
  <2>1. type \in Seq(Types) /\ Len(type) <= MaxTracks
    BY BoundsAssumption DEF BoundsAssumption, Init
  <2>2. /\ list \in Seq(Handles)
        /\ samples \in [Handles -> Seq([off : Nat, size : Nat])]
        /\ syncs \in [Handles -> Seq(Nat)]
    BY DEF Init
  <2>3. /\ ttsCount \in [Handles -> Nat]
        /\ written \in [Handles -> [Kinds -> Nat]]
        /\ full \in BOOLEAN /\ nsyncs \in Nat
    BY DEF Init
  <2> QED  BY <2>1, <2>2, <2>3 DEF MuxTypeOK
<1>2. SyncTypeOK
  <2>1. walk \in Seq(Handles) /\ step \in Kinds \cup {"track", "header"}
    BY DEF Init
  <2>2. open \in BOOLEAN /\ wantTables \in BOOLEAN
    BY DEF Init
  <2> QED  BY <2>1, <2>2 DEF SyncTypeOK
<1>3. DataTypeOK /\ LogTypeOK
  BY DEF Init, DataTypeOK, LogTypeOK
<1>4. RecTypeOK
  <2>1. rec \in [Handles -> [Kinds -> Seq(Nat)]]
    BY DEF Init, NoTables
  <2>2. /\ starts \in Nat /\ rcount \in Nat
        /\ ri \in Nat \ {0} /\ rj \in Nat
    BY DEF Init
  <2>3. reading \in BOOLEAN /\ rend \in Nat /\ errorMsg \in BOOLEAN
    BY DEF Init
  <2> QED  BY <2>1, <2>2, <2>3 DEF RecTypeOK
<1>5. OutTypeOK
  <2>1. movie \in [Handles -> [MoovKinds -> Seq(Nat)]]
    BY DEF Init, NoMovie
  <2>2. recovered = NoMovie /\ acked \in [Handles -> Nat]
    BY DEF Init
  <2>3. recovered \in [Handles -> [MoovKinds -> Seq(Nat)]]
    BY <2>2 DEF NoMovie
  <2> QED  BY <2>1, <2>2, <2>3 DEF OutTypeOK
<1>6. pc \in Pcs
  BY DEF Init, Pcs
<1>7. WrittenInBounds
  <2>1. \A h \in Handles, k \in Kinds : written[h][k] = 0
    BY DEF Init
  <2> QED  BY <2>1, <1>1, CountType DEF WrittenInBounds
<1>8. SyncHasTrack /\ OpenIsLast /\ LogInBounds /\ ReadingInLog
  BY DEF Init, SyncHasTrack, OpenIsLast, LogInBounds, ReadingInLog
<1>9. RecInBounds
  BY DEF Init, RecInBounds, NoTables, Kinds
<1> QED  BY <1>1, <1>2, <1>3, <1>4, <1>5, <1>6, <1>7, <1>8, <1>9
            DEF TInv, TypeOK

LEMMA AddTrackT == ASSUME TInv, NEW t \in Types, AddTrack(t) PROVE TInv'
<1>1. TypeOK
  BY DEF TInv
<1>2. /\ UNCHANGED syncVars /\ UNCHANGED dataVars /\ UNCHANGED logVars
      /\ UNCHANGED recVars /\ UNCHANGED outVars
      /\ UNCHANGED <<pc, samples, syncs, ttsCount, written>>
  BY DEF AddTrack
<1>3. MuxTypeOK'
  <2>1. Len(type) + 1 \in Handles
    BY <1>1, BoundsAssumption
       DEF AddTrack, TypeOK, MuxTypeOK, Handles, BoundsAssumption
  <2>2. type' \in Seq(Types) /\ Len(type') <= MaxTracks
    BY <1>1, BoundsAssumption
       DEF AddTrack, TypeOK, MuxTypeOK, BoundsAssumption
  <2>3. list' \in Seq(Handles)
    BY <1>1, <2>1 DEF AddTrack, TypeOK, MuxTypeOK
  <2> QED  BY <1>1, <1>2, <2>2, <2>3 DEF AddTrack, TypeOK, MuxTypeOK
<1>4. TypeOK'
  BY <1>1, <1>2, <1>3, SyncFrame, DataFrame, LogFrame, RecFrame, OutFrame
     DEF TypeOK
<1>5. WrittenInBounds'
  BY <1>2, CountFrame DEF TInv, WrittenInBounds
<1>6. SyncHasTrack' /\ OpenIsLast' /\ ReadingInLog'
  BY <1>2, NotOpen DEF AddTrack, TInv,
     SyncHasTrack, OpenIsLast, ReadingInLog, syncVars, recVars
<1>7. LogInBounds' /\ RecInBounds'
  BY <1>1, <1>2, BoundsFrame DEF TypeOK, MuxTypeOK
<1> QED  BY <1>4, <1>5, <1>6, <1>7 DEF TInv

LEMMA AddSampleT ==
  ASSUME TInv, NEW h \in Handles, NEW size \in Sizes, NEW sync \in BOOLEAN,
         AddSample(h, size, sync)
  PROVE  TInv'
<1>0. TypeOK /\ size \in Nat
  BY BoundsAssumption DEF BoundsAssumption, TInv
<1>1. /\ UNCHANGED syncVars /\ UNCHANGED logVars /\ UNCHANGED recVars
      /\ UNCHANGED outVars /\ UNCHANGED <<pc, ttsCount, written>>
  BY DEF AddSample
<1>2. samples' \in [Handles -> Seq([off : Nat, size : Nat])]
  BY <1>0 DEF AddSample, TypeOK, MuxTypeOK, DataTypeOK
<1>3. syncs' \in [Handles -> Seq(Nat)]
  BY <1>0 DEF AddSample, TypeOK, MuxTypeOK
<1>4. MuxTypeOK'
  BY <1>0, <1>2, <1>3 DEF AddSample, TypeOK, MuxTypeOK
<1>5. DataTypeOK'
  BY <1>0 DEF AddSample, TypeOK, DataTypeOK, Larger
<1>6. TypeOK'
  BY <1>0, <1>1, <1>4, <1>5, SyncFrame, LogFrame, RecFrame, OutFrame
     DEF TypeOK
<1>7. \A g \in Handles : /\ Len(samples[g]) <= Len(samples'[g])
                         /\ Len(syncs[g]) <= Len(syncs'[g])
  <2>1. /\ samples \in [Handles -> Seq([off : Nat, size : Nat])]
        /\ syncs \in [Handles -> Seq(Nat)] /\ pos \in Nat
    BY <1>0 DEF TypeOK, MuxTypeOK, DataTypeOK
  <2>2. ASSUME NEW g \in Handles PROVE Len(samples[g]) <= Len(samples'[g])
    <3>1. samples'[g] = samples[g] \/
            samples'[g] = Append(samples[g], [off |-> pos, size |-> size])
      BY <2>1 DEF AddSample
    <3>2. samples[g] \in Seq([off : Nat, size : Nat])
      BY <2>1
    <3> QED  BY <3>1, <3>2, <2>1, <1>0
  <2>3. ASSUME NEW g \in Handles PROVE Len(syncs[g]) <= Len(syncs'[g])
    <3>1. syncs'[g] = syncs[g] \/
            syncs'[g] = Append(syncs[g], Len(samples[h]) + 1)
      BY <2>1 DEF AddSample
    <3>2. syncs[g] \in Seq(Nat) /\ Len(samples[h]) + 1 \in Nat
      BY <2>1
    <3> QED  BY <3>1, <3>2
  <2> QED  BY <2>2, <2>3
<1>8. WrittenInBounds'
  <2> SUFFICES ASSUME NEW g \in Handles, NEW k \in Kinds
               PROVE  written[g][k] <= Count(g, k)'
    BY <1>1 DEF WrittenInBounds
  <2>1. Count(g, k) <= Count(g, k)'
    BY <1>0, <1>1, <1>2, <1>3, <1>7 DEF Count, TypeOK, MuxTypeOK
  <2>2. written[g][k] <= Count(g, k) /\ written[g][k] \in Nat
    BY <1>0 DEF TInv, WrittenInBounds, TypeOK, MuxTypeOK
  <2>3. Count(g, k) \in Nat /\ Count(g, k)' \in Nat
    BY <1>0, <1>2, <1>3, <1>1 DEF Count, TypeOK, MuxTypeOK
  <2> QED  BY <2>1, <2>2, <2>3
<1>9. SyncHasTrack' /\ OpenIsLast' /\ ReadingInLog'
  BY <1>1, NotOpen DEF AddSample, TInv,
     SyncHasTrack, OpenIsLast, ReadingInLog, syncVars, recVars
<1>10. LogInBounds' /\ RecInBounds'
  BY <1>1, <1>2, <1>7, BoundsFrame
<1> QED  BY <1>6, <1>8, <1>9, <1>10 DEF TInv

(* A step that changes no table of the muxer, no record and no table read. *)
LEMMA QuietBounds ==
  ASSUME TInv, UNCHANGED <<samples, syncs, ttsCount, written, log, rec>>
  PROVE  WrittenInBounds' /\ LogInBounds' /\ RecInBounds'
<1>1. WrittenInBounds'
  BY CountFrame DEF TInv, WrittenInBounds
<1>2. LogInBounds' /\ RecInBounds'
  BY DEF TInv, LogInBounds, RecInBounds
<1> QED  BY <1>1, <1>2

LEMMA AddSampleFailsT ==
  ASSUME TInv, NEW h \in Handles, NEW size \in Sizes, AddSampleFails(h, size)
  PROVE  TInv'
<1>0. TypeOK /\ size \in Nat
  BY BoundsAssumption DEF BoundsAssumption, TInv
<1>1. /\ UNCHANGED muxVars /\ UNCHANGED syncVars /\ UNCHANGED logVars
      /\ UNCHANGED recVars /\ UNCHANGED outVars /\ UNCHANGED pc
  BY DEF AddSampleFails
<1>2. DataTypeOK'
  BY <1>0 DEF AddSampleFails, TypeOK, DataTypeOK, Larger
<1>3. TypeOK'
  BY <1>0, <1>1, <1>2, MuxFrame, SyncFrame, LogFrame, RecFrame, OutFrame
     DEF TypeOK
<1>4. WrittenInBounds' /\ LogInBounds' /\ RecInBounds'
  BY <1>1, QuietBounds DEF muxVars, logVars, recVars
<1>5. SyncHasTrack' /\ OpenIsLast' /\ ReadingInLog'
  BY <1>1, NotOpen DEF AddSampleFails, TInv, SyncHasTrack, OpenIsLast,
     ReadingInLog, syncVars, recVars
<1> QED  BY <1>3, <1>4, <1>5 DEF TInv

(* Sorting and computing the time tables keep the types, and the time      *)
(* tables do not shrink.                                                   *)
LEMMA SortT ==
  ASSUME MuxTypeOK, SortTracks PROVE list' \in Seq(Handles)
<1>1. PICK t \in [1 .. Len(list) -> Handles] : list' = t
  BY DEF SortTracks
<1>2. Len(list) \in Nat
  BY DEF MuxTypeOK
<1>3. t \in Seq(Handles)
  BY <1>1, <1>2, SeqDef
<1> QED  BY <1>1, <1>3

LEMMA TtsT ==
  ASSUME TInv, NEW tracks, ComputeTts(tracks),
         UNCHANGED <<samples, syncs, written>>
  PROVE  ttsCount' \in [Handles -> Nat] /\ WrittenInBounds'
<1>0. MuxTypeOK /\ WrittenInBounds
  BY DEF TInv, TypeOK
<1>1. PICK n \in [Handles -> 0 .. MaxSamples] :
         /\ \A h \in Handles : ttsCount[h] <= n[h]
         /\ ttsCount' = n
  BY DEF ComputeTts
<1>2. ttsCount' \in [Handles -> Nat]
  BY <1>1, BoundsAssumption DEF BoundsAssumption
<1>3. ASSUME NEW h \in Handles, NEW k \in Kinds
      PROVE  written'[h][k] <= Count(h, k)'
  <2>1. Count(h, k) <= Count(h, k)'
    BY <1>0, <1>1, <1>2 DEF Count, MuxTypeOK
  <2>2. Count(h, k) \in Nat /\ Count(h, k)' \in Nat /\ written[h][k] \in Nat
    BY <1>0, <1>2 DEF Count, MuxTypeOK
  <2> QED  BY <1>0, <2>1, <2>2 DEF WrittenInBounds
<1> QED  BY <1>2, <1>3 DEF WrittenInBounds

LEMMA DumpT == ASSUME TInv, Dump PROVE TInv'
<1>0. TypeOK
  BY DEF TInv
<1>1. /\ UNCHANGED syncVars /\ UNCHANGED dataVars /\ UNCHANGED logVars
      /\ UNCHANGED recVars /\ UNCHANGED outVars
      /\ UNCHANGED <<pc, type, samples, syncs, written, full, nsyncs>>
  BY DEF Dump
<1>2. \E tracks : ComputeTts(tracks)
  BY DEF Dump
<1>3. ttsCount' \in [Handles -> Nat] /\ WrittenInBounds'
  BY <1>1, <1>2, TtsT
<1>4. MuxTypeOK'
  BY <1>0, <1>1, <1>3, SortT DEF Dump, TypeOK, MuxTypeOK
<1>5. TypeOK'
  BY <1>0, <1>1, <1>4, SyncFrame, DataFrame, LogFrame, RecFrame, OutFrame
     DEF TypeOK
<1>6. LogInBounds' /\ RecInBounds'
  BY <1>1 DEF TInv, LogInBounds, RecInBounds, logVars, recVars
<1>7. SyncHasTrack' /\ OpenIsLast' /\ ReadingInLog'
  BY <1>1, NotOpen DEF Dump, TInv, SyncHasTrack, OpenIsLast,
     ReadingInLog, syncVars, recVars
<1> QED  BY <1>3, <1>5, <1>6, <1>7 DEF TInv

LEMMA BeginSyncT ==
  ASSUME TInv, NEW write_tables \in BOOLEAN, BeginSync(write_tables)
  PROVE  TInv'
<1>0. TypeOK
  BY DEF TInv
<1>1. /\ UNCHANGED dataVars /\ UNCHANGED logVars
      /\ UNCHANGED recVars /\ UNCHANGED outVars
      /\ UNCHANGED <<type, list, samples, syncs, ttsCount, written, full>>
  BY DEF BeginSync
<1>2. MuxTypeOK'
  BY <1>0, <1>1 DEF BeginSync, TypeOK, MuxTypeOK
<1>3. SyncTypeOK' /\ pc' \in Pcs
  BY <1>0 DEF BeginSync, TypeOK, MuxTypeOK, SyncTypeOK, Pcs
<1>4. TypeOK'
  BY <1>0, <1>1, <1>2, <1>3, DataFrame, LogFrame, RecFrame, OutFrame
     DEF TypeOK
<1>5. WrittenInBounds' /\ LogInBounds' /\ RecInBounds'
  BY <1>1, QuietBounds DEF logVars, recVars
<1>6. SyncHasTrack' /\ OpenIsLast' /\ ReadingInLog'
  BY DEF BeginSync, SyncHasTrack, OpenIsLast, ReadingInLog, Kinds
<1> QED  BY <1>4, <1>5, <1>6 DEF TInv

-----------------------------------------------------------------------------
(* The sync.                                                               *)

LEMMA VisitTrackT == ASSUME TInv, VisitTrack PROVE TInv'
<1>0. TypeOK /\ ~open
  BY DEF TInv, VisitTrack, OpenIsLast, Kinds
<1>1. /\ UNCHANGED muxVars /\ UNCHANGED dataVars /\ UNCHANGED logVars
      /\ UNCHANGED recVars /\ UNCHANGED outVars
      /\ UNCHANGED <<pc, open, wantTables>>
  BY DEF VisitTrack
<1>2. /\ step' \in Kinds \cup {"track", "header"}
      /\ step' \in Kinds => walk' # <<>>
      /\ walk' = walk \/ (walk # <<>> /\ walk' = Tail(walk))
  BY DEF VisitTrack, Kinds
<1>3. SyncTypeOK'
  BY <1>0, <1>1, <1>2 DEF TypeOK, SyncTypeOK
<1>4. TypeOK'
  BY <1>0, <1>1, <1>3, MuxFrame, DataFrame, LogFrame, RecFrame, OutFrame
     DEF TypeOK
<1>5. WrittenInBounds' /\ LogInBounds' /\ RecInBounds'
  BY <1>1, QuietBounds DEF muxVars, logVars, recVars
<1>6. SyncHasTrack' /\ OpenIsLast' /\ ReadingInLog'
  BY <1>0, <1>1, <1>2 DEF VisitTrack, SyncHasTrack, OpenIsLast, ReadingInLog
<1> QED  BY <1>4, <1>5, <1>6 DEF TInv

(* The sync is at a table of a track. *)
LEMMA AtTable ==
  ASSUME TInv, pc = "sync", step \in Kinds
  PROVE  /\ walk \in Seq(Handles) /\ walk # <<>> /\ Head(walk) \in Handles
         /\ written[Head(walk)][step] \in Nat
         /\ Count(Head(walk), step) \in Nat
         /\ written[Head(walk)][step] <= Count(Head(walk), step)
<1>1. walk \in Seq(Handles) /\ walk # <<>> /\ MuxTypeOK
  BY DEF TInv, TypeOK, SyncTypeOK, SyncHasTrack
<1>2. Head(walk) \in Handles
  BY <1>1
<1>3. written[Head(walk)][step] \in Nat
  BY <1>1, <1>2 DEF MuxTypeOK
<1>4. Count(Head(walk), step) \in Nat
  BY <1>1, <1>2, CountType
<1> QED  BY <1>1, <1>2, <1>3, <1>4 DEF TInv, WrittenInBounds

LEMMA EndRecordT ==
  ASSUME SyncTypeOK, EndRecord, walk # <<>>, step \in Kinds
  PROVE  SyncTypeOK' /\ open' = FALSE /\ (step' \in Kinds => walk' # <<>>)
<1>1. step' \in Kinds \cup {"track", "header"}
  BY DEF EndRecord, After, Kinds
<1>2. /\ walk' = walk \/ walk' = Tail(walk)
      /\ step' # "track" => walk' = walk
      /\ open' = FALSE /\ wantTables' = wantTables
  BY DEF EndRecord
<1>3. walk' \in Seq(Handles)
  BY <1>2 DEF SyncTypeOK
<1> QED  BY <1>1, <1>2, <1>3 DEF SyncTypeOK, Kinds

LEMMA RecordT ==
  ASSUME TInv, pc = "sync", step \in Kinds, NEW cut \in Cuts,
         NEW r, r = Record(Head(walk), step, cut)
  PROVE  /\ r \in LogRecord
         /\ r.first > 0 /\ r.got = 0 /\ r.got <= r.number
         /\ r.h = Head(walk) /\ r.kind = step
         /\ r.first = written[Head(walk)][step] + 1
         /\ r.first + r.number = Count(Head(walk), step) + 1
         /\ r.kind \in {"stsz", "stco"} =>
              r.first + r.got <= Len(samples[r.h]) + 1
<1> DEFINE w == written[Head(walk)][step]
           c == Count(Head(walk), step)
<1>1. /\ Head(walk) \in Handles /\ w \in Nat /\ c \in Nat /\ w <= c
  BY AtTable
<1>2. /\ r.h = Head(walk) /\ r.kind = step /\ r.first = w + 1
      /\ r.number = c - w /\ r.got = 0 /\ r.cut = cut
  BY DEF Record
<1>3. r = [h |-> Head(walk), kind |-> step, first |-> w + 1,
           number |-> c - w, got |-> 0, cut |-> cut]
  BY DEF Record
<1>4. w + 1 \in Nat /\ c - w \in Nat
  BY <1>1
<1>5. r \in LogRecord
  BY <1>1, <1>3, <1>4 DEF LogRecord
<1>6. step \in {"stsz", "stco"} => c = Len(samples[Head(walk)])
  BY DEF Count
<1> HIDE DEF w, c
<1>7. /\ r.first > 0 /\ r.got <= r.number /\ r.first + r.number = c + 1
      /\ r.first + r.got <= c + 1
  BY <1>1, <1>2
<1> QED  BY <1>2, <1>5, <1>6, <1>7 DEF w, c

LEMMA AppendT ==
  ASSUME TInv, NEW r \in LogRecord, log' = Append(log, r),
         UNCHANGED <<samples, tablesSize, oldSizes>>,
         r.first > 0, r.got <= r.number,
         r.kind \in {"stsz", "stco"} =>
           r.first + r.got <= Len(samples[r.h]) + 1
  PROVE  LogTypeOK' /\ LogInBounds'
<1>1. log \in Seq(LogRecord) /\ LogTypeOK
  BY DEF TInv, TypeOK, LogTypeOK
<1>2. LogTypeOK'
  BY <1>1 DEF LogTypeOK
<1>3. ASSUME NEW i \in DOMAIN log'
      PROVE  log'[i] = r \/ (i \in DOMAIN log /\ log'[i] = log[i])
  BY <1>1, <1>3
<1>4. LogInBounds
  BY DEF TInv
<1>5. LogInBounds'
  BY <1>3, <1>4 DEF LogInBounds
<1> QED  BY <1>2, <1>5

LEMMA WriteBoxInfoT == ASSUME TInv, WriteBoxInfo PROVE TInv'
<1> DEFINE r == Record(Head(walk), step, "no")
<1>0. TypeOK /\ pc = "sync" /\ step \in Kinds /\ "no" \in Cuts
  BY DEF TInv, WriteBoxInfo, Cuts
<1>1. /\ UNCHANGED muxVars /\ UNCHANGED dataVars /\ UNCHANGED recVars
      /\ UNCHANGED outVars /\ UNCHANGED <<pc, tablesSize, oldSizes>>
      /\ log' = Append(log, r)
  BY DEF WriteBoxInfo
<1>2. /\ r \in LogRecord
      /\ r.first > 0 /\ r.got = 0 /\ r.got <= r.number
      /\ r.h = Head(walk) /\ r.kind = step
      /\ r.first = written[Head(walk)][step] + 1
      /\ r.first + r.number = Count(Head(walk), step) + 1
      /\ r.kind \in {"stsz", "stco"} =>
           r.first + r.got <= Len(samples[r.h]) + 1
  BY <1>0, RecordT
<1>3. LogTypeOK' /\ LogInBounds'
  BY <1>1, <1>2, AppendT DEF muxVars
<1>4. /\ walk \in Seq(Handles) /\ walk # <<>> /\ Head(walk) \in Handles
      /\ written[Head(walk)][step] \in Nat
      /\ Count(Head(walk), step) \in Nat
      /\ written[Head(walk)][step] <= Count(Head(walk), step)
  BY <1>0, AtTable
<1>5. SyncTypeOK' /\ SyncHasTrack' /\ OpenIsLast'
  <2>1. CASE EndRecord
    <3>1. SyncTypeOK' /\ open' = FALSE /\ (step' \in Kinds => walk' # <<>>)
      BY <1>0, <1>4, <2>1, EndRecordT DEF TypeOK
    <3> QED  BY <3>1 DEF SyncHasTrack, OpenIsLast
  <2>2. CASE /\ Count(Head(walk), step) # written[Head(walk)][step]
             /\ open' = TRUE /\ UNCHANGED <<step, walk, wantTables>>
    <3>1. SyncTypeOK' /\ SyncHasTrack'
      BY <1>0, <1>4, <2>2 DEF TypeOK, SyncTypeOK, SyncHasTrack
    <3>2. log' # <<>> /\ log'[Len(log')] = r
      BY <1>0, <1>1, <1>2 DEF TypeOK, LogTypeOK
    <3>3. r.number \in Nat /\ r.first \in Nat
      BY <1>2 DEF LogRecord
    <3>4. r.got < r.number
      BY <1>2, <1>4, <2>2, <3>3
    <3>5. Count(Head(walk), step)' = Count(Head(walk), step)
      BY <1>1, <2>2 DEF Count, muxVars
    <3>6. r.first + r.got = written[Head(walk)][step] + 1
      BY <1>2, <3>3
    <3> HIDE DEF r
    <3>7. OpenIsLast'
      BY <1>0, <1>1, <1>2, <2>2, <3>2, <3>4, <3>5, <3>6
         DEF OpenIsLast, muxVars
    <3> QED  BY <3>1, <3>7
  <2> QED  BY <2>1, <2>2 DEF WriteBoxInfo
<1>6. TypeOK'
  BY <1>0, <1>1, <1>3, <1>5, MuxFrame, DataFrame, RecFrame, OutFrame
     DEF TypeOK
<1>7. WrittenInBounds' /\ RecInBounds' /\ ReadingInLog'
  <2>1. WrittenInBounds'
    BY <1>1, CountFrame DEF TInv, WrittenInBounds, muxVars
  <2>2. RecInBounds' /\ ReadingInLog'
    BY <1>0, <1>1 DEF TInv, RecInBounds, ReadingInLog, muxVars, recVars
  <2> QED  BY <2>1, <2>2
<1> QED  BY <1>3, <1>5, <1>6, <1>7 DEF TInv

LEMMA RecordGot ==
  ASSUME NEW r \in LogRecord, NEW g \in Nat, NEW q, q = [r EXCEPT !.got = g]
  PROVE  /\ q \in LogRecord
         /\ q.h = r.h /\ q.kind = r.kind /\ q.first = r.first
         /\ q.number = r.number /\ q.got = g /\ q.cut = r.cut
  BY DEF LogRecord

LEMMA WriteEntryT == ASSUME TInv, WriteEntry PROVE TInv'
<1> DEFINE n == Len(log)
           h == Head(walk)
<1>0. TypeOK /\ pc = "sync" /\ step \in Kinds /\ open
  BY DEF TInv, WriteEntry
<1>1. /\ UNCHANGED dataVars /\ UNCHANGED recVars /\ UNCHANGED outVars
      /\ UNCHANGED <<pc, type, list, samples, syncs, ttsCount, full, nsyncs>>
      /\ UNCHANGED <<tablesSize, oldSizes>>
      /\ log' = [log EXCEPT ![n].got = @ + 1]
      /\ written' = [written EXCEPT ![h][step] = @ + 1]
  BY DEF WriteEntry
<1>2. /\ walk \in Seq(Handles) /\ walk # <<>> /\ h \in Handles
      /\ written[h][step] \in Nat /\ Count(h, step) \in Nat
  BY <1>0, AtTable
<1>3. /\ log \in Seq(LogRecord) /\ log # <<>> /\ n \in DOMAIN log
      /\ log[n].h = h /\ log[n].kind = step /\ log[n].got < log[n].number
      /\ log[n].first + log[n].got = written[h][step] + 1
      /\ log[n].first + log[n].number = Count(h, step) + 1
  BY <1>0 DEF TInv, OpenIsLast, TypeOK, LogTypeOK
<1>4. log[n] \in LogRecord
  BY <1>3
<1>5. /\ log[n].first \in Nat /\ log[n].got \in Nat /\ log[n].number \in Nat
  BY <1>4 DEF LogRecord
<1> DEFINE q == [log[n] EXCEPT !.got = log[n].got + 1]
<1>6. /\ q \in LogRecord
      /\ q.h = h /\ q.kind = step /\ q.first = log[n].first
      /\ q.number = log[n].number /\ q.got = log[n].got + 1
  <2>1. log[n].got + 1 \in Nat
    BY <1>5
  <2> QED  BY <1>3, <1>4, <2>1, RecordGot
<1> HIDE DEF q
<1>7. /\ log' \in Seq(LogRecord) /\ Len(log') = n /\ DOMAIN log' = DOMAIN log
      /\ log'[n] = q
      /\ \A i \in DOMAIN log : i # n => log'[i] = log[i]
  BY <1>1, <1>3, <1>6 DEF q
<1>8. /\ written' \in [Handles -> [Kinds -> Nat]]
      /\ written'[h][step] = written[h][step] + 1
      /\ \A g \in Handles, k \in Kinds :
           g # h \/ k # step => written'[g][k] = written[g][k]
  <2>1. written \in [Handles -> [Kinds -> Nat]]
    BY <1>0 DEF TypeOK, MuxTypeOK
  <2>2. written[h][step] + 1 \in Nat
    BY <1>2
  <2> QED  BY <1>0, <1>1, <1>2, <2>1, <2>2
<1>9. written[h][step] + 1 <= Count(h, step)
  BY <1>2, <1>3, <1>5
<1>10. \A g \in Handles, k \in Kinds : Count(g, k)' = Count(g, k)
  BY <1>1, CountFrame
<1>11. WrittenInBounds'
  <2> SUFFICES ASSUME NEW g \in Handles, NEW k \in Kinds
               PROVE  written'[g][k] <= Count(g, k)
    BY <1>10 DEF WrittenInBounds
  <2>1. CASE g = h /\ k = step
    BY <2>1, <1>8, <1>9
  <2>2. CASE g # h \/ k # step
    BY <2>2, <1>8 DEF TInv, WrittenInBounds
  <2> QED  BY <2>1, <2>2
<1>12. LogInBounds'
  <2> SUFFICES ASSUME NEW i \in DOMAIN log
               PROVE  /\ log'[i].first > 0
                      /\ log'[i].got <= log'[i].number
                      /\ log'[i].kind \in {"stsz", "stco"} =>
                           log'[i].first + log'[i].got
                             <= Len(samples[log'[i].h]) + 1
    BY <1>1, <1>7 DEF LogInBounds
  <2>1. CASE i # n
    BY <2>1, <1>7 DEF TInv, LogInBounds
  <2>2. CASE i = n
    <3>1. log[n].first > 0
      BY <1>3 DEF TInv, LogInBounds
    <3>2. log[n].got + 1 <= log[n].number
      BY <1>3, <1>5
    <3>3. step \in {"stsz", "stco"} => Count(h, step) = Len(samples[h])
      BY DEF Count
    <3>4. log[n].first + (log[n].got + 1) <= Count(h, step) + 1
      BY SMTT(20), <1>2, <1>3, <1>5
    <3> QED  BY <2>2, <3>1, <3>2, <3>3, <3>4, <1>6, <1>7
  <2> QED  BY <2>1, <2>2
<1>13. SyncTypeOK' /\ SyncHasTrack' /\ OpenIsLast'
  <2>1. CASE EndRecord
    <3>1. SyncTypeOK' /\ open' = FALSE /\ (step' \in Kinds => walk' # <<>>)
      BY <1>0, <1>2, <2>1, EndRecordT DEF TypeOK
    <3> QED  BY <3>1 DEF SyncHasTrack, OpenIsLast
  <2>2. CASE /\ log[n].got + 1 # log[n].number
             /\ UNCHANGED syncVars
    <3>1. SyncTypeOK' /\ SyncHasTrack'
      BY <1>0, <1>2, <2>2, SyncFrame DEF TypeOK, SyncHasTrack, syncVars
    <3>2. q.got < q.number
      BY <1>3, <1>5, <1>6, <2>2
    <3>3. q.first + q.got = written'[h][step] + 1
      <4>1. written'[h][step] = written[h][step] + 1
        BY <1>8
      <4> QED  BY SMTT(20), <1>2, <1>3, <1>5, <1>6, <4>1
    <3>4. q.first + q.number = Count(h, step) + 1
      BY <1>3, <1>6
    <3>5. log' # <<>> /\ log'[Len(log')] = q
      BY <1>3, <1>7
    <3>6. walk' = walk /\ step' = step
      BY <2>2 DEF syncVars
    <3>7. Count(Head(walk), step)' = Count(h, step)
      BY <1>1, <3>6 DEF Count
    <3>8. OpenIsLast'
      BY <1>0, <1>1, <1>6, <3>2, <3>3, <3>4, <3>5, <3>6, <3>7 DEF OpenIsLast
    <3> QED  BY <3>1, <3>8
  <2> QED  BY <2>1, <2>2 DEF WriteEntry
<1>14. MuxTypeOK' /\ LogTypeOK'
  BY <1>0, <1>1, <1>7, <1>8 DEF TypeOK, MuxTypeOK, LogTypeOK
<1>15. TypeOK'
  BY <1>0, <1>1, <1>13, <1>14, DataFrame, RecFrame, OutFrame DEF TypeOK
<1>16. RecInBounds' /\ ReadingInLog'
  BY <1>0, <1>1 DEF TInv, RecInBounds, ReadingInLog, recVars
<1> QED  BY <1>11, <1>12, <1>13, <1>15, <1>16 DEF TInv

LEMMA WriteFailsT == ASSUME TInv, WriteFails PROVE TInv'
<1>0. TypeOK /\ pc = "sync" /\ "head" \in Cuts /\ "entry" \in Cuts
  BY DEF TInv, WriteFails, Cuts
<1>1. /\ UNCHANGED muxVars /\ UNCHANGED dataVars /\ UNCHANGED recVars
      /\ UNCHANGED outVars /\ UNCHANGED <<wantTables, tablesSize, oldSizes>>
      /\ pc' = "open" /\ open' = FALSE /\ step' = "track" /\ walk' = <<>>
  BY DEF WriteFails
<1>2. LogTypeOK' /\ LogInBounds'
  <2>1. CASE UNCHANGED log
    BY <1>0, <1>1, <2>1
       DEF TInv, TypeOK, LogTypeOK, LogInBounds, muxVars
  <2>2. CASE step \in Kinds /\ log' = Append(log, Record(Head(walk), step, "head"))
    <3> DEFINE r == Record(Head(walk), step, "head")
    <3>1. /\ r \in LogRecord /\ r.first > 0 /\ r.got <= r.number
          /\ r.kind \in {"stsz", "stco"} =>
               r.first + r.got <= Len(samples[r.h]) + 1
      BY <1>0, <2>2, RecordT
    <3> HIDE DEF r
    <3> QED  BY <3>1, <1>1, <2>2, AppendT DEF muxVars, r
  <2>3. CASE open /\ log' = [log EXCEPT ![Len(log)].cut = "entry"]
    <3>1. log \in Seq(LogRecord) /\ Len(log) \in DOMAIN log
      BY <1>0, <2>3 DEF TInv, TypeOK, LogTypeOK, OpenIsLast
    <3>2. log[Len(log)] \in LogRecord
      BY <3>1
    <3>3. [log[Len(log)] EXCEPT !.cut = "entry"] \in LogRecord
      BY <1>0, <3>2 DEF LogRecord
    <3>4. log' \in Seq(LogRecord) /\ DOMAIN log' = DOMAIN log
      BY <3>1, <3>3, <2>3
    <3>5. ASSUME NEW i \in DOMAIN log
          PROVE  /\ log'[i].h = log[i].h /\ log'[i].kind = log[i].kind
                 /\ log'[i].first = log[i].first
                 /\ log'[i].number = log[i].number /\ log'[i].got = log[i].got
      <4>1. log[i] \in LogRecord
        BY <3>1
      <4> QED  BY <3>1, <2>3, <4>1 DEF LogRecord
    <3>6. LogInBounds'
      BY <1>1, <3>4, <3>5 DEF TInv, LogInBounds, muxVars
    <3> QED  BY <1>0, <1>1, <3>4, <3>6 DEF TypeOK, LogTypeOK
  <2> QED  BY <2>1, <2>2, <2>3 DEF WriteFails
<1>3. SyncTypeOK' /\ pc' \in Pcs
  <2>1. walk' \in Seq(Handles) /\ pc' \in Pcs
    BY <1>1 DEF Pcs
  <2> QED  BY <1>0, <1>1, <2>1 DEF TypeOK, SyncTypeOK
<1>4. TypeOK'
  BY <1>0, <1>1, <1>2, <1>3, MuxFrame, DataFrame, RecFrame, OutFrame
     DEF TypeOK
<1>5. WrittenInBounds' /\ RecInBounds'
  <2>1. WrittenInBounds'
    BY <1>1, CountFrame DEF TInv, WrittenInBounds, muxVars
  <2> QED  BY <2>1, <1>1 DEF TInv, RecInBounds, muxVars, recVars
<1>6. SyncHasTrack' /\ OpenIsLast' /\ ReadingInLog'
  BY <1>1 DEF SyncHasTrack, OpenIsLast, ReadingInLog
<1> QED  BY <1>2, <1>4, <1>5, <1>6 DEF TInv

LEMMA ShortBoxInfoUnseenT == ASSUME TInv, ShortBoxInfoUnseen PROVE TInv'
<1> DEFINE r == Record(Head(walk), step, "head")
<1>0. TypeOK /\ pc = "sync" /\ step \in Kinds /\ "head" \in Cuts
  BY DEF TInv, ShortBoxInfoUnseen, Cuts
<1>1. /\ UNCHANGED muxVars /\ UNCHANGED dataVars /\ UNCHANGED recVars
      /\ UNCHANGED outVars /\ UNCHANGED <<pc, tablesSize, oldSizes>>
      /\ log' = Append(log, r) /\ EndRecord
  BY DEF ShortBoxInfoUnseen
<1>2. /\ r \in LogRecord /\ r.first > 0 /\ r.got <= r.number
      /\ r.kind \in {"stsz", "stco"} =>
           r.first + r.got <= Len(samples[r.h]) + 1
  BY <1>0, RecordT
<1> HIDE DEF r
<1>3. LogTypeOK' /\ LogInBounds'
  BY <1>1, <1>2, AppendT DEF muxVars
<1>4. walk # <<>>
  BY <1>0, AtTable
<1>5. SyncTypeOK' /\ open' = FALSE /\ (step' \in Kinds => walk' # <<>>)
  BY <1>0, <1>1, <1>4, EndRecordT DEF TypeOK
<1>6. TypeOK'
  BY <1>0, <1>1, <1>3, <1>5, MuxFrame, DataFrame, RecFrame, OutFrame
     DEF TypeOK
<1>7. WrittenInBounds' /\ RecInBounds'
  <2>1. WrittenInBounds'
    BY <1>1, CountFrame DEF TInv, WrittenInBounds, muxVars
  <2> QED  BY <2>1, <1>1 DEF TInv, RecInBounds, muxVars, recVars
<1>8. SyncHasTrack' /\ OpenIsLast' /\ ReadingInLog'
  BY <1>0, <1>1, <1>5 DEF SyncHasTrack, OpenIsLast, ReadingInLog
<1> QED  BY <1>3, <1>6, <1>7, <1>8 DEF TInv

LEMMA WriteHeaderT == ASSUME TInv, WriteHeader PROVE TInv'
<1>0. TypeOK /\ ~open
  BY DEF TInv, WriteHeader, OpenIsLast, Kinds
<1>1. /\ UNCHANGED muxVars /\ UNCHANGED dataVars /\ UNCHANGED recVars
      /\ UNCHANGED <<walk, open, wantTables, log, movie, recovered>>
      /\ pc' \in {"tables", "open"} /\ step' = "track"
      /\ tablesSize' = Len(log) /\ oldSizes' = oldSizes \cup {Len(log)}
      /\ acked' = [h \in Handles |-> Len(samples[h])]
  BY DEF WriteHeader
<1>2. SyncTypeOK' /\ pc' \in Pcs
  BY <1>0, <1>1 DEF TypeOK, SyncTypeOK, Pcs
<1>3. LogTypeOK'
  <2>1. log \in Seq(LogRecord) /\ oldSizes \subseteq Nat
    BY <1>0 DEF TypeOK, LogTypeOK
  <2>2. Len(log) \in Nat
    BY <2>1
  <2> QED  BY <1>1, <2>1, <2>2 DEF LogTypeOK
<1>4. OutTypeOK'
  <2>1. acked' \in [Handles -> Nat]
    BY <1>0, <1>1 DEF TypeOK, MuxTypeOK
  <2> QED  BY <1>0, <1>1, <2>1 DEF TypeOK, OutTypeOK
<1>5. TypeOK'
  BY <1>0, <1>1, <1>2, <1>3, <1>4, MuxFrame, DataFrame, RecFrame DEF TypeOK
<1>6. WrittenInBounds' /\ LogInBounds' /\ RecInBounds'
  BY <1>1, QuietBounds DEF muxVars, recVars
<1>7. SyncHasTrack' /\ OpenIsLast' /\ ReadingInLog'
  BY <1>0, <1>1 DEF SyncHasTrack, OpenIsLast, ReadingInLog
<1> QED  BY <1>5, <1>6, <1>7 DEF TInv

-----------------------------------------------------------------------------
(* The moov, the close and the crashes.                                    *)

LEMMA MoovType ==
  ASSUME NEW tables \in [Handles -> [Kinds -> Seq(Nat)]]
  PROVE  Moov(tables) \in [Handles -> [MoovKinds -> Seq(Nat)]]
<1>1. ASSUME NEW h \in Handles, NEW k \in MoovKinds
      PROVE  (IF tables[h]["stsz"] = <<>> THEN <<>> ELSE tables[h][k])
               \in Seq(Nat)
  <2>1. k \in Kinds
    BY DEF MoovKinds, Kinds
  <2> QED  BY <2>1
<1> QED  BY <1>1 DEF Moov

LEMMA MemoryTablesType ==
  ASSUME MuxTypeOK PROVE MemoryTables \in [Handles -> [Kinds -> Seq(Nat)]]
<1>1. ASSUME NEW h \in Handles, NEW k \in Kinds
      PROVE  [i \in 1 .. Count(h, k) |-> i] \in Seq(Nat)
  <2>1. Count(h, k) \in Nat
    BY CountType
  <2>2. [i \in 1 .. Count(h, k) |-> i] \in [1 .. Count(h, k) -> Nat]
    BY <2>1
  <2> QED  BY <2>1, <2>2, SeqDef
<1> QED  BY <1>1 DEF MemoryTables

LEMMA NoTablesType == NoTables \in [Handles -> [Kinds -> Seq(Nat)]]
  BY DEF NoTables

LEMMA NoMovieType == NoMovie \in [Handles -> [MoovKinds -> Seq(Nat)]]
  BY DEF NoMovie

LEMMA SyncTablesT == ASSUME TInv, SyncTables PROVE TInv'
<1>0. TypeOK /\ open = FALSE
  BY NotOpen DEF TInv, SyncTables
<1>1. /\ UNCHANGED <<type, samples, syncs, written, nsyncs, eof, valid>>
      /\ UNCHANGED syncVars /\ UNCHANGED logVars /\ UNCHANGED recVars
      /\ UNCHANGED <<recovered, acked>>
      /\ pc' = "open" /\ pos' = eof /\ full' \in BOOLEAN
      /\ fsynced' \in {eof, fsynced}
      /\ movie' \in {movie, Moov(MemoryTables)}
      /\ SortTracks /\ ComputeTts(Handles)
  BY DEF SyncTables, SortAndCompute
<1>2. ttsCount' \in [Handles -> Nat] /\ WrittenInBounds'
  BY <1>1, TtsT
<1>3. MuxTypeOK'
  BY <1>0, <1>1, <1>2, SortT DEF TypeOK, MuxTypeOK
<1>4. DataTypeOK' /\ pc' \in Pcs
  BY <1>0, <1>1 DEF TypeOK, DataTypeOK, Pcs
<1>5. OutTypeOK'
  BY <1>0, <1>1, MoovType, MemoryTablesType DEF TypeOK, OutTypeOK
<1>6. TypeOK'
  BY <1>0, <1>1, <1>3, <1>4, <1>5, SyncFrame, LogFrame, RecFrame DEF TypeOK
<1>7. LogInBounds' /\ RecInBounds'
  BY <1>1 DEF TInv, LogInBounds, RecInBounds, logVars, recVars
<1>8. SyncHasTrack' /\ OpenIsLast' /\ ReadingInLog'
  BY <1>0, <1>1 DEF SyncHasTrack, OpenIsLast, ReadingInLog, syncVars
<1> QED  BY <1>2, <1>6, <1>7, <1>8 DEF TInv

LEMMA SyncTablesSkippedT == ASSUME TInv, SyncTablesSkipped PROVE TInv'
<1>0. TypeOK /\ open = FALSE
  BY NotOpen DEF TInv, SyncTablesSkipped
<1>1. /\ UNCHANGED muxVars /\ UNCHANGED syncVars /\ UNCHANGED dataVars
      /\ UNCHANGED logVars /\ UNCHANGED recVars /\ UNCHANGED outVars
      /\ pc' = "open"
  BY DEF SyncTablesSkipped
<1>2. TypeOK'
  BY <1>0, <1>1, MuxFrame, SyncFrame, DataFrame, LogFrame, RecFrame, OutFrame
     DEF TypeOK, Pcs
<1>3. WrittenInBounds' /\ LogInBounds' /\ RecInBounds'
  BY <1>1, QuietBounds DEF muxVars, logVars, recVars
<1>4. SyncHasTrack' /\ OpenIsLast' /\ ReadingInLog'
  BY <1>0, <1>1 DEF SyncHasTrack, OpenIsLast, ReadingInLog, syncVars
<1> QED  BY <1>2, <1>3, <1>4 DEF TInv

LEMMA BeginCloseT == ASSUME TInv, BeginClose PROVE TInv'
<1>0. TypeOK /\ open = FALSE
  BY NotOpen DEF TInv, BeginClose
<1>1. /\ UNCHANGED <<type, samples, syncs, written, full, nsyncs>>
      /\ UNCHANGED syncVars /\ UNCHANGED dataVars /\ UNCHANGED logVars
      /\ UNCHANGED recVars /\ UNCHANGED outVars
      /\ pc' = "closing" /\ SortTracks /\ ComputeTts(Handles)
  BY DEF BeginClose, SortAndCompute
<1>2. ttsCount' \in [Handles -> Nat] /\ WrittenInBounds'
  BY <1>1, TtsT
<1>3. MuxTypeOK'
  BY <1>0, <1>1, <1>2, SortT DEF TypeOK, MuxTypeOK
<1>4. TypeOK'
  BY <1>0, <1>1, <1>3, SyncFrame, DataFrame, LogFrame, RecFrame, OutFrame
     DEF TypeOK, Pcs
<1>5. LogInBounds' /\ RecInBounds'
  BY <1>1 DEF TInv, LogInBounds, RecInBounds, logVars, recVars
<1>6. SyncHasTrack' /\ OpenIsLast' /\ ReadingInLog'
  BY <1>0, <1>1 DEF SyncHasTrack, OpenIsLast, ReadingInLog, syncVars
<1> QED  BY <1>2, <1>4, <1>5, <1>6 DEF TInv

LEMMA MemoryLostT ==
  ASSUME TypeOK, MemoryLost
  PROVE  /\ MuxTypeOK' /\ SyncTypeOK' /\ pos' \in Nat
         /\ WrittenInBounds' /\ open' = FALSE
<1>1. /\ UNCHANGED <<type, samples, syncs>>
      /\ list' = <<>> /\ walk' = <<>> /\ step' = "track"
      /\ open' = FALSE /\ wantTables' = FALSE
      /\ full' = FALSE /\ nsyncs' = 0 /\ pos' = 0
      /\ ttsCount' = [h \in Handles |-> 0]
      /\ written' = [h \in Handles |-> [k \in Kinds |-> 0]]
  BY DEF MemoryLost
<1>2. /\ ttsCount' \in [Handles -> Nat]
      /\ written' \in [Handles -> [Kinds -> Nat]]
      /\ list' \in Seq(Handles) /\ walk' \in Seq(Handles)
  BY <1>1
<1>3. MuxTypeOK'
  BY <1>1, <1>2 DEF TypeOK, MuxTypeOK
<1>4. SyncTypeOK'
  BY <1>1, <1>2 DEF SyncTypeOK
<1>5. WrittenInBounds'
  <2> SUFFICES ASSUME NEW h \in Handles, NEW k \in Kinds
               PROVE  written'[h][k] <= Count(h, k)'
    BY DEF WrittenInBounds
  <2>1. Count(h, k)' \in Nat
    BY <1>3 DEF MuxTypeOK, Count
  <2> QED  BY <1>1, <2>1
<1> QED  BY <1>1, <1>3, <1>4, <1>5

LEMMA EndCloseT == ASSUME TInv, EndClose, MoovTail \in Nat PROVE TInv'
<1>0. TypeOK
  BY DEF TInv
<1>1. /\ UNCHANGED <<samples, valid, recovered, acked>>
      /\ UNCHANGED logVars /\ UNCHANGED recVars
      /\ pc' = "closed" /\ eof' \in {eof, eof + MoovTail} /\ fsynced' = eof'
      /\ movie' = Moov(MemoryTables) /\ MemoryLost
  BY <1>0 DEF EndClose, MemoryLost, TypeOK, DataTypeOK
<1>2. /\ MuxTypeOK' /\ SyncTypeOK' /\ pos' \in Nat
      /\ WrittenInBounds' /\ open' = FALSE
  BY <1>0, <1>1, MemoryLostT
<1>3. DataTypeOK' /\ pc' \in Pcs
  BY <1>0, <1>1, <1>2 DEF TypeOK, DataTypeOK, Pcs
<1>4. OutTypeOK'
  BY <1>0, <1>1, MoovType, MemoryTablesType DEF TypeOK, OutTypeOK
<1>5. TypeOK'
  BY <1>0, <1>1, <1>2, <1>3, <1>4, LogFrame, RecFrame DEF TypeOK
<1>6. LogInBounds' /\ RecInBounds'
  BY <1>1 DEF TInv, LogInBounds, RecInBounds, logVars, recVars
<1>7. SyncHasTrack' /\ OpenIsLast' /\ ReadingInLog'
  BY <1>1, <1>2 DEF SyncHasTrack, OpenIsLast, ReadingInLog
<1> QED  BY <1>2, <1>5, <1>6, <1>7 DEF TInv

LEMMA CrashT == ASSUME TInv, Crash, MoovTail \in Nat PROVE TInv'
<1>0. TypeOK
  BY DEF TInv
<1>1. /\ UNCHANGED <<samples, fsynced, valid, recovered, acked, starts>>
      /\ UNCHANGED logVars /\ pc' = "dead" /\ MemoryLost
      /\ movie' \in {movie, NoMovie}
      /\ rcount' = 0 /\ rec' = NoTables /\ ri' = 1 /\ rj' = 0
      /\ reading' = FALSE /\ rend' = 0 /\ errorMsg' = FALSE
  BY DEF Crash, MovieMayTear, MemoryLost
<1>2. eof' \in Nat
  <2>1. eof \in Nat
    BY <1>0 DEF TypeOK, DataTypeOK
  <2>2. \/ eof' = eof
        \/ \E tail \in 0 .. MoovTail : eof' = eof + tail
    BY DEF Crash
  <2> QED  BY <2>1, <2>2
<1>3. /\ MuxTypeOK' /\ SyncTypeOK' /\ pos' \in Nat
      /\ WrittenInBounds' /\ open' = FALSE
  BY <1>0, <1>1, MemoryLostT
<1>4. DataTypeOK' /\ pc' \in Pcs
  BY <1>0, <1>1, <1>2, <1>3 DEF TypeOK, DataTypeOK, Pcs
<1>5. OutTypeOK'
  BY <1>0, <1>1, NoMovieType DEF TypeOK, OutTypeOK
<1>6. RecTypeOK'
  <2>1. rec' \in [Handles -> [Kinds -> Seq(Nat)]]
    BY <1>1, NoTablesType
  <2>2. /\ starts' \in Nat /\ rcount' \in Nat
        /\ ri' \in Nat \ {0} /\ rj' \in Nat /\ rend' \in Nat
    BY <1>0, <1>1 DEF TypeOK, RecTypeOK
  <2>3. reading' \in BOOLEAN /\ errorMsg' \in BOOLEAN
    BY <1>1
  <2> QED  BY <2>1, <2>2, <2>3 DEF RecTypeOK
<1>7. TypeOK'
  BY <1>0, <1>1, <1>3, <1>4, <1>5, <1>6, LogFrame DEF TypeOK
<1>8. LogInBounds' /\ RecInBounds'
  BY <1>1 DEF TInv, LogInBounds, RecInBounds, logVars, NoTables, Kinds
<1>9. SyncHasTrack' /\ OpenIsLast' /\ ReadingInLog'
  BY <1>1, <1>3 DEF SyncHasTrack, OpenIsLast, ReadingInLog
<1> QED  BY <1>3, <1>7, <1>8, <1>9 DEF TInv

LEMMA ShortenedT ==
  ASSUME TInv, log' \in Shortened(log), UNCHANGED samples
  PROVE  log' \in Seq(LogRecord) /\ LogInBounds'
<1>1. log \in Seq(LogRecord) /\ LogInBounds
  BY DEF TInv, TypeOK, LogTypeOK
<1>2. CASE \E n \in 0 .. Len(log) : log' = SubSeq(log, 1, n)
  <2>1. PICK n \in 0 .. Len(log) : log' = SubSeq(log, 1, n)
    BY <1>2
  <2>2. log' \in Seq(LogRecord) /\ Len(log') = n
    BY <1>1, <2>1
  <2>3. ASSUME NEW i \in DOMAIN log'
        PROVE  i \in DOMAIN log /\ log'[i] = log[i]
    BY <1>1, <2>1, <2>2
  <2>4. LogInBounds'
    BY <1>1, <2>3 DEF LogInBounds
  <2> QED  BY <2>2, <2>4
<1>3. CASE \E n \in 1 .. Len(log) : \E g \in 0 .. log[n].got, c \in Cuts :
             log' = CutInside(log, n, g, c)
  <2>0. PICK n \in 1 .. Len(log) : \E g \in 0 .. log[n].got, c \in Cuts :
             log' = CutInside(log, n, g, c)
    BY <1>3
  <2>1. PICK g \in 0 .. log[n].got, c \in Cuts :
             log' = CutInside(log, n, g, c)
    BY <2>0
  <2> DEFINE q == [log[n] EXCEPT !.got = g, !.cut = c]
             l == SubSeq(log, 1, n - 1)
  <2>2. log[n] \in LogRecord
    BY <1>1
  <2>3. log[n].got \in Nat /\ log[n].first \in Nat /\ log[n].number \in Nat
    BY <2>2 DEF LogRecord
  <2>4. g \in Nat /\ g <= log[n].got
    BY <2>3
  <2>5. /\ q \in LogRecord /\ q.h = log[n].h /\ q.kind = log[n].kind
        /\ q.first = log[n].first /\ q.number = log[n].number /\ q.got = g
    BY <2>2, <2>4 DEF LogRecord
  <2>6. l \in Seq(LogRecord) /\ Len(l) = n - 1
    BY <1>1
  <2>7. \A i \in DOMAIN l : i \in DOMAIN log /\ l[i] = log[i]
    BY <1>1
  <2>8. log' = Append(l, q)
    BY <2>1 DEF CutInside
  <2> HIDE DEF q, l
  <2>9. log' \in Seq(LogRecord)
    BY <2>5, <2>6, <2>8
  <2>10. ASSUME NEW i \in DOMAIN log'
         PROVE  log'[i] = q \/ (i \in DOMAIN log /\ log'[i] = log[i])
    BY <2>5, <2>6, <2>7, <2>8
  <2>11. /\ log[n].first > 0 /\ log[n].got <= log[n].number
         /\ log[n].kind \in {"stsz", "stco"} =>
              log[n].first + log[n].got <= Len(samples[log[n].h]) + 1
    BY <1>1 DEF LogInBounds
  <2>12. /\ q.first > 0 /\ q.got <= q.number
         /\ q.kind \in {"stsz", "stco"} =>
              q.first + q.got <= Len(samples[q.h]) + 1
    <3>1. log[n].h \in Handles /\ samples \in [Handles -> Seq([off : Nat, size : Nat])]
      BY <2>2 DEF LogRecord, TInv, TypeOK, MuxTypeOK
    <3>2. Len(samples[log[n].h]) \in Nat
      BY <3>1
    <3> QED  BY <2>3, <2>4, <2>5, <2>11, <3>2
  <2>13. LogInBounds'
    BY <1>1, <2>10, <2>12 DEF LogInBounds
  <2> QED  BY <2>9, <2>13
<1>4. \/ log' \in {SubSeq(log, 1, n) : n \in 0 .. Len(log)}
      \/ \E n \in 1 .. Len(log) :
           log' \in {CutInside(log, n, g, c) :
                       g \in 0 .. log[n].got, c \in Cuts}
  BY DEF Shortened, Cuts
<1> QED  BY <1>2, <1>3, <1>4

LEMMA PowerLossT == ASSUME TInv, PowerLoss PROVE TInv'
<1>0. TypeOK
  BY DEF TInv
<1>1. /\ UNCHANGED <<samples, fsynced, recovered, acked>>
      /\ UNCHANGED recVars /\ pc' = "dead" /\ MemoryLost
      /\ movie' \in {movie, NoMovie}
      /\ eof' \in fsynced .. eof /\ valid' = Smaller(valid, eof')
      /\ log' \in Shortened(log)
      /\ tablesSize' \in oldSizes /\ oldSizes' = {tablesSize'}
  BY DEF PowerLoss, MovieMayTear, MemoryLost
<1>2. /\ MuxTypeOK' /\ SyncTypeOK' /\ pos' \in Nat
      /\ WrittenInBounds' /\ open' = FALSE
  BY <1>0, <1>1, MemoryLostT
<1>3. DataTypeOK' /\ pc' \in Pcs
  BY <1>0, <1>1, <1>2 DEF TypeOK, DataTypeOK, Pcs, Smaller
<1>4. log' \in Seq(LogRecord) /\ LogInBounds'
  BY <1>1, ShortenedT
<1>5. LogTypeOK'
  BY <1>0, <1>1, <1>4 DEF TypeOK, LogTypeOK
<1>6. OutTypeOK'
  BY <1>0, <1>1, NoMovieType DEF TypeOK, OutTypeOK
<1>7. TypeOK'
  BY <1>0, <1>1, <1>2, <1>3, <1>5, <1>6, RecFrame DEF TypeOK
<1>8. RecInBounds'
  BY <1>1 DEF TInv, RecInBounds, recVars
<1>9. SyncHasTrack' /\ OpenIsLast' /\ ReadingInLog'
  BY <1>1, <1>2 DEF SyncHasTrack, OpenIsLast, ReadingInLog
<1> QED  BY <1>2, <1>4, <1>7, <1>8, <1>9 DEF TInv

-----------------------------------------------------------------------------
(* The recovery.                                                           *)

LEMMA RecoveryFrame ==
  ASSUME TInv, pc # "sync", pc' # "sync", UNCHANGED muxVars,
         UNCHANGED syncVars
  PROVE  /\ MuxTypeOK' /\ SyncTypeOK' /\ WrittenInBounds'
         /\ SyncHasTrack' /\ OpenIsLast'
         /\ UNCHANGED logVars => LogTypeOK' /\ LogInBounds'
<1>1. MuxTypeOK' /\ SyncTypeOK'
  BY MuxFrame, SyncFrame DEF TInv, TypeOK
<1>2. WrittenInBounds'
  BY CountFrame DEF TInv, WrittenInBounds, muxVars
<1>3. SyncHasTrack' /\ OpenIsLast'
  BY NotOpen DEF SyncHasTrack, OpenIsLast, syncVars
<1>4. UNCHANGED logVars => LogTypeOK' /\ LogInBounds'
  BY LogFrame DEF TInv, TypeOK, LogInBounds, logVars, muxVars
<1> QED  BY <1>1, <1>2, <1>3, <1>4

LEMMA RecoverStartT == ASSUME TInv, RecoverStart PROVE TInv'
<1>0. TypeOK
  BY DEF TInv
<1>1. /\ UNCHANGED muxVars /\ UNCHANGED syncVars /\ UNCHANGED logVars
      /\ UNCHANGED <<pos, eof, valid, recovered, acked>>
      /\ fsynced' \in {fsynced, eof} /\ movie' \in {movie, NoMovie}
      /\ pc # "sync" /\ pc' \in {"refused", "parse"}
      /\ starts' = starts + 1 /\ rcount' = 0 /\ rec' = NoTables
      /\ ri' = 1 /\ rj' = 0 /\ reading' = FALSE /\ rend' = eof
      /\ errorMsg' \in BOOLEAN
  BY DEF RecoverStart
<1>2. RecTypeOK'
  <2>1. rec' \in [Handles -> [Kinds -> Seq(Nat)]]
    BY <1>1, NoTablesType
  <2>2. /\ starts' \in Nat /\ rcount' \in Nat
        /\ ri' \in Nat \ {0} /\ rj' \in Nat /\ rend' \in Nat
    BY <1>0, <1>1 DEF TypeOK, RecTypeOK, DataTypeOK
  <2> QED  BY <1>1, <2>1, <2>2 DEF RecTypeOK
<1>3. /\ MuxTypeOK' /\ SyncTypeOK' /\ WrittenInBounds'
      /\ SyncHasTrack' /\ OpenIsLast' /\ LogTypeOK' /\ LogInBounds'
  BY <1>1, RecoveryFrame
<1>4. DataTypeOK' /\ pc' \in Pcs
  BY <1>0, <1>1 DEF TypeOK, DataTypeOK, Pcs
<1>5. OutTypeOK'
  BY <1>0, <1>1, NoMovieType DEF TypeOK, OutTypeOK
<1>6. RecInBounds' /\ ReadingInLog'
  BY <1>1 DEF RecInBounds, ReadingInLog, NoTables, Kinds
<1> QED  BY <1>2, <1>3, <1>4, <1>5, <1>6 DEF TInv, TypeOK

(* A step of the parser: it reads on, in bounds, or leaves the loop. *)
ParserStep ==
  /\ pc = "parse" /\ pc' \in {"parse", "trim", "rewrite"}
  /\ ri' \in Nat \ {0} /\ rj' \in Nat /\ reading' \in BOOLEAN
  /\ errorMsg' \in BOOLEAN /\ rcount' \in Nat
  /\ pc' = "parse" /\ reading' => ri' <= Len(log)
  /\ UNCHANGED muxVars /\ UNCHANGED syncVars /\ UNCHANGED dataVars
  /\ UNCHANGED logVars /\ UNCHANGED outVars /\ UNCHANGED <<starts, rend>>

LEMMA ParserStepT ==
  ASSUME TInv, ParserStep,
         rec' \in [Handles -> [Kinds -> Seq(Nat)]], RecInBounds'
  PROVE  TInv'
<1>0. TypeOK
  BY DEF TInv
<1>1. RecTypeOK'
  BY <1>0 DEF ParserStep, TypeOK, RecTypeOK
<1>2. /\ MuxTypeOK' /\ SyncTypeOK' /\ WrittenInBounds'
      /\ SyncHasTrack' /\ OpenIsLast' /\ LogTypeOK' /\ LogInBounds'
  BY RecoveryFrame DEF ParserStep
<1>3. DataTypeOK' /\ OutTypeOK' /\ pc' \in Pcs
  BY <1>0, DataFrame, OutFrame DEF ParserStep, TypeOK, Pcs
<1>4. ReadingInLog'
  BY DEF ParserStep, ReadingInLog, logVars
<1> QED  BY <1>1, <1>2, <1>3, <1>4 DEF TInv, TypeOK

LEMMA ReadingType ==
  ASSUME TInv
  PROVE  /\ ri \in Nat \ {0} /\ rj \in Nat /\ reading \in BOOLEAN
         /\ errorMsg \in BOOLEAN /\ rcount \in Nat /\ tablesSize \in Nat
         /\ rec \in [Handles -> [Kinds -> Seq(Nat)]]
         /\ Len(log) \in Nat
         /\ ri <= Len(log) => Cur \in LogRecord
<1>1. log \in Seq(LogRecord) /\ tablesSize \in Nat
  BY DEF TInv, TypeOK, LogTypeOK
<1>2. /\ ri \in Nat \ {0} /\ rj \in Nat /\ reading \in BOOLEAN
      /\ errorMsg \in BOOLEAN /\ rcount \in Nat
      /\ rec \in [Handles -> [Kinds -> Seq(Nat)]]
  BY DEF TInv, TypeOK, RecTypeOK
<1>3. ri <= Len(log) => log[ri] \in LogRecord
  BY <1>1, <1>2
<1> QED  BY <1>1, <1>2, <1>3 DEF Cur

(* How the parser leaves a record: all of them keep the types.             *)
Reads ==
  /\ pc' \in {"parse", "trim", "rewrite"}
  /\ ri' \in Nat \ {0} /\ rj' \in Nat /\ reading' \in BOOLEAN
  /\ errorMsg' \in BOOLEAN

LEMMA LeavesT ==
  ASSUME TInv, Minor \/ Fatal PROVE Reads /\ pc' # "parse"
  BY ReadingType DEF Minor, Fatal, Stay, Reads

LEMMA FailT ==
  ASSUME TInv, NEW k, Fail(k) PROVE Reads /\ pc' # "parse"
  BY LeavesT DEF Fail

LEMMA NextRecordT ==
  ASSUME TInv, Go, NextRecord PROVE Reads /\ reading' = FALSE
<1>1. ri' = ri + 1 /\ rj' = 0 /\ reading' = FALSE
  BY DEF NextRecord
<1>2. pc' = "parse" /\ errorMsg' = errorMsg
  BY DEF Go
<1>3. ri \in Nat \ {0} /\ errorMsg \in BOOLEAN
  BY ReadingType
<1>4. ri' \in Nat \ {0} /\ rj' \in Nat
  BY <1>1, <1>3
<1>5. reading' \in BOOLEAN /\ errorMsg' \in BOOLEAN
  BY <1>1, <1>2, <1>3
<1> QED  BY <1>1, <1>2, <1>4, <1>5 DEF Reads

LEMMA MisalignedT ==
  ASSUME TInv, Misaligned PROVE Reads /\ (pc' = "parse" => reading' = FALSE)
<1>1. CASE Go /\ rj' = 0 /\ reading' = FALSE /\ ri' \in ri + 1 .. tablesSize + 1
  <2>1. ri \in Nat \ {0} /\ errorMsg \in BOOLEAN /\ tablesSize \in Nat
    BY ReadingType
  <2>2. ri' \in Nat \ {0} /\ rj' \in Nat
    BY <1>1, <2>1
  <2>3. reading' \in BOOLEAN /\ errorMsg' \in BOOLEAN /\ pc' = "parse"
    BY <1>1, <2>1 DEF Go
  <2> QED  BY <1>1, <2>2, <2>3 DEF Reads
<1>2. CASE Minor \/ Fatal
  BY <1>2, LeavesT
<1> QED  BY <1>1, <1>2 DEF Misaligned

LEMMA ReadDoneT == ASSUME TInv, ReadDone PROVE TInv'
<1>1. ParserStep
  BY LeavesT, ReadingType DEF ReadDone, ParserStep, Reads
<1>2. rec' \in [Handles -> [Kinds -> Seq(Nat)]] /\ RecInBounds'
  BY ReadingType DEF ReadDone, TInv, RecInBounds, muxVars
<1> QED  BY <1>1, <1>2, ParserStepT

LEMMA ReadBoxInfoT == ASSUME TInv, ReadBoxInfo PROVE TInv'
<1>1. /\ pc = "parse" /\ UNCHANGED muxVars /\ UNCHANGED syncVars
      /\ UNCHANGED dataVars /\ UNCHANGED logVars /\ UNCHANGED outVars
      /\ UNCHANGED <<starts, rec, rend>>
  BY DEF ReadBoxInfo
<1>2. Reads /\ rcount' \in Nat /\ (pc' = "parse" /\ reading' => ri' <= Len(log))
  <2>1. CASE Fatal /\ UNCHANGED rcount
    BY <2>1, LeavesT, ReadingType
  <2>2. CASE Misaligned /\ UNCHANGED rcount
    BY <2>2, MisalignedT, ReadingType
  <2>3. CASE Go /\ NextRecord /\ UNCHANGED rcount
    BY <2>3, NextRecordT, ReadingType
  <2>4. CASE /\ Fail(Cur.kind)
             /\ rcount' = IF Cur.kind = "trak" THEN rcount + 1 ELSE rcount
    BY <2>4, FailT, ReadingType
  <2>5. CASE /\ ri <= Len(log) /\ Go /\ UNCHANGED rcount
             /\ reading' = TRUE /\ UNCHANGED <<ri, rj>>
    BY <2>5, ReadingType DEF Go, Reads
  <2> QED  BY <2>1, <2>2, <2>3, <2>4, <2>5 DEF ReadBoxInfo
<1>3. ParserStep
  BY <1>1, <1>2 DEF ParserStep, Reads
<1>4. rec' \in [Handles -> [Kinds -> Seq(Nat)]] /\ RecInBounds'
  BY <1>1, ReadingType DEF TInv, RecInBounds, muxVars
<1> QED  BY <1>3, <1>4, ParserStepT

(* Appending entries that are in bounds to one table read back. *)
LEMMA AppendRec ==
  ASSUME TInv, NEW h \in Handles, NEW k \in Kinds, NEW s \in Seq(Nat),
         rec' = [rec EXCEPT ![h][k] = @ \o s], UNCHANGED samples,
         k \in {"stsz", "stco"} =>
           \A i \in DOMAIN s : s[i] <= Len(samples[h])
  PROVE  rec' \in [Handles -> [Kinds -> Seq(Nat)]] /\ RecInBounds'
<1>0. rec \in [Handles -> [Kinds -> Seq(Nat)]]
  BY ReadingType
<1>1. rec[h][k] \in Seq(Nat)
  BY <1>0
<1>2. rec[h][k] \o s \in Seq(Nat)
  BY <1>1
<1>3. /\ rec' \in [Handles -> [Kinds -> Seq(Nat)]]
      /\ rec'[h][k] = rec[h][k] \o s
      /\ \A g \in Handles, j \in Kinds :
           g # h \/ j # k => rec'[g][j] = rec[g][j]
  BY <1>0, <1>2
<1>4. RecInBounds'
  <2> SUFFICES ASSUME NEW g \in Handles, NEW j \in {"stsz", "stco"},
                      NEW i \in DOMAIN rec'[g][j]
               PROVE  rec'[g][j][i] <= Len(samples[g])
    BY DEF RecInBounds
  <2>1. j \in Kinds
    BY DEF Kinds
  <2>2. CASE g # h \/ j # k
    BY <1>3, <2>1, <2>2 DEF TInv, RecInBounds
  <2>3. CASE g = h /\ j = k
    <3>1. \/ rec'[g][j][i] = rec[h][k][i] /\ i \in DOMAIN rec[h][k]
          \/ \E m \in DOMAIN s : rec'[g][j][i] = s[m]
      <4>1. i \in 1 .. Len(rec[h][k] \o s)
        BY <1>2, <1>3, <2>3
      <4>2. Len(rec[h][k] \o s) = Len(rec[h][k]) + Len(s)
        BY <1>1
      <4>3. CASE i <= Len(rec[h][k])
        BY <1>1, <1>3, <2>3, <4>1, <4>3
      <4>4. CASE ~(i <= Len(rec[h][k]))
        <5>1. i - Len(rec[h][k]) \in DOMAIN s
          BY <1>1, <4>1, <4>2, <4>4
        <5>2. (rec[h][k] \o s)[i] = s[i - Len(rec[h][k])]
          BY <1>1, <4>1, <4>2, <4>4
        <5> QED  BY <1>3, <2>3, <5>1, <5>2
      <4> QED  BY <4>3, <4>4
    <3> QED  BY <2>3, <3>1 DEF TInv, RecInBounds
  <2> QED  BY <2>2, <2>3
<1> QED  BY <1>3, <1>4

LEMMA AppendOne ==
  ASSUME NEW S, NEW s \in Seq(S), NEW e \in S
  PROVE  Append(s, e) = s \o <<e>>
  OBVIOUS

LEMMA ReadEntryT == ASSUME TInv, ReadEntry PROVE TInv'
<1>1. /\ pc = "parse" /\ reading /\ rj < Cur.got
      /\ UNCHANGED muxVars /\ UNCHANGED syncVars
      /\ UNCHANGED dataVars /\ UNCHANGED logVars /\ UNCHANGED outVars
      /\ UNCHANGED <<starts, rend>>
      /\ rec' = [rec EXCEPT ![Cur.h][Cur.kind] = Append(@, Cur.first + rj)]
      /\ rcount' \in {rcount, Larger(rcount, Cur.h)}
      /\ Go
  BY DEF ReadEntry
<1>2. ri <= Len(log) /\ Cur \in LogRecord
  BY <1>1, ReadingType DEF TInv, ReadingInLog
<1>3. /\ Cur.h \in Handles /\ Cur.kind \in Kinds /\ Cur.first \in Nat
      /\ Cur.got \in Nat
  BY <1>2 DEF LogRecord
<1>4. /\ ri \in Nat \ {0} /\ rj \in Nat /\ rcount \in Nat
      /\ errorMsg \in BOOLEAN
      /\ rec \in [Handles -> [Kinds -> Seq(Nat)]]
  BY ReadingType
<1>5. Reads /\ rcount' \in Nat /\ (pc' = "parse" /\ reading' => ri' <= Len(log))
  <2>1. rcount' \in Nat
    BY <1>1, <1>3, <1>4 DEF Larger, Handles
  <2>2. CASE NextRecord
    BY <1>1, <2>1, <2>2, NextRecordT
  <2>3. CASE rj' = rj + 1 /\ UNCHANGED <<ri, reading>>
    <3>1. rj' \in Nat /\ ri' \in Nat \ {0} /\ reading' = TRUE
      BY <1>1, <1>4, <2>3
    <3>2. errorMsg' \in BOOLEAN /\ pc' = "parse"
      BY <1>1, <1>4 DEF Go
    <3> QED  BY <1>2, <2>1, <2>3, <3>1, <3>2 DEF Reads
  <2> QED  BY <2>2, <2>3 DEF ReadEntry
<1>6. ParserStep
  BY <1>1, <1>5 DEF ParserStep, Reads
<1> DEFINE e == Cur.first + rj
<1>7. e \in Nat /\ (Cur.kind \in {"stsz", "stco"} => e <= Len(samples[Cur.h]))
  <2>1. log[ri] = Cur /\ ri \in DOMAIN log
    BY <1>2, <1>4 DEF Cur, TInv, TypeOK, LogTypeOK
  <2>2. Cur.kind \in {"stsz", "stco"} =>
          Cur.first + Cur.got <= Len(samples[Cur.h]) + 1
    BY <2>1 DEF TInv, LogInBounds
  <2>3. Len(samples[Cur.h]) \in Nat
    BY <1>3 DEF TInv, TypeOK, MuxTypeOK
  <2>4. e \in Nat /\ e + 1 <= Cur.first + Cur.got
    BY <1>1, <1>3, <1>4
  <2>5. ASSUME Cur.kind \in {"stsz", "stco"} PROVE e <= Len(samples[Cur.h])
    BY <1>3, <2>2, <2>3, <2>4, <2>5
  <2> QED  BY <2>4, <2>5
<1>8. rec' = [rec EXCEPT ![Cur.h][Cur.kind] = @ \o <<e>>]
  <2>1. rec[Cur.h][Cur.kind] \in Seq(Nat)
    BY <1>3, <1>4
  <2>2. Append(rec[Cur.h][Cur.kind], e) = rec[Cur.h][Cur.kind] \o <<e>>
    BY <1>7, <2>1, AppendOne
  <2> QED  BY <1>1, <2>2
<1> HIDE DEF e
<1>9. <<e>> \in Seq(Nat) /\ \A i \in DOMAIN <<e>> : <<e>>[i] = e
  BY <1>7
<1>10. samples' = samples
  BY <1>1 DEF muxVars
<1>11. rec' \in [Handles -> [Kinds -> Seq(Nat)]] /\ RecInBounds'
  BY <1>3, <1>7, <1>8, <1>9, <1>10, AppendRec
<1> QED  BY <1>6, <1>11, ParserStepT

LEMMA ZerosType ==
  ASSUME NEW n \in Nat
  PROVE  /\ [i \in 1 .. n |-> 0] \in Seq(Nat)
         /\ \A j \in DOMAIN [i \in 1 .. n |-> 0] : [i \in 1 .. n |-> 0][j] = 0
<1>1. [i \in 1 .. n |-> 0] \in [1 .. n -> Nat]
  OBVIOUS
<1>2. [i \in 1 .. n |-> 0] \in Seq(Nat)
  BY <1>1, SeqDef
<1> QED  BY <1>2

(* The zeros that are read for missing entries. *)
LEMMA AppendZeros ==
  ASSUME TInv, NEW h \in Handles, NEW k \in Kinds, NEW n \in Nat,
         rec' = [rec EXCEPT ![h][k] = @ \o [i \in 1 .. n |-> 0]],
         UNCHANGED samples
  PROVE  rec' \in [Handles -> [Kinds -> Seq(Nat)]] /\ RecInBounds'
<1> DEFINE s == [i \in 1 .. n |-> 0]
<1>1. s \in Seq(Nat) /\ \A j \in DOMAIN s : s[j] = 0
  BY ZerosType
<1>2. Len(samples[h]) \in Nat
  BY DEF TInv, TypeOK, MuxTypeOK
<1>3. \A j \in DOMAIN s : s[j] <= Len(samples[h])
  BY <1>1, <1>2
<1>4. rec' = [rec EXCEPT ![h][k] = @ \o s]
  OBVIOUS
<1> HIDE DEF s
<1> QED  BY <1>1, <1>3, <1>4, AppendRec

LEMMA ReadMissingEntryT == ASSUME TInv, ReadMissingEntry PROVE TInv'
<1>1. /\ pc = "parse" /\ reading /\ rj >= Cur.got
      /\ UNCHANGED muxVars /\ UNCHANGED syncVars
      /\ UNCHANGED dataVars /\ UNCHANGED logVars /\ UNCHANGED outVars
      /\ UNCHANGED <<starts, rcount, rend>>
  BY DEF ReadMissingEntry
<1>2. ri <= Len(log) /\ Cur \in LogRecord
  BY <1>1, ReadingType DEF TInv, ReadingInLog
<1>3. /\ Cur.h \in Handles /\ Cur.kind \in Kinds
      /\ Cur.got \in Nat /\ Cur.number \in Nat
  BY <1>2 DEF LogRecord
<1>4. /\ ri \in Nat \ {0} /\ rj \in Nat /\ rcount \in Nat
      /\ errorMsg \in BOOLEAN
      /\ rec \in [Handles -> [Kinds -> Seq(Nat)]]
  BY ReadingType
<1>5. samples' = samples
  BY <1>1 DEF muxVars
<1>6. UNCHANGED rec =>
        rec' \in [Handles -> [Kinds -> Seq(Nat)]] /\ RecInBounds'
  BY <1>4, <1>5 DEF TInv, RecInBounds
<1>7. /\ Reads /\ (pc' = "parse" /\ reading' => ri' <= Len(log))
      /\ rec' \in [Handles -> [Kinds -> Seq(Nat)]] /\ RecInBounds'
  <2>1. CASE (Fail(Cur.kind) \/ Fatal) /\ UNCHANGED rec
    BY <1>6, <2>1, FailT, LeavesT
  <2>2. CASE /\ rec' = [rec EXCEPT ![Cur.h][Cur.kind] = Append(@, 0)]
             /\ Go
             /\ \/ NextRecord
                \/ rj' = rj + 1 /\ UNCHANGED <<ri, reading>>
    <3>1. Reads /\ (pc' = "parse" /\ reading' => ri' <= Len(log))
      <4>1. CASE NextRecord
        BY <2>2, <4>1, NextRecordT
      <4>2. CASE rj' = rj + 1 /\ UNCHANGED <<ri, reading>>
        <5>1. rj' \in Nat /\ ri' \in Nat \ {0} /\ reading' = TRUE
          BY <1>1, <1>4, <4>2
        <5>2. errorMsg' \in BOOLEAN /\ pc' = "parse"
          BY <1>4, <2>2 DEF Go
        <5> QED  BY <1>2, <4>2, <5>1, <5>2 DEF Reads
      <4> QED  BY <2>2, <4>1, <4>2
    <3>2. rec' = [rec EXCEPT ![Cur.h][Cur.kind] = @ \o <<0>>]
      <4>1. rec[Cur.h][Cur.kind] \in Seq(Nat)
        BY <1>3, <1>4
      <4>2. Append(rec[Cur.h][Cur.kind], 0) = rec[Cur.h][Cur.kind] \o <<0>>
        BY <4>1, AppendOne
      <4> QED  BY <2>2, <4>2
    <3>3. Len(samples[Cur.h]) \in Nat
      BY <1>3 DEF TInv, TypeOK, MuxTypeOK
    <3>4. <<0>> \in Seq(Nat) /\ \A i \in DOMAIN <<0>> : <<0>>[i] <= Len(samples[Cur.h])
      BY <3>3
    <3> QED  BY <1>3, <1>5, <3>1, <3>2, <3>4, AppendRec
  <2>3. CASE /\ \E n \in 0 .. Cur.number - Cur.got :
                  rec' = [rec EXCEPT ![Cur.h][Cur.kind] =
                            @ \o [i \in 1 .. n |-> 0]]
             /\ Misaligned
    <3>1. PICK n \in 0 .. Cur.number - Cur.got :
                  rec' = [rec EXCEPT ![Cur.h][Cur.kind] =
                            @ \o [i \in 1 .. n |-> 0]]
      BY <2>3
    <3>2. n \in Nat
      BY <1>3
    <3>3. rec' \in [Handles -> [Kinds -> Seq(Nat)]] /\ RecInBounds'
      BY <1>3, <1>5, <3>1, <3>2, AppendZeros
    <3> QED  BY <2>3, <3>3, MisalignedT
  <2> QED  BY <2>1, <2>2, <2>3 DEF ReadMissingEntry
<1>8. ParserStep
  BY <1>1, <1>4, <1>7 DEF ParserStep, Reads
<1> QED  BY <1>7, <1>8, ParserStepT

LEMMA ElementType ==
  ASSUME NEW S, NEW s \in Seq(S), NEW i \in DOMAIN s PROVE s[i] \in S
  OBVIOUS

LEMMA KeptT ==
  ASSUME TInv, NEW h \in Handles
  PROVE  /\ Kept(h) \in Nat
         /\ Kept(h) <= Len(rec[h]["stsz"]) /\ Kept(h) <= Len(rec[h]["stco"])
         /\ \A i \in InFile(h) : End(h, i) \in Nat
<1> DEFINE a == Len(rec[h]["stco"])
           b == Len(rec[h]["stsz"])
           m == Smaller(a, b)
<1>1. rec[h]["stco"] \in Seq(Nat) /\ rec[h]["stsz"] \in Seq(Nat)
  BY ReadingType DEF Kinds
<1>2. m \in Nat /\ m <= a /\ m <= b
  BY <1>1 DEF Smaller
<1>3. InFile(h) \subseteq 1 .. m
  BY DEF InFile
<1>4. InFile(h) \in SUBSET (1 .. m)
  BY <1>3
<1> HIDE DEF m
<1>5. IsFiniteSet(1 .. m) /\ Cardinality(1 .. m) = m
  <2>1. Cardinality(1 .. m) = IF 1 > m THEN 0 ELSE m - 1 + 1
    BY <1>2, FS_Interval
  <2>2. IsFiniteSet(1 .. m)
    BY <1>2, FS_Interval
  <2> QED  BY <1>2, <2>1, <2>2
<1>6. IsFiniteSet(InFile(h)) /\ Cardinality(InFile(h)) <= m
  BY <1>4, <1>5, FS_Subset
<1>7. Cardinality(InFile(h)) \in Nat
  BY <1>6, FS_CardinalityType
<1>8. ASSUME NEW i \in InFile(h) PROVE End(h, i) \in Nat
  <2>1. i \in DOMAIN rec[h]["stco"] /\ i \in DOMAIN rec[h]["stsz"]
    BY SMTT(20), <1>1, <1>2, <1>3
  <2> DEFINE o == rec[h]["stco"][i]
             z == rec[h]["stsz"][i]
  <2>2. o \in Nat /\ z \in Nat
    BY <1>1, <2>1, ElementType
  <2>3. o <= Len(samples[h]) /\ z <= Len(samples[h])
    BY <2>1 DEF TInv, RecInBounds
  <2>4. End(h, i) = OffsetOf(h, o) + SizeOf(h, z)
    BY DEF End
  <2> HIDE DEF o, z
  <2>5. samples[h] \in Seq([off : Nat, size : Nat])
    BY DEF TInv, TypeOK, MuxTypeOK
  <2>6. ASSUME NEW n \in Nat, n <= Len(samples[h]), n # 0
        PROVE  samples[h][n] \in [off : Nat, size : Nat]
    <3>1. Len(samples[h]) \in Nat /\ DOMAIN samples[h] = 1 .. Len(samples[h])
      BY <2>5
    <3>2. n \in DOMAIN samples[h]
      BY <2>6, <3>1
    <3> QED  BY <2>5, <3>2, ElementType
  <2>7. OffsetOf(h, o) \in Nat
    BY <2>2, <2>3, <2>6 DEF OffsetOf
  <2>8. SizeOf(h, z) \in Nat
    BY <2>2, <2>3, <2>6 DEF SizeOf
  <2> QED  BY <2>4, <2>7, <2>8
<1> QED  BY <1>1, <1>2, <1>6, <1>7, <1>8 DEF Kept

LEMMA SubSeqPrefix ==
  ASSUME NEW s \in Seq(Nat), NEW n \in Nat, n <= Len(s)
  PROVE  /\ SubSeq(s, 1, n) \in Seq(Nat) /\ Len(SubSeq(s, 1, n)) = n
         /\ \A i \in DOMAIN SubSeq(s, 1, n) :
              i \in DOMAIN s /\ SubSeq(s, 1, n)[i] = s[i]
  OBVIOUS

LEMMA TrimT == ASSUME TInv, Trim PROVE TInv'
<1>0. TypeOK
  BY DEF TInv
<1>1. /\ pc = "trim" /\ pc' = "rewrite"
      /\ UNCHANGED muxVars /\ UNCHANGED syncVars /\ UNCHANGED logVars
      /\ UNCHANGED outVars /\ UNCHANGED <<pos, fsynced>>
      /\ UNCHANGED <<starts, rcount, ri, rj, reading, rend, errorMsg>>
      /\ rec' = [h \in Handles |-> [k \in Kinds |->
                   IF k \in {"stsz", "stco"} THEN SubSeq(rec[h][k], 1, Kept(h))
                   ELSE rec[h][k]]]
      /\ valid' = Smaller(valid, eof')
  BY DEF Trim, Trimmed
<1>2. rec \in [Handles -> [Kinds -> Seq(Nat)]]
  BY ReadingType
<1>3. ASSUME NEW h \in Handles, NEW k \in {"stsz", "stco"}
      PROVE  /\ SubSeq(rec[h][k], 1, Kept(h)) \in Seq(Nat)
             /\ \A i \in DOMAIN SubSeq(rec[h][k], 1, Kept(h)) :
                  /\ i \in DOMAIN rec[h][k]
                  /\ SubSeq(rec[h][k], 1, Kept(h))[i] = rec[h][k][i]
  <2>1. rec[h][k] \in Seq(Nat)
    BY <1>2 DEF Kinds
  <2>2. Kept(h) \in Nat /\ Kept(h) <= Len(rec[h][k])
    BY KeptT
  <2> QED  BY <2>1, <2>2, SubSeqPrefix
<1>4. rec' \in [Handles -> [Kinds -> Seq(Nat)]]
  <2>1. ASSUME NEW h \in Handles, NEW k \in Kinds
        PROVE  (IF k \in {"stsz", "stco"} THEN SubSeq(rec[h][k], 1, Kept(h))
                ELSE rec[h][k]) \in Seq(Nat)
    BY <1>2, <1>3
  <2> QED  BY <1>1, <2>1
<1>5. RecInBounds'
  <2> SUFFICES ASSUME NEW h \in Handles, NEW k \in {"stsz", "stco"},
                      NEW i \in DOMAIN rec'[h][k]
               PROVE  rec'[h][k][i] <= Len(samples[h])
    BY <1>1 DEF RecInBounds, muxVars
  <2>1. rec'[h][k] = SubSeq(rec[h][k], 1, Kept(h))
    BY <1>1 DEF Kinds
  <2> QED  BY <1>3, <2>1 DEF TInv, RecInBounds
<1>6. eof' \in Nat
  <2>1. eof' \in {0} \cup UNION {{End(h, i) : i \in InFile(h)} : h \in Handles}
    BY DEF Trim, KeptEnds
  <2>2. CASE eof' = 0
    BY <2>2
  <2>3. CASE \E h \in Handles : \E i \in InFile(h) : eof' = End(h, i)
    BY <2>3, KeptT
  <2> QED  BY <2>1, <2>2, <2>3
<1>7. DataTypeOK' /\ pc' \in Pcs
  BY <1>0, <1>1, <1>6 DEF TypeOK, DataTypeOK, Smaller, Pcs
<1>8. RecTypeOK' /\ OutTypeOK'
  BY <1>0, <1>1, <1>4, OutFrame DEF TypeOK, RecTypeOK
<1>9. /\ MuxTypeOK' /\ SyncTypeOK' /\ WrittenInBounds'
      /\ SyncHasTrack' /\ OpenIsLast' /\ LogTypeOK' /\ LogInBounds'
  BY <1>1, RecoveryFrame
<1>10. ReadingInLog'
  BY <1>1 DEF ReadingInLog
<1> QED  BY <1>5, <1>7, <1>8, <1>9, <1>10 DEF TInv, TypeOK

LEMMA RewriteT == ASSUME TInv, Rewrite, MoovTail \in Nat PROVE TInv'
<1>0. TypeOK
  BY DEF TInv
<1>1. /\ pc = "rewrite" /\ pc' = "done"
      /\ UNCHANGED muxVars /\ UNCHANGED syncVars /\ UNCHANGED logVars
      /\ UNCHANGED recVars /\ UNCHANGED <<pos, valid, acked>>
      /\ fsynced' = eof' /\ movie' = Moov(rec) /\ recovered' = movie'
      /\ \E tail \in {0, MoovTail} : eof' = eof + tail
  BY DEF Rewrite
<1>2. DataTypeOK' /\ pc' \in Pcs
  BY <1>0, <1>1 DEF TypeOK, DataTypeOK, Pcs
<1>3. OutTypeOK'
  BY <1>0, <1>1, MoovType, ReadingType DEF TypeOK, OutTypeOK
<1>4. RecTypeOK'
  BY <1>0, <1>1, RecFrame DEF TypeOK
<1>5. /\ MuxTypeOK' /\ SyncTypeOK' /\ WrittenInBounds'
      /\ SyncHasTrack' /\ OpenIsLast' /\ LogTypeOK' /\ LogInBounds'
  BY <1>1, RecoveryFrame
<1>6. RecInBounds' /\ ReadingInLog'
  BY <1>1 DEF TInv, RecInBounds, ReadingInLog, recVars, muxVars
<1> QED  BY <1>2, <1>3, <1>4, <1>5, <1>6 DEF TInv, TypeOK

LEMMA FinalizeT ==
  ASSUME TInv, NEW truncate_file \in BOOLEAN, Finalize(truncate_file)
  PROVE  TInv'
<1>0. TypeOK
  BY DEF TInv
<1>1. /\ pc # "sync" /\ pc' = "finalized"
      /\ tablesSize' = 0 /\ log' = <<>> /\ oldSizes' = {0}
      /\ eof' \in {0, eof} /\ valid' \in {0, valid}
      /\ movie' \in {NoMovie, movie}
      /\ UNCHANGED <<pos, fsynced, recovered, acked>>
      /\ UNCHANGED muxVars /\ UNCHANGED syncVars /\ UNCHANGED recVars
  BY DEF Finalize
<1>2. DataTypeOK' /\ pc' \in Pcs
  BY <1>0, <1>1 DEF TypeOK, DataTypeOK, Pcs
<1>3. LogTypeOK' /\ LogInBounds'
  BY <1>1 DEF LogTypeOK, LogInBounds
<1>4. OutTypeOK'
  BY <1>0, <1>1, NoMovieType DEF TypeOK, OutTypeOK
<1>5. RecTypeOK'
  BY <1>0, <1>1, RecFrame DEF TypeOK
<1>6. /\ MuxTypeOK' /\ SyncTypeOK' /\ WrittenInBounds'
      /\ SyncHasTrack' /\ OpenIsLast'
  BY <1>1, RecoveryFrame
<1>7. RecInBounds' /\ ReadingInLog'
  BY <1>1 DEF TInv, RecInBounds, ReadingInLog, recVars, muxVars
<1> QED  BY <1>2, <1>3, <1>4, <1>5, <1>6, <1>7 DEF TInv, TypeOK

-----------------------------------------------------------------------------
LEMMA TInvStep == TInv /\ [Next]_vars => TInv'
<1> SUFFICES ASSUME TInv, [Next]_vars PROVE TInv'
  OBVIOUS
<1>0. MoovTail \in Nat
  BY BoundsAssumption DEF BoundsAssumption
<1>1. CASE AppNext
  BY <1>1, AddTrackT, AddSampleT, AddSampleFailsT, DumpT, BeginSyncT,
     BeginCloseT, RecoverStartT, FinalizeT DEF AppNext
<1>2. CASE MuxNext
  BY <1>0, <1>2, VisitTrackT, WriteBoxInfoT, WriteEntryT, WriteHeaderT,
     SyncTablesT, SyncTablesSkippedT, EndCloseT DEF MuxNext
<1>3. CASE RecoveryNext
  BY <1>0, <1>3, ReadDoneT, ReadBoxInfoT, ReadEntryT, ReadMissingEntryT,
     TrimT, RewriteT DEF RecoveryNext
<1>4. CASE FaultNext
  BY <1>0, <1>4, WriteFailsT, ShortBoxInfoUnseenT, CrashT, PowerLossT
     DEF FaultNext
<1>5. CASE UNCHANGED vars
  <2>1. /\ UNCHANGED pc /\ UNCHANGED muxVars /\ UNCHANGED syncVars
        /\ UNCHANGED dataVars /\ UNCHANGED logVars /\ UNCHANGED recVars
        /\ UNCHANGED outVars
    BY <1>5 DEF vars
  <2>2. TypeOK'
    BY <2>1, MuxFrame, SyncFrame, DataFrame, LogFrame, RecFrame, OutFrame
       DEF TInv, TypeOK
  <2>3. WrittenInBounds' /\ LogInBounds' /\ RecInBounds'
    BY <2>1, QuietBounds DEF muxVars, logVars, recVars
  <2>4. SyncHasTrack' /\ ReadingInLog'
    BY <2>1 DEF TInv, SyncHasTrack, ReadingInLog, syncVars, logVars, recVars
  <2>5. Count(Head(walk), step)' = Count(Head(walk), step)
    BY <2>1 DEF Count, muxVars, syncVars
  <2>6. OpenIsLast'
    BY <2>1, <2>5 DEF TInv, OpenIsLast, muxVars, syncVars, logVars
  <2> QED  BY <2>2, <2>3, <2>4, <2>6 DEF TInv
<1> QED  BY <1>1, <1>2, <1>3, <1>4, <1>5 DEF Next

(* Whatever fails, the sync never counts more entries as written than the  *)
(* muxer has, the record it writes is the last of the log and goes on      *)
(* where the count of its table stands, and no entry of the log or read    *)
(* from it names a sample the muxer does not have.                         *)
THEOREM LogBounds == Spec => []TInv
  BY TInvInit, TInvStep, PTL DEF Spec

(* Whatever fails - sample writes, writes to the tables file, the process, *)
(* the machine - every variable keeps its type: in particular a damaged    *)
(* log never makes the recovery look up a sample the muxer does not have.  *)
THEOREM TypeCorrect == Spec => []TypeOK
<1>1. TInv => TypeOK
  BY DEF TInv
<1> QED  BY LogBounds, <1>1, PTL

-----------------------------------------------------------------------------
(* What the trimming makes of any log.                                     *)

(* A call enters the rewriting with an error or behind the trimming. *)
LEMMA EntersRewrite ==
  ASSUME Next, pc' = "rewrite" PROVE errorMsg' = TRUE \/ Trim
<1>1. CASE AppNext
  BY <1>1 DEF AppNext, AddTrack, AddSample, AddSampleFails, Dump, BeginSync,
     BeginClose, RecoverStart, Finalize
<1>2. CASE MuxNext
  BY <1>2 DEF MuxNext, VisitTrack, WriteBoxInfo, WriteEntry, WriteHeader,
     SyncTables, SyncTablesSkipped, EndClose
<1>3. CASE RecoveryNext
  <2>1. CASE ReadDone
    BY <2>1 DEF ReadDone, Minor
  <2>2. CASE ReadBoxInfo
    BY <2>2 DEF ReadBoxInfo, Misaligned, Fail, Minor, Fatal, Go
  <2>3. CASE ReadEntry
    BY <2>3 DEF ReadEntry, Go
  <2>4. CASE ReadMissingEntry
    BY <2>4 DEF ReadMissingEntry, Misaligned, Fail, Minor, Fatal, Go
  <2>5. CASE Rewrite
    BY <2>5 DEF Rewrite
  <2> QED  BY <1>3, <2>1, <2>2, <2>3, <2>4, <2>5 DEF RecoveryNext
<1>4. CASE FaultNext
  BY <1>4 DEF FaultNext, WriteFails, ShortBoxInfoUnseen, Crash, PowerLoss
<1> QED  BY <1>1, <1>2, <1>3, <1>4 DEF Next

LEMMA EntersDone == ASSUME Next, pc' = "done" PROVE Rewrite
<1>1. CASE AppNext
  BY <1>1 DEF AppNext, AddTrack, AddSample, AddSampleFails, Dump, BeginSync,
     BeginClose, RecoverStart, Finalize
<1>2. CASE MuxNext
  BY <1>2 DEF MuxNext, VisitTrack, WriteBoxInfo, WriteEntry, WriteHeader,
     SyncTables, SyncTablesSkipped, EndClose
<1>3. CASE RecoveryNext
  <2>1. CASE ReadDone
    BY <2>1 DEF ReadDone, Minor
  <2>2. CASE ReadBoxInfo
    BY <2>2 DEF ReadBoxInfo, Misaligned, Fail, Minor, Fatal, Go
  <2>3. CASE ReadEntry
    BY <2>3 DEF ReadEntry, Go
  <2>4. CASE ReadMissingEntry
    BY <2>4 DEF ReadMissingEntry, Misaligned, Fail, Minor, Fatal, Go
  <2>5. CASE Trim
    BY <2>5 DEF Trim
  <2> QED  BY <1>3, <2>1, <2>2, <2>3, <2>4, <2>5 DEF RecoveryNext
<1>4. CASE FaultNext
  BY <1>4 DEF FaultNext, WriteFails, ShortBoxInfoUnseen, Crash, PowerLoss
<1> QED  BY <1>1, <1>2, <1>3, <1>4 DEF Next

(* Trimming cuts both tables of a track to the same length. *)
LEMMA TrimLengths ==
  ASSUME TInv, Trim, NEW h \in Handles, NEW k \in {"stsz", "stco"}
  PROVE  /\ rec'[h][k] = SubSeq(rec[h][k], 1, Kept(h))
         /\ Len(rec'[h][k]) = Kept(h) /\ DOMAIN rec'[h][k] = 1 .. Kept(h)
         /\ \A i \in 1 .. Kept(h) : rec'[h][k][i] = rec[h][k][i]
<1>1. rec'[h][k] = SubSeq(rec[h][k], 1, Kept(h))
  BY DEF Trim, Trimmed, Kinds
<1>2. rec[h][k] \in Seq(Nat)
  BY ReadingType DEF Kinds
<1>3. Kept(h) \in Nat /\ Kept(h) <= Len(rec[h][k])
  BY KeptT
<1>4. /\ SubSeq(rec[h][k], 1, Kept(h)) \in Seq(Nat)
      /\ Len(SubSeq(rec[h][k], 1, Kept(h))) = Kept(h)
      /\ \A i \in DOMAIN SubSeq(rec[h][k], 1, Kept(h)) :
           SubSeq(rec[h][k], 1, Kept(h))[i] = rec[h][k][i]
  BY <1>2, <1>3, SubSeqPrefix
<1>5. DOMAIN SubSeq(rec[h][k], 1, Kept(h)) = 1 .. Kept(h)
  BY <1>4
<1> QED  BY <1>1, <1>4, <1>5

LEMMA MatchInit == Init => MatchInv
  BY TInvInit DEF MatchInv, Init, TrimmedMatches, SizesMatchOffsets

LEMMA MatchStep == MatchInv /\ [Next]_vars => MatchInv'
<1> SUFFICES ASSUME MatchInv, [Next]_vars PROVE MatchInv'
  OBVIOUS
<1>1. TInv /\ TInv'
  BY TInvStep DEF MatchInv
<1>2. CASE UNCHANGED vars
  BY <1>1, <1>2 DEF MatchInv, TrimmedMatches, SizesMatchOffsets, vars,
     recVars, outVars
<1>3. CASE Next
  <2>1. TrimmedMatches'
    <3> SUFFICES ASSUME pc' = "rewrite", errorMsg' = FALSE, NEW h \in Handles
                 PROVE  Len(rec'[h]["stsz"]) = Len(rec'[h]["stco"])
      BY <1>1 DEF TrimmedMatches, TInv, TypeOK, RecTypeOK
    <3>1. Trim
      BY <1>3, EntersRewrite
    <3> QED  BY <1>1, <3>1, TrimLengths
  <2>2. SizesMatchOffsets'
    <3> SUFFICES ASSUME pc' = "done", errorMsg' = FALSE, NEW h \in Handles
                 PROVE  Len(movie'[h]["stsz"]) = Len(movie'[h]["stco"])
      BY <1>1 DEF SizesMatchOffsets, TInv, TypeOK, RecTypeOK
    <3>1. Rewrite
      BY <1>3, EntersDone
    <3>2. /\ pc = "rewrite" /\ ~errorMsg
          /\ movie' = Moov(rec)
      BY <3>1 DEF Rewrite, recVars
    <3>3. Len(rec[h]["stsz"]) = Len(rec[h]["stco"])
      BY <3>2 DEF MatchInv, TrimmedMatches
    <3>4. \A k \in {"stsz", "stco"} :
            movie'[h][k] = IF rec[h]["stsz"] = <<>> THEN <<>> ELSE rec[h][k]
      BY <3>2 DEF Moov, MoovKinds
    <3> QED  BY <3>3, <3>4
  <2> QED  BY <1>1, <2>1, <2>2 DEF MatchInv
<1> QED  BY <1>2, <1>3

(* A movie recovered without an error has a size for each offset and an    *)
(* offset for each size, whatever part of the log is lost or damaged.      *)
THEOREM RecoveredTablesMatch == Spec => []SizesMatchOffsets
<1>1. Spec => []MatchInv
  BY MatchInit, MatchStep, PTL DEF Spec
<1>2. MatchInv => SizesMatchOffsets
  BY DEF MatchInv
<1> QED  BY <1>1, <1>2, PTL

-----------------------------------------------------------------------------
(* The samples kept are a prefix: no sample that is kept follows one that  *)
(* reaches past the end of the file.                                       *)
LEMMA KeptArePrefix ==
  ASSUME TInv, NEW h \in Handles, NEW i \in 1 .. Kept(h)
  PROVE  i \in InFile(h)
<1> DEFINE m == Smaller(Len(rec[h]["stco"]), Len(rec[h]["stsz"]))
<1>1. rec[h]["stco"] \in Seq(Nat) /\ rec[h]["stsz"] \in Seq(Nat)
  BY ReadingType DEF Kinds
<1>2. m \in Nat
  BY <1>1 DEF Smaller
<1>3. Kept(h) \in Nat /\ i \in Nat /\ i >= 1 /\ i <= Kept(h)
  BY KeptT
<1>4. SUFFICES ASSUME i \notin InFile(h) PROVE FALSE
  OBVIOUS
<1>5. \A j \in InFile(h) : j \in 1 .. m /\ \A l \in 1 .. j : End(h, l) <= rend
  BY DEF InFile
<1>6. ASSUME NEW j \in InFile(h) PROVE j < i
  <2>1. SUFFICES ASSUME i <= j PROVE FALSE
    BY <1>2, <1>3, <1>5
  <2>2. i \in 1 .. m
    BY <1>2, <1>3, <1>5, <2>1
  <2>3. \A l \in 1 .. i : End(h, l) <= rend
    BY <1>2, <1>3, <1>5, <2>1
  <2> QED  BY <1>4, <2>2, <2>3 DEF InFile
<1>7. InFile(h) \in SUBSET (1 .. (i - 1))
  BY <1>2, <1>3, <1>5, <1>6
<1>8. IsFiniteSet(1 .. (i - 1)) /\ Cardinality(1 .. (i - 1)) = i - 1
  <2>1. Cardinality(1 .. (i - 1)) = IF 1 > i - 1 THEN 0 ELSE (i - 1) - 1 + 1
    BY <1>3, FS_Interval
  <2>2. IsFiniteSet(1 .. (i - 1))
    BY <1>3, FS_Interval
  <2> QED  BY <1>3, <2>1, <2>2
<1>9. Kept(h) <= i - 1
  BY <1>7, <1>8, FS_Subset DEF Kept
<1> QED  BY <1>3, <1>9

LEMMA IntactInit == Init => IntactInv
  BY TInvInit DEF IntactInv, Init, OnlySamples, TrimmedInFile, MovieIsRec

(* The parser moves neither the end of the data file nor what it knows of  *)
(* it, and every other step ends outside the parser.                       *)
LEMMA ParserLeavesFile ==
  ASSUME Next, pc' \in {"parse", "trim"}
  PROVE  \/ rend' = eof /\ UNCHANGED <<eof, valid>>
         \/ pc \in {"parse", "trim"} /\ UNCHANGED <<rend, eof, valid>>
<1>1. CASE AppNext
  BY <1>1 DEF AppNext, AddTrack, AddSample, AddSampleFails, Dump, BeginSync,
     BeginClose, RecoverStart, Finalize
<1>2. CASE MuxNext
  BY <1>2 DEF MuxNext, VisitTrack, WriteBoxInfo, WriteEntry, WriteHeader,
     SyncTables, SyncTablesSkipped, EndClose
<1>3. CASE RecoveryNext
  BY <1>3 DEF RecoveryNext, ReadDone, ReadBoxInfo, ReadEntry,
     ReadMissingEntry, Trim, Rewrite, dataVars
<1>4. CASE FaultNext
  BY <1>4 DEF FaultNext, WriteFails, ShortBoxInfoUnseen, Crash, PowerLoss,
     dataVars
<1> QED  BY <1>1, <1>2, <1>3, <1>4 DEF Next

LEMMA LastKept ==
  ASSUME TInv, OnlySamples, Trim
  PROVE  /\ eof' = valid' /\ eof' \in Nat
         /\ \A h \in Handles : \A i \in InFile(h) : End(h, i) <= eof'
<1>1. PICK last \in KeptEnds : (\A e \in KeptEnds : e <= last) /\ eof' = last
  BY DEF Trim
<1>2. \A h \in Handles : \A i \in InFile(h) :
        End(h, i) \in KeptEnds /\ End(h, i) \in Nat /\ End(h, i) <= rend
  <2> SUFFICES ASSUME NEW h \in Handles, NEW i \in InFile(h)
               PROVE  End(h, i) \in KeptEnds /\ End(h, i) \in Nat
                      /\ End(h, i) <= rend
    OBVIOUS
  <2>1. End(h, i) \in KeptEnds
    BY DEF KeptEnds
  <2>2. End(h, i) \in Nat
    BY KeptT
  <2>3. i \in 1 .. Smaller(Len(rec[h]["stco"]), Len(rec[h]["stsz"]))
        /\ \A j \in 1 .. i : End(h, j) <= rend
    BY DEF InFile
  <2>4. rec[h]["stco"] \in Seq(Nat) /\ rec[h]["stsz"] \in Seq(Nat)
    BY ReadingType DEF Kinds
  <2>5. i \in 1 .. i
    BY <2>3, <2>4 DEF Smaller
  <2> QED  BY <2>1, <2>2, <2>3, <2>5
<1>3. last = 0 \/ \E h \in Handles : \E i \in InFile(h) : last = End(h, i)
  BY DEF KeptEnds
<1>4. eof \in Nat /\ rend = eof /\ valid = eof
  BY DEF Trim, OnlySamples, TInv, TypeOK, DataTypeOK
<1>5. last \in Nat /\ last <= valid
  BY <1>2, <1>3, <1>4
<1>6. valid' = Smaller(valid, eof')
  BY DEF Trim
<1>7. eof' = valid'
  BY <1>1, <1>4, <1>5, <1>6 DEF Smaller
<1> QED  BY <1>1, <1>2, <1>5, <1>7

LEMMA OnlySamplesStep ==
  ASSUME MoovTail = 0, TInv, OnlySamples, Next PROVE OnlySamples'
<1>0. eof \in Nat /\ fsynced \in Nat /\ eof = valid
  BY DEF TInv, TypeOK, DataTypeOK, OnlySamples
<1>1. eof' = valid'
  <2>1. CASE AppNext
    BY <1>0, <2>1 DEF AppNext, AddTrack, AddSample, AddSampleFails, Dump,
       BeginSync, BeginClose, RecoverStart, Finalize, dataVars
  <2>2. CASE MuxNext
    <3>1. CASE EndClose
      BY <1>0, <3>1 DEF EndClose
    <3>2. CASE SyncTables
      BY <1>0, <3>2 DEF SyncTables
    <3> QED  BY <1>0, <2>2, <3>1, <3>2 DEF MuxNext, VisitTrack, WriteBoxInfo,
             WriteEntry, WriteHeader, SyncTablesSkipped, dataVars
  <2>3. CASE RecoveryNext
    <3>1. CASE Trim
      BY <3>1, LastKept
    <3>2. CASE Rewrite
      BY <1>0, <3>2 DEF Rewrite
    <3> QED  BY <1>0, <2>3, <3>1, <3>2 DEF RecoveryNext, ReadDone,
             ReadBoxInfo, ReadEntry, ReadMissingEntry, dataVars
  <2>4. CASE FaultNext
    <3>1. CASE Crash
      <4>1. eof' = eof \/ \E tail \in 0 .. MoovTail : eof' = eof + tail
        BY <3>1 DEF Crash
      <4>2. eof' = eof
        BY <1>0, <4>1
      <4> QED  BY <1>0, <3>1, <4>2 DEF Crash
    <3>2. CASE PowerLoss
      BY <1>0, <3>2 DEF PowerLoss, Smaller
    <3> QED  BY <1>0, <2>4, <3>1, <3>2 DEF FaultNext, WriteFails,
             ShortBoxInfoUnseen, dataVars
  <2> QED  BY <2>1, <2>2, <2>3, <2>4 DEF Next
<1>2. pc' \in {"parse", "trim"} => rend' = eof'
  BY ParserLeavesFile DEF OnlySamples, dataVars
<1> QED  BY <1>1, <1>2 DEF OnlySamples

LEMMA IntactStep ==
  ASSUME MoovTail = 0, IntactInv, [Next]_vars PROVE IntactInv'
<1>1. TInv /\ TInv' /\ OnlySamples
  BY TInvStep DEF IntactInv
<1>2. CASE UNCHANGED vars
  <2>1. /\ UNCHANGED pc /\ UNCHANGED muxVars /\ UNCHANGED dataVars
        /\ UNCHANGED recVars /\ UNCHANGED outVars
    BY <1>2 DEF vars
  <2>2. OnlySamples' /\ MovieIsRec'
    BY <2>1 DEF IntactInv, OnlySamples, MovieIsRec, dataVars, recVars,
       outVars, Moov
  <2>3. \A h, i : End(h, i)' = End(h, i)
    BY <2>1 DEF End, OffsetOf, SizeOf, muxVars, recVars
  <2>4. TrimmedInFile'
    BY <2>1, <2>3 DEF IntactInv, TrimmedInFile, dataVars, recVars
  <2> QED  BY <1>1, <2>2, <2>4 DEF IntactInv
<1>3. CASE Next
  <2>1. OnlySamples'
    BY <1>1, <1>3, OnlySamplesStep
  <2>2. MovieIsRec'
    <3> SUFFICES ASSUME pc' = "done" PROVE movie' = Moov(rec)'
      BY DEF MovieIsRec
    <3>1. Rewrite
      BY <1>3, EntersDone
    <3> QED  BY <3>1 DEF Rewrite, recVars, Moov
  <2>3. TrimmedInFile'
    <3> SUFFICES ASSUME pc' \in {"rewrite", "done"}, errorMsg' = FALSE,
                        NEW h \in Handles,
                        NEW i \in DOMAIN rec'[h]["stco"]
                                  \cap DOMAIN rec'[h]["stsz"]
                 PROVE  End(h, i)' <= valid'
      BY <1>1 DEF TrimmedInFile, TInv, TypeOK, RecTypeOK
    <3>1. CASE pc' = "rewrite"
      <4>1. Trim
        BY <1>3, <3>1, EntersRewrite
      <4>2. /\ i \in 1 .. Kept(h)
            /\ rec'[h]["stco"][i] = rec[h]["stco"][i]
            /\ rec'[h]["stsz"][i] = rec[h]["stsz"][i]
        BY <1>1, <4>1, TrimLengths
      <4>3. End(h, i)' = End(h, i)
        BY <4>1, <4>2 DEF End, OffsetOf, SizeOf, Trim, muxVars
      <4>4. i \in InFile(h)
        BY <1>1, <4>2, KeptArePrefix
      <4> QED  BY <1>1, <4>1, <4>3, <4>4, LastKept
    <3>2. CASE pc' = "done"
      <4>1. Rewrite
        BY <1>3, <3>2, EntersDone
      <4>2. /\ UNCHANGED rec /\ UNCHANGED samples /\ UNCHANGED valid
            /\ pc = "rewrite" /\ ~errorMsg
        BY <4>1 DEF Rewrite, recVars, muxVars
      <4>3. End(h, i)' = End(h, i)
        BY <4>2 DEF End, OffsetOf, SizeOf
      <4> QED  BY <4>2, <4>3 DEF IntactInv, TrimmedInFile
    <3> QED  BY <3>1, <3>2
  <2> QED  BY <1>1, <2>1, <2>2, <2>3 DEF IntactInv
<1> QED  BY <1>2, <1>3

LEMMA IntactHolds == IntactInv => RecoveredIntact
<1> SUFFICES ASSUME IntactInv, pc = "done", ~errorMsg, NEW h \in Handles,
                    NEW i \in DOMAIN movie[h]["stco"]
                              \cap DOMAIN movie[h]["stsz"]
             PROVE  End(h, i) <= valid
  BY DEF RecoveredIntact
<1>1. movie = Moov(rec)
  BY DEF IntactInv, MovieIsRec
<1>2. \A k \in {"stsz", "stco"} :
        movie[h][k] = IF rec[h]["stsz"] = <<>> THEN <<>> ELSE rec[h][k]
  BY <1>1 DEF Moov, MoovKinds
<1>3. i \in DOMAIN rec[h]["stco"] \cap DOMAIN rec[h]["stsz"]
  BY <1>2
<1> QED  BY <1>3 DEF IntactInv, TrimmedInFile

(* While every moov fits before the media data, a movie recovered without  *)
(* an error shows no byte that the data file has lost, whatever failed.    *)
THEOREM RecoveredSamplesIntact ==
  ASSUME MoovTail = 0 PROVE Spec => []RecoveredIntact
<1>1. IntactInv /\ [Next]_vars => IntactInv'
  BY IntactStep
<1> QED  BY IntactInit, IntactHolds, <1>1, PTL DEF Spec

-----------------------------------------------------------------------------
(* The shape of the log.                                                   *)

LEMMA LogType ==
  ASSUME TInv
  PROVE  /\ log \in Seq(LogRecord) /\ Len(log) \in Nat
         /\ DOMAIN log = 1 .. Len(log)
         /\ tablesSize \in Nat
         /\ \A i \in DOMAIN log : /\ log[i] \in LogRecord
                                  /\ log[i].first \in Nat /\ log[i].first > 0
                                  /\ log[i].number \in Nat /\ log[i].got \in Nat
                                  /\ log[i].h \in Handles /\ log[i].kind \in Kinds
<1>1. log \in Seq(LogRecord) /\ tablesSize \in Nat
  BY DEF TInv, TypeOK, LogTypeOK
<1>2. ASSUME NEW i \in DOMAIN log
      PROVE  /\ log[i] \in LogRecord
             /\ log[i].first \in Nat /\ log[i].first > 0
             /\ log[i].number \in Nat /\ log[i].got \in Nat
             /\ log[i].h \in Handles /\ log[i].kind \in Kinds
  <2>1. log[i] \in LogRecord
    BY <1>1
  <2>2. log[i].first > 0
    BY DEF TInv, LogInBounds
  <2> QED  BY <2>1, <2>2 DEF LogRecord
<1> QED  BY <1>1, <1>2

(* A step that leaves the log and its header alone, and starts no writing. *)
LogQuiet ==
  /\ UNCHANGED <<log, tablesSize>> /\ open' = FALSE
  /\ pc' \in InMux => pc \in InMux /\ open = FALSE /\ UNCHANGED written

LEMMA QuietKeepsLog == ASSUME LogShape, LogQuiet PROVE LogShape'
<1>1. OnlyLastPartial' /\ OpenIsUncut' /\ CommittedWhole' /\ LogChained'
  BY DEF LogShape, LogQuiet, OnlyLastPartial, OpenIsUncut, CommittedWhole,
     LogChained
<1>2. OpenOrWhole'
  BY DEF LogShape, LogQuiet, OpenOrWhole
<1>3. WrittenIsLogged'
  BY DEF LogShape, LogQuiet, WrittenIsLogged
<1> QED  BY <1>1, <1>2, <1>3 DEF LogShape

(* A log that ends earlier, with records of the same tables and entries. *)
LEMMA ChainedPrefix ==
  ASSUME log \in Seq(LogRecord), log' \in Seq(LogRecord), Len(log') <= Len(log),
         LogChained,
         \A i \in DOMAIN log' : /\ log'[i].h = log[i].h
                                /\ log'[i].kind = log[i].kind
                                /\ log'[i].first = log[i].first
                                /\ log'[i].number = log[i].number
  PROVE  LogChained'
<1> SUFFICES ASSUME NEW j \in DOMAIN log'
             PROVE  /\ \/ log'[j].first = 1
                       \/ \E i \in 1 .. j - 1 :
                            /\ OfTable(log'[i], log'[j].h, log'[j].kind)
                            /\ Upto(log'[i]) = log'[j].first
                    /\ \A i \in 1 .. j - 1 :
                         OfTable(log'[i], log'[j].h, log'[j].kind) =>
                           Upto(log'[i]) <= log'[j].first
  BY DEF LogChained
<1>1. j \in DOMAIN log /\ \A i \in 1 .. j - 1 : i \in DOMAIN log'
  OBVIOUS
<1>2. \A i \in 1 .. j - 1 :
        /\ OfTable(log'[i], log'[j].h, log'[j].kind)
             <=> OfTable(log[i], log[j].h, log[j].kind)
        /\ Upto(log'[i]) = Upto(log[i])
  BY <1>1 DEF OfTable, Upto
<1>3. /\ \/ log[j].first = 1
         \/ \E i \in 1 .. j - 1 : /\ OfTable(log[i], log[j].h, log[j].kind)
                                  /\ Upto(log[i]) = log[j].first
      /\ \A i \in 1 .. j - 1 : OfTable(log[i], log[j].h, log[j].kind) =>
                                 Upto(log[i]) <= log[j].first
  BY <1>1 DEF LogChained
<1> QED  BY <1>2, <1>3

LEMMA WriteBoxInfoL == ASSUME TInv, LogShape, WriteBoxInfo PROVE LogShape'
<1> DEFINE h == Head(walk)
           n == Len(log)
           r == Record(h, step, "no")
<1>0. /\ pc = "sync" /\ pc' = "sync" /\ step \in Kinds /\ open = FALSE
      /\ UNCHANGED <<tablesSize, written>> /\ log' = Append(log, r)
      /\ "no" \in Cuts /\ "sync" \in InMux
  BY DEF WriteBoxInfo, TInv, TypeOK, SyncTypeOK, muxVars, Cuts, InMux
<1>1. /\ r \in LogRecord /\ r.got = 0 /\ r.cut = "no"
      /\ r.h = h /\ r.kind = step /\ r.first = written[h][step] + 1
      /\ r.first + r.number = Count(h, step) + 1
      /\ r.first \in Nat /\ r.number \in Nat
      /\ h \in Handles /\ written[h][step] \in Nat /\ Count(h, step) \in Nat
  <2>1. r.cut = "no"
    BY DEF Record
  <2> QED  BY <1>0, <2>1, RecordT, AtTable DEF LogRecord
<1>2. /\ log \in Seq(LogRecord) /\ n \in Nat /\ DOMAIN log = 1 .. n
      /\ tablesSize \in Nat
  BY LogType
<1> HIDE DEF r
<1>3. /\ Len(log') = n + 1 /\ DOMAIN log' = 1 .. n + 1 /\ log'[n + 1] = r
      /\ \A i \in 1 .. n : log'[i] = log[i]
  BY <1>0, <1>1, <1>2
<1>4. \A i \in DOMAIN log : Whole(log[i])
  BY <1>0 DEF LogShape, OpenOrWhole
<1>5. \/ open' = TRUE /\ UNCHANGED <<step, walk>>
      \/ open' = FALSE /\ Whole(r) /\ Upto(r) = written[h][step] + 1
  <2>1. CASE Count(h, step) = written[h][step]
    <3>1. open' = FALSE
      BY <2>1 DEF WriteBoxInfo, EndRecord
    <3>2. r.number = 0
      BY <1>1, <2>1
    <3> QED  BY <1>1, <3>1, <3>2 DEF Whole, Upto
  <2>2. CASE Count(h, step) # written[h][step]
    BY <2>2 DEF WriteBoxInfo
  <2> QED  BY <2>1, <2>2
<1>6. OnlyLastPartial'
  BY <1>2, <1>3, <1>4 DEF OnlyLastPartial
<1>7. OpenOrWhole' /\ OpenIsUncut'
  BY <1>1, <1>2, <1>3, <1>4, <1>5 DEF OpenOrWhole, OpenIsUncut
<1>8. CommittedWhole'
  BY <1>0, <1>2, <1>3 DEF LogShape, CommittedWhole
<1>9. /\ \A i \in 1 .. n : OfTable(log[i], h, step) =>
                             Upto(log[i]) <= written[h][step] + 1
      /\ \/ written[h][step] = 0
         \/ \E i \in 1 .. n :
              OfTable(log[i], h, step) /\ Upto(log[i]) = written[h][step] + 1
  BY <1>0, <1>1, <1>2 DEF LogShape, WrittenIsLogged
<1>10. LogChained'
  <2> SUFFICES ASSUME NEW j \in 1 .. n + 1
               PROVE  /\ \/ log'[j].first = 1
                         \/ \E i \in 1 .. j - 1 :
                              /\ OfTable(log'[i], log'[j].h, log'[j].kind)
                              /\ Upto(log'[i]) = log'[j].first
                      /\ \A i \in 1 .. j - 1 :
                           OfTable(log'[i], log'[j].h, log'[j].kind) =>
                             Upto(log'[i]) <= log'[j].first
    BY <1>3 DEF LogChained
  <2>1. CASE j \in 1 .. n
    <3>1. \A i \in 1 .. j - 1 : log'[i] = log[i]
      BY <1>2, <1>3, <2>1
    <3>2. log'[j] = log[j]
      BY <1>3, <2>1
    <3> QED  BY <1>2, <2>1, <3>1, <3>2 DEF LogShape, LogChained
  <2>2. CASE j = n + 1
    <3>1. 1 .. j - 1 = 1 .. n
      BY <1>2, <2>2
    <3>2. log'[j].h = h /\ log'[j].kind = step
          /\ log'[j].first = written[h][step] + 1
      BY <1>1, <1>3, <2>2
    <3> QED  BY SMTT(20), <1>1, <1>3, <1>9, <3>1, <3>2
  <2> QED  BY <1>2, <2>1, <2>2
<1>11. WrittenIsLogged'
  <2> SUFFICES ASSUME NEW g \in Handles, NEW k \in Kinds,
                      ~(open' /\ g = Head(walk') /\ k = step')
               PROVE  /\ \A i \in 1 .. n + 1 :
                           OfTable(log'[i], g, k) =>
                             Upto(log'[i]) <= written[g][k] + 1
                      /\ \/ written[g][k] = 0
                         \/ \E i \in 1 .. n + 1 :
                              /\ OfTable(log'[i], g, k)
                              /\ Upto(log'[i]) = written[g][k] + 1
    BY <1>0, <1>3 DEF WrittenIsLogged
  <2>1. /\ \A i \in 1 .. n : OfTable(log[i], g, k) =>
                               Upto(log[i]) <= written[g][k] + 1
        /\ \/ written[g][k] = 0
           \/ \E i \in 1 .. n :
                OfTable(log[i], g, k) /\ Upto(log[i]) = written[g][k] + 1
    BY <1>0, <1>2 DEF LogShape, WrittenIsLogged
  <2>2. OfTable(r, g, k) => Upto(r) <= written[g][k] + 1
    <3>1. CASE open' = TRUE /\ UNCHANGED <<step, walk>>
      BY <1>1, <3>1 DEF OfTable
    <3>2. CASE Upto(r) = written[h][step] + 1
      BY <1>1, <3>2 DEF OfTable
    <3> QED  BY <1>5, <3>1, <3>2
  <2>3. \A i \in 1 .. n + 1 : i \in 1 .. n \/ i = n + 1
    BY <1>2
  <2>4. \A i \in 1 .. n : i \in 1 .. n + 1
    BY <1>2
  <2> QED  BY <1>3, <2>1, <2>2, <2>3, <2>4
<1> QED  BY <1>6, <1>7, <1>8, <1>10, <1>11 DEF LogShape

LEMMA WriteEntryL == ASSUME TInv, LogShape, WriteEntry PROVE LogShape'
<1> DEFINE h == Head(walk)
           n == Len(log)
           q == [log[n] EXCEPT !.got = log[n].got + 1]
<1>0. /\ pc = "sync" /\ pc' = "sync" /\ step \in Kinds /\ open
      /\ UNCHANGED tablesSize
      /\ log' = [log EXCEPT ![n].got = @ + 1]
      /\ written' = [written EXCEPT ![h][step] = @ + 1]
      /\ "sync" \in InMux
  BY DEF WriteEntry, InMux
<1>1. /\ log \in Seq(LogRecord) /\ n \in Nat /\ DOMAIN log = 1 .. n
      /\ tablesSize \in Nat /\ n \in 1 .. n
      /\ log[n].h = h /\ log[n].kind = step
      /\ log[n].got < log[n].number
      /\ log[n].first + log[n].got = written[h][step] + 1
  BY <1>0, LogType DEF TInv, OpenIsLast
<1>2. /\ log[n] \in LogRecord /\ log[n].first \in Nat
      /\ log[n].number \in Nat /\ log[n].got \in Nat
      /\ h \in Handles /\ written[h][step] \in Nat
  BY <1>0, <1>1, LogType, AtTable
<1>3. /\ q \in LogRecord
      /\ q.h = h /\ q.kind = step /\ q.first = log[n].first
      /\ q.number = log[n].number /\ q.got = log[n].got + 1
      /\ q.cut = log[n].cut
  <2>1. log[n].got + 1 \in Nat
    BY <1>2
  <2> QED  BY <1>1, <1>2, <2>1, RecordGot
<1> HIDE DEF q
<1>4. /\ log' \in Seq(LogRecord) /\ Len(log') = n /\ DOMAIN log' = 1 .. n
      /\ log'[n] = q
      /\ \A i \in 1 .. n : i # n => log'[i] = log[i]
  BY <1>0, <1>1, <1>3 DEF q
<1>5. /\ written'[h][step] = written[h][step] + 1
      /\ \A g \in Handles, k \in Kinds :
           g # h \/ k # step => written'[g][k] = written[g][k]
  <2>1. written \in [Handles -> [Kinds -> Nat]]
    BY DEF TInv, TypeOK, MuxTypeOK
  <2> QED  BY <1>0, <1>2, <2>1
<1>6. log[n].cut = "no"
  BY <1>0 DEF LogShape, OpenIsUncut
<1>7. \A i \in 1 .. n : i # n => Whole(log[i])
  BY <1>0, <1>1 DEF LogShape, OpenOrWhole
<1>8. \/ open' = TRUE /\ UNCHANGED <<step, walk>>
      \/ open' = FALSE /\ Whole(q) /\ Upto(q) = written'[h][step] + 1
  <2>1. CASE log[n].got + 1 = log[n].number
    <3>1. open' = FALSE
      BY <2>1 DEF WriteEntry, EndRecord
    <3>2. Whole(q)
      BY <1>3, <1>6, <2>1 DEF Whole
    <3>3. log[n].first + log[n].number = (written[h][step] + 1) + 1
      BY <1>1, <1>2, <2>1
    <3> QED  BY <1>3, <1>5, <3>1, <3>2, <3>3 DEF Upto
  <2>2. CASE log[n].got + 1 # log[n].number
    BY <1>0, <2>2 DEF WriteEntry, syncVars
  <2> QED  BY <2>1, <2>2
<1>9. OnlyLastPartial'
  <2> SUFFICES ASSUME NEW i \in 1 .. n, i < n PROVE Whole(log'[i])
    BY <1>4 DEF OnlyLastPartial
  <2>1. i # n
    <3> HIDE DEF n
    <3> QED  BY <1>1
  <2> QED  BY <1>4, <1>7, <2>1
<1>10. OpenOrWhole' /\ OpenIsUncut'
  BY <1>3, <1>4, <1>6, <1>7, <1>8 DEF OpenOrWhole, OpenIsUncut
<1>11. CommittedWhole'
  <2> SUFFICES ASSUME "power" \notin Faults
               PROVE  /\ tablesSize <= n
                      /\ \A i \in 1 .. tablesSize : Whole(log'[i])
    BY <1>0, <1>4 DEF CommittedWhole
  <2>1. tablesSize <= n /\ \A i \in 1 .. tablesSize : Whole(log[i])
    BY DEF LogShape, CommittedWhole
  <2>2. ~Whole(log[n])
    BY <1>1, <1>2 DEF Whole
  <2>3. n \notin 1 .. tablesSize
    BY <2>1, <2>2
  <2>4. \A i \in 1 .. tablesSize : i \in 1 .. n /\ i # n
    <3> HIDE DEF n
    <3> QED  BY <1>1, <2>1, <2>3
  <2> QED  BY <1>4, <2>1, <2>4
<1>12. LogChained'
  <2>1. \A i \in DOMAIN log' : /\ log'[i].h = log[i].h
                               /\ log'[i].kind = log[i].kind
                               /\ log'[i].first = log[i].first
                               /\ log'[i].number = log[i].number
    BY <1>1, <1>3, <1>4
  <2>2. Len(log') <= n
    <3> HIDE DEF n
    <3> QED  BY <1>1, <1>4
  <2> QED  BY <1>1, <1>4, <2>1, <2>2, ChainedPrefix DEF LogShape
<1>13. \A i \in 1 .. n : /\ \A g, k : OfTable(log'[i], g, k)
                                        <=> OfTable(log[i], g, k)
                         /\ Upto(log'[i]) = Upto(log[i])
  BY <1>1, <1>3, <1>4 DEF OfTable, Upto
<1>14. WrittenIsLogged'
  <2> SUFFICES ASSUME NEW g \in Handles, NEW k \in Kinds,
                      ~(open' /\ g = Head(walk') /\ k = step')
               PROVE  /\ \A i \in DOMAIN log' :
                           OfTable(log'[i], g, k) =>
                             Upto(log'[i]) <= written'[g][k] + 1
                      /\ \/ written'[g][k] = 0
                         \/ \E i \in DOMAIN log' :
                              /\ OfTable(log'[i], g, k)
                              /\ Upto(log'[i]) = written'[g][k] + 1
    BY DEF WrittenIsLogged
  <2>0. DOMAIN log' = 1 .. n
    BY <1>4
  <2> SUFFICES /\ \A i \in 1 .. n :
                    OfTable(log[i], g, k) => Upto(log[i]) <= written'[g][k] + 1
               /\ \/ written'[g][k] = 0
                  \/ \E i \in 1 .. n :
                       /\ OfTable(log[i], g, k)
                       /\ Upto(log[i]) = written'[g][k] + 1
    BY <1>13, <2>0
  <2>1. CASE g # h \/ k # step
    <3>1. written'[g][k] = written[g][k]
      BY <1>5, <2>1
    <3> QED  BY <1>0, <1>1, <2>1, <3>1 DEF LogShape, WrittenIsLogged
  <2>2. CASE g = h /\ k = step
    <3>1. Upto(log[n]) = written'[g][k] + 1 /\ OfTable(log[n], g, k)
      BY <1>1, <1>4, <1>8, <1>13, <2>2 DEF OfTable
    <3>2. ASSUME NEW i \in 1 .. n, OfTable(log[i], g, k), i # n
          PROVE  Upto(log[i]) <= written'[g][k] + 1
      <4>1. i \in 1 .. n - 1
        <5> HIDE DEF n
        <5> QED  BY <1>1, <3>2
      <4>2. Upto(log[i]) <= log[n].first
        BY <1>1, <2>2, <3>2, <4>1 DEF LogShape, LogChained
      <4>3. Upto(log[i]) \in Nat
        BY <1>1, LogType DEF Upto
      <4> QED  BY <1>2, <3>1, <4>2, <4>3 DEF Upto
    <3>3. Upto(log[n]) \in Nat
      BY <1>1, <1>2 DEF Upto
    <3>4. \A i \in 1 .. n : OfTable(log[i], g, k) =>
                             Upto(log[i]) <= written'[g][k] + 1
      BY <3>1, <3>2, <3>3
    <3> QED  BY <1>1, <3>1, <3>4
  <2> QED  BY <2>1, <2>2
<1> QED  BY <1>9, <1>10, <1>11, <1>12, <1>14 DEF LogShape

LEMMA WriteHeaderL == ASSUME TInv, LogShape, WriteHeader PROVE LogShape'
<1>1. /\ pc \in InMux /\ pc' \in InMux /\ open = FALSE /\ open' = FALSE
      /\ UNCHANGED <<log, written>> /\ tablesSize' = Len(log)
  BY DEF WriteHeader, InMux, TInv, OpenIsLast, TypeOK, SyncTypeOK, Kinds,
     muxVars
<1>2. DOMAIN log = 1 .. Len(log) /\ Len(log) \in Nat
  BY LogType
<1>3. \A i \in DOMAIN log : Whole(log[i])
  BY <1>1 DEF LogShape, OpenOrWhole
<1>4. CommittedWhole'
  BY <1>1, <1>2, <1>3 DEF CommittedWhole
<1>5. OnlyLastPartial' /\ OpenOrWhole' /\ OpenIsUncut' /\ LogChained'
  BY <1>1, <1>3 DEF LogShape, OnlyLastPartial, OpenOrWhole, OpenIsUncut,
     LogChained
<1>6. WrittenIsLogged'
  BY <1>1 DEF LogShape, WrittenIsLogged
<1> QED  BY <1>4, <1>5, <1>6 DEF LogShape

(* What a loss of power leaves of the log ends inside one of its records. *)
LEMMA ShortenedShape ==
  ASSUME TInv, log' \in Shortened(log)
  PROVE  /\ log' \in Seq(LogRecord) /\ Len(log') <= Len(log)
         /\ \A i \in DOMAIN log' :
              /\ log'[i].h = log[i].h /\ log'[i].kind = log[i].kind
              /\ log'[i].first = log[i].first
              /\ log'[i].number = log[i].number
              /\ i < Len(log') => log'[i] = log[i]
<1>1. log \in Seq(LogRecord) /\ Len(log) \in Nat
  BY LogType
<1>2. CASE \E n \in 0 .. Len(log) : log' = SubSeq(log, 1, n)
  <2>1. PICK n \in 0 .. Len(log) : log' = SubSeq(log, 1, n)
    BY <1>2
  <2>2. log' \in Seq(LogRecord) /\ Len(log') = n
    BY <1>1, <2>1
  <2>3. \A i \in DOMAIN log' : log'[i] = log[i]
    BY <1>1, <2>1, <2>2
  <2>4. Len(log') <= Len(log)
    BY <1>1, <2>2
  <2> QED  BY <2>2, <2>3, <2>4
<1>3. CASE \E n \in 1 .. Len(log) : \E g \in 0 .. log[n].got, c \in Cuts :
             log' = CutInside(log, n, g, c)
  <2>0. PICK n \in 1 .. Len(log) : \E g \in 0 .. log[n].got, c \in Cuts :
             log' = CutInside(log, n, g, c)
    BY <1>3
  <2>1. PICK g \in 0 .. log[n].got, c \in Cuts :
             log' = CutInside(log, n, g, c)
    BY <2>0
  <2> DEFINE q == [log[n] EXCEPT !.got = g, !.cut = c]
             l == SubSeq(log, 1, n - 1)
  <2>2. log[n] \in LogRecord /\ log[n].got \in Nat
    BY LogType
  <2>3. g \in Nat
    BY <2>2
  <2>4. /\ q \in LogRecord /\ q.h = log[n].h /\ q.kind = log[n].kind
        /\ q.first = log[n].first /\ q.number = log[n].number
    BY <2>2, <2>3 DEF LogRecord
  <2>5. /\ l \in Seq(LogRecord) /\ Len(l) = n - 1
        /\ \A i \in 1 .. n - 1 : l[i] = log[i]
    BY <1>1
  <2>6. log' = Append(l, q)
    BY <2>1 DEF CutInside
  <2> HIDE DEF q, l
  <2>7. /\ log' \in Seq(LogRecord) /\ Len(log') = n /\ DOMAIN log' = 1 .. n
        /\ log'[n] = q
        /\ \A i \in 1 .. n - 1 : log'[i] = log[i]
    BY <2>4, <2>5, <2>6
  <2>8. \A i \in DOMAIN log' : i = n \/ (i \in 1 .. n - 1 /\ i < n)
    BY <2>7
  <2>9. Len(log') <= Len(log)
    BY <1>1, <2>7
  <2> QED  BY <2>4, <2>7, <2>8, <2>9
<1>4. \/ log' \in {SubSeq(log, 1, n) : n \in 0 .. Len(log)}
      \/ \E n \in 1 .. Len(log) :
           log' \in {CutInside(log, n, g, c) :
                       g \in 0 .. log[n].got, c \in Cuts}
  BY DEF PowerLoss, Shortened, Cuts
<1> QED  BY <1>2, <1>3, <1>4

LEMMA PowerLossL == ASSUME TInv, LogShape, PowerLoss PROVE LogShape'
<1>1. /\ pc' \notin InMux /\ open' = FALSE /\ "power" \in Faults
      /\ log' \in Shortened(log)
  BY DEF PowerLoss, MemoryLost, InMux
<1>2. OpenOrWhole' /\ OpenIsUncut' /\ CommittedWhole' /\ WrittenIsLogged'
  BY <1>1 DEF OpenOrWhole, OpenIsUncut, CommittedWhole, WrittenIsLogged
<1>3. /\ log' \in Seq(LogRecord) /\ Len(log') <= Len(log)
      /\ \A i \in DOMAIN log' :
           /\ log'[i].h = log[i].h /\ log'[i].kind = log[i].kind
           /\ log'[i].first = log[i].first
           /\ log'[i].number = log[i].number
           /\ i < Len(log') => log'[i] = log[i]
  BY <1>1, ShortenedShape
<1>4. log \in Seq(LogRecord) /\ DOMAIN log = 1 .. Len(log) /\ Len(log) \in Nat
  BY LogType
<1>5. OnlyLastPartial'
  <2> SUFFICES ASSUME NEW i \in DOMAIN log', i < Len(log')
               PROVE  Whole(log'[i])
    BY DEF OnlyLastPartial
  <2>1. i \in DOMAIN log /\ i < Len(log)
    BY <1>3, <1>4
  <2>2. log'[i] = log[i]
    BY <1>3
  <2> QED  BY <2>1, <2>2 DEF LogShape, OnlyLastPartial
<1>6. LogChained'
  BY <1>3, <1>4, ChainedPrefix DEF LogShape
<1> QED  BY <1>2, <1>5, <1>6 DEF LogShape

LEMMA FinalizeL ==
  ASSUME NEW truncate_file \in BOOLEAN, TInv, LogShape, Finalize(truncate_file)
  PROVE  LogShape'
<1>1. /\ pc' \notin InMux /\ open' = FALSE /\ log' = <<>> /\ tablesSize' = 0
  BY NotOpen DEF Finalize, InMux, syncVars
<1> QED  BY <1>1 DEF LogShape, OnlyLastPartial, OpenOrWhole, OpenIsUncut,
         CommittedWhole, LogChained, WrittenIsLogged

LEMMA LogShapeInit == Init => LogShape
<1> SUFFICES ASSUME Init PROVE LogShape
  OBVIOUS
<1>1. /\ log = <<>> /\ tablesSize = 0 /\ open = FALSE
      /\ \A h \in Handles, k \in Kinds : written[h][k] = 0
  BY DEF Init
<1> QED  BY <1>1 DEF LogShape, OnlyLastPartial, OpenOrWhole, OpenIsUncut,
         CommittedWhole, LogChained, WrittenIsLogged

LEMMA LogShapeStep ==
  ASSUME "write" \notin Faults, TInv, LogShape, [Next]_vars PROVE LogShape'
<1>1. CASE AppNext
  <2>1. CASE \E t \in Types : AddTrack(t)
    BY <2>1, NotOpen, QuietKeepsLog DEF AddTrack, LogQuiet, syncVars, logVars
  <2>2. CASE \E h \in Handles, size \in Sizes, sync \in BOOLEAN :
               AddSample(h, size, sync)
    BY <2>2, NotOpen, QuietKeepsLog DEF AddSample, LogQuiet, syncVars, logVars
  <2>3. CASE \E h \in Handles, size \in Sizes : AddSampleFails(h, size)
    BY <2>3, NotOpen, QuietKeepsLog DEF AddSampleFails, LogQuiet, muxVars,
       syncVars, logVars
  <2>4. CASE Dump
    BY <2>4, NotOpen, QuietKeepsLog DEF Dump, LogQuiet, syncVars, logVars
  <2>5. CASE \E write_tables \in BOOLEAN : BeginSync(write_tables)
    BY <2>5, NotOpen, QuietKeepsLog DEF BeginSync, LogQuiet, logVars, InMux
  <2>6. CASE BeginClose
    BY <2>6, NotOpen, QuietKeepsLog DEF BeginClose, LogQuiet, syncVars,
       logVars, InMux
  <2>7. CASE RecoverStart
    BY <2>7, NotOpen, QuietKeepsLog DEF RecoverStart, LogQuiet, syncVars,
       logVars, InMux
  <2> QED  BY <1>1, <2>1, <2>2, <2>3, <2>4, <2>5, <2>6, <2>7, FinalizeL
           DEF AppNext
<1>2. CASE MuxNext
  <2>1. CASE VisitTrack
    <3>1. open = FALSE
      BY <2>1 DEF VisitTrack, TInv, OpenIsLast, TypeOK, SyncTypeOK, Kinds
    <3> QED  BY <2>1, <3>1, QuietKeepsLog DEF VisitTrack, LogQuiet, muxVars,
             logVars
  <2>2. CASE SyncTables
    BY <2>2, NotOpen, QuietKeepsLog DEF SyncTables, LogQuiet, syncVars,
       logVars, InMux
  <2>3. CASE SyncTablesSkipped
    BY <2>3, NotOpen, QuietKeepsLog DEF SyncTablesSkipped, LogQuiet, muxVars,
       syncVars, logVars, InMux
  <2>4. CASE EndClose
    BY <2>4, QuietKeepsLog DEF EndClose, LogQuiet, MemoryLost, logVars, InMux
  <2> QED  BY <1>2, <2>1, <2>2, <2>3, <2>4, WriteBoxInfoL, WriteEntryL,
              WriteHeaderL DEF MuxNext
<1>3. CASE RecoveryNext
  <2>1. /\ pc \in {"parse", "trim", "rewrite"} /\ UNCHANGED syncVars
        /\ UNCHANGED logVars
    BY <1>3 DEF RecoveryNext, ReadDone, ReadBoxInfo, ReadEntry,
       ReadMissingEntry, Trim, Rewrite
  <2>2. pc' \notin InMux
    BY <1>3 DEF RecoveryNext, ReadDone, ReadBoxInfo, ReadEntry,
       ReadMissingEntry, Trim, Rewrite, Misaligned, Fail, Minor, Fatal, Go,
       InMux
  <2> QED  BY <2>1, <2>2, NotOpen, QuietKeepsLog DEF LogQuiet, syncVars,
           logVars
<1>4. CASE FaultNext
  <2>1. CASE Crash
    BY <2>1, QuietKeepsLog DEF Crash, LogQuiet, MemoryLost, logVars, InMux
  <2> QED  BY <1>4, <2>1, PowerLossL DEF FaultNext, WriteFails,
           ShortBoxInfoUnseen
<1>5. CASE UNCHANGED vars
  <2>1. UNCHANGED <<pc, written, walk, step, open, log, tablesSize>>
    BY <1>5 DEF vars, muxVars, syncVars, logVars
  <2> QED  BY <2>1 DEF LogShape, OnlyLastPartial, OpenOrWhole, OpenIsUncut,
           CommittedWhole, LogChained, WrittenIsLogged
<1> QED  BY <1>1, <1>2, <1>3, <1>4, <1>5 DEF Next

-----------------------------------------------------------------------------
(* What the parser has read.                                               *)

(* A step that ends outside the parser and adds nothing to what was read. *)
RecQuiet ==
  pc' \notin {"parse", "trim"} /\ (rec' = rec \/ rec' = NoTables)

LEMMA QuietKeepsRec == ASSUME RecShape, RecQuiet PROVE RecShape'
<1>1. RecIsPrefix'
  BY DEF RecShape, RecQuiet, RecIsPrefix, NoTables
<1>2. ReaderInLog' /\ RecFollowsLog'
  BY DEF RecQuiet, ReaderInLog, RecFollowsLog
<1> QED  BY <1>1, <1>2 DEF RecShape

LEMMA RecoverStartR == ASSUME TInv, RecShape, RecoverStart PROVE RecShape'
<1>1. /\ rec' = NoTables /\ ri' = 1 /\ rj' = 0 /\ reading' = FALSE
      /\ log' = log
  BY DEF RecoverStart, logVars
<1>2. \A h \in Handles, k \in Kinds : rec'[h][k] = <<>>
  BY <1>1 DEF NoTables
<1>3. Len(log) \in Nat
  BY LogType
<1> QED  BY <1>1, <1>2, <1>3 DEF RecShape, RecIsPrefix, ReaderInLog,
         RecFollowsLog

(* A failure the parser gives up at. *)
LEMMA LeavesR ==
  ASSUME TInv, RecShape, Minor \/ Fatal, pc = "parse",
         UNCHANGED <<log, tablesSize, rec>>
  PROVE  RecShape'
<1>1. CASE Fatal
  BY <1>1, QuietKeepsRec DEF Fatal, RecQuiet
<1>2. CASE Minor
  <2>1. pc' = "trim" /\ UNCHANGED <<ri, rj, reading>>
    BY <1>2 DEF Minor, Stay
  <2>2. RecIsPrefix'
    BY DEF RecShape, RecIsPrefix
  <2>3. ReaderInLog'
    BY <2>1 DEF RecShape, ReaderInLog, Cur
  <2>4. RecFollowsLog'
    BY <2>1 DEF RecShape, RecFollowsLog, Cur
  <2> QED  BY <2>2, <2>3, <2>4 DEF RecShape
<1> QED  BY <1>1, <1>2

LEMMA ReadDoneR == ASSUME TInv, RecShape, ReadDone PROVE RecShape'
  BY LeavesR DEF ReadDone, logVars

(* The record the parser comes to goes on where the table read back ends. *)
LEMMA RecordFollows ==
  ASSUME TInv, LogShape, RecShape, pc = "parse", ~reading, ri <= Len(log)
  PROVE  Len(rec[Cur.h][Cur.kind]) + 1 = Cur.first
<1> DEFINE h == Cur.h
           k == Cur.kind
           m == Len(rec[h][k])
<1>1. /\ ri \in DOMAIN log /\ Cur = log[ri]
      /\ h \in Handles /\ k \in Kinds /\ Cur.first \in Nat /\ Cur.first > 0
  <2>1. ri \in DOMAIN log
    BY LogType, ReadingType
  <2> QED  BY <2>1, LogType DEF Cur
<1>2. m \in Nat
  BY <1>1, ReadingType
<1>3. \A i \in 1 .. ri - 1 : Upto(log[i]) \in Nat
  BY <1>1, LogType DEF Upto
<1>4. /\ \A i \in 1 .. ri - 1 : OfTable(log[i], h, k) => Upto(log[i]) <= m + 1
      /\ \/ m = 0
         \/ \E i \in 1 .. ri - 1 :
              OfTable(log[i], h, k) /\ Upto(log[i]) = m + 1
  BY <1>1 DEF RecShape, RecFollowsLog
<1>5. /\ \/ Cur.first = 1
         \/ \E i \in 1 .. ri - 1 : /\ OfTable(log[i], h, k)
                                   /\ Upto(log[i]) = Cur.first
      /\ \A i \in 1 .. ri - 1 : OfTable(log[i], h, k) =>
                                  Upto(log[i]) <= Cur.first
  BY <1>1 DEF LogShape, LogChained
<1> HIDE DEF h, k, m
<1>6. Cur.first <= m + 1
  BY <1>1, <1>2, <1>4, <1>5
<1>7. m + 1 <= Cur.first
  BY <1>1, <1>2, <1>4, <1>5
<1>8. m + 1 = Cur.first
  BY <1>1, <1>2, <1>6, <1>7
<1> QED  BY <1>8 DEF h, k, m

LEMMA ReadBoxInfoR ==
  ASSUME Preallocated => "power" \notin Faults,
         TInv, LogShape, RecShape, ReadBoxInfo
  PROVE  RecShape'
<1>0. /\ pc = "parse" /\ ~reading /\ reading = FALSE /\ ri <= tablesSize
      /\ UNCHANGED <<log, tablesSize, rec>>
      /\ ri \in Nat \ {0} /\ Len(log) \in Nat /\ DOMAIN log = 1 .. Len(log)
      /\ tablesSize \in Nat /\ rj = 0
  BY LogType, ReadingType DEF ReadBoxInfo, logVars, RecShape, ReaderInLog
<1>1. CASE Minor \/ Fatal
  BY <1>0, <1>1, LeavesR
<1>2. CASE ri < Len(log) /\ Cur.cut = "head"
  <2>1. Whole(log[ri])
    BY <1>0, <1>2 DEF LogShape, OnlyLastPartial
  <2> QED  BY <1>2, <2>1 DEF Whole, Cur
<1>3. CASE ri = Len(log) /\ Cur.cut = "head" /\ Preallocated
  <2>1. Whole(log[ri])
    BY <1>0, <1>3 DEF LogShape, CommittedWhole
  <2> QED  BY <1>3, <2>1 DEF Whole, Cur
<1>4. CASE /\ ri <= Len(log) /\ Go
           /\ IF Cur.number = 0 THEN NextRecord
              ELSE reading' = TRUE /\ UNCHANGED <<ri, rj>>
  <2>0. /\ Cur = log[ri] /\ ri \in DOMAIN log
        /\ Cur.number \in Nat /\ Cur.first \in Nat
        /\ Cur.h \in Handles /\ Cur.kind \in Kinds
    <3>1. ri \in DOMAIN log
      BY <1>0, <1>4
    <3> QED  BY <3>1, LogType DEF Cur
  <2>1. Len(rec[Cur.h][Cur.kind]) + 1 = Cur.first
    BY <1>0, <1>4, RecordFollows
  <2>2. RecIsPrefix'
    BY <1>0 DEF RecShape, RecIsPrefix
  <2>3. \A h \in Handles, k \in Kinds :
          /\ \A i \in 1 .. ri - 1 :
               OfTable(log[i], h, k) => Upto(log[i]) <= Len(rec[h][k]) + 1
          /\ \/ Len(rec[h][k]) = 0
             \/ \E i \in 1 .. ri - 1 :
                  OfTable(log[i], h, k) /\ Upto(log[i]) = Len(rec[h][k]) + 1
    BY <1>0 DEF RecShape, RecFollowsLog
  <2>4. CASE Cur.number = 0
    <3>1. ri' = ri + 1 /\ rj' = 0 /\ reading' = FALSE /\ pc' = "parse"
      BY <1>4, <2>4 DEF NextRecord, Go
    <3>2. ReaderInLog'
      BY <1>0, <1>4, <3>1 DEF ReaderInLog
    <3>3. Upto(log[ri]) = Cur.first
      BY <2>0, <2>4 DEF Upto
    <3>4. RecFollowsLog'
      <4> SUFFICES ASSUME NEW h \in Handles, NEW k \in Kinds
                   PROVE  /\ \A i \in 1 .. ri : OfTable(log[i], h, k) =>
                                Upto(log[i]) <= Len(rec[h][k]) + 1
                          /\ \/ Len(rec[h][k]) = 0
                             \/ \E i \in 1 .. ri :
                                  /\ OfTable(log[i], h, k)
                                  /\ Upto(log[i]) = Len(rec[h][k]) + 1
        BY <1>0, <3>1 DEF RecFollowsLog
      <4>1. \A i \in 1 .. ri : i \in 1 .. ri - 1 \/ i = ri
        BY <1>0
      <4>2. \A i \in 1 .. ri - 1 : i \in 1 .. ri
        BY <1>0
      <4>3. OfTable(log[ri], h, k) => Upto(log[ri]) <= Len(rec[h][k]) + 1
        BY <2>0, <2>1, <3>3 DEF OfTable
      <4> QED  BY <2>3, <4>1, <4>2, <4>3
    <3> QED  BY <2>2, <3>2, <3>4 DEF RecShape
  <2>5. CASE Cur.number # 0
    <3>1. /\ ri' = ri /\ rj' = 0 /\ reading' = TRUE /\ pc' = "parse"
          /\ Cur' = Cur
      BY <1>0, <1>4, <2>5 DEF Go, Cur
    <3>2. ReaderInLog'
      BY <1>0, <1>4, <2>0, <2>5, <3>1 DEF ReaderInLog
    <3>3. RecFollowsLog'
      <4> SUFFICES ASSUME NEW h \in Handles, NEW k \in Kinds
                   PROVE  /\ \A i \in 1 .. ri - 1 : OfTable(log[i], h, k) =>
                                Upto(log[i]) <= Len(rec[h][k]) + 1
                          /\ IF OfTable(Cur, h, k)
                             THEN Len(rec[h][k]) + 1 = Cur.first + 0
                             ELSE \/ Len(rec[h][k]) = 0
                                  \/ \E i \in 1 .. ri - 1 :
                                       /\ OfTable(log[i], h, k)
                                       /\ Upto(log[i]) = Len(rec[h][k]) + 1
        BY <1>0, <3>1 DEF RecFollowsLog
      <4>1. OfTable(Cur, h, k) => Len(rec[h][k]) + 1 = Cur.first + 0
        BY <2>0, <2>1 DEF OfTable
      <4> QED  BY <2>3, <4>1
    <3> QED  BY <2>2, <3>2, <3>3 DEF RecShape
  <2> QED  BY <2>4, <2>5
<1> QED  BY <1>1, <1>2, <1>3, <1>4 DEF ReadBoxInfo, Misaligned, Fail

LEMMA ReadEntryR ==
  ASSUME TInv, LogShape, RecShape, ReadEntry PROVE RecShape'
<1> DEFINE h == Cur.h
           k == Cur.kind
           m == Len(rec[h][k])
<1>0. /\ pc = "parse" /\ pc' = "parse" /\ reading /\ reading = TRUE
      /\ UNCHANGED <<log, tablesSize>>
      /\ rec' = [rec EXCEPT ![h][k] = Append(@, Cur.first + rj)]
      /\ ri <= Len(log) /\ ri <= tablesSize /\ rj < Cur.number
  BY ReadingType DEF ReadEntry, Go, logVars, RecShape, ReaderInLog
<1>1. /\ ri \in Nat \ {0} /\ rj \in Nat /\ Len(log) \in Nat
      /\ ri \in DOMAIN log /\ Cur = log[ri]
      /\ rec \in [Handles -> [Kinds -> Seq(Nat)]]
  BY <1>0, ReadingType, LogType DEF Cur
<1>2. /\ h \in Handles /\ k \in Kinds /\ Cur.first \in Nat
      /\ Cur.number \in Nat
  BY <1>1, LogType
<1>3. rec[h][k] \in Seq(Nat) /\ m \in Nat
  BY <1>1, <1>2
<1>4. m + 1 = Cur.first + rj
  BY <1>0, <1>2 DEF RecShape, RecFollowsLog, OfTable
<1>5. /\ rec'[h][k] = Append(rec[h][k], m + 1)
      /\ \A g \in Handles, j \in Kinds :
           g # h \/ j # k => rec'[g][j] = rec[g][j]
  BY <1>0, <1>1, <1>2, <1>4
<1>6. /\ Len(rec'[h][k]) = m + 1
      /\ \A i \in DOMAIN rec'[h][k] :
           rec'[h][k][i] = IF i = m + 1 THEN m + 1 ELSE rec[h][k][i]
      /\ \A i \in DOMAIN rec'[h][k] : i = m + 1 \/ i \in DOMAIN rec[h][k]
  <2> DEFINE s == rec[h][k]
             r == Append(s, m + 1)
  <2>1. s \in Seq(Nat) /\ m = Len(s) /\ m \in Nat /\ rec'[h][k] = r
    BY <1>3, <1>5
  <2> HIDE DEF s, m
  <2>2. /\ Len(r) = m + 1 /\ DOMAIN r = 1 .. m + 1 /\ DOMAIN s = 1 .. m
        /\ r[m + 1] = m + 1 /\ \A i \in 1 .. m : r[i] = s[i]
    BY <2>1
  <2> HIDE DEF r
  <2>3. \A i \in 1 .. m + 1 : i = m + 1 \/ (i \in 1 .. m /\ i # m + 1)
    BY <2>1
  <2>4. /\ Len(r) = m + 1
        /\ \A i \in DOMAIN r : r[i] = IF i = m + 1 THEN m + 1 ELSE s[i]
        /\ \A i \in DOMAIN r : i = m + 1 \/ i \in DOMAIN s
    BY <2>2, <2>3
  <2>5. s = rec[h][k]
    BY DEF s
  <2> HIDE DEF h, k
  <2> QED  BY <2>1, <2>4, <2>5
<1>7. RecIsPrefix'
  <2> SUFFICES ASSUME NEW g \in Handles, NEW j \in Kinds,
                      NEW i \in DOMAIN rec'[g][j]
               PROVE  rec'[g][j][i] = i
    BY DEF RecIsPrefix
  <2>1. CASE g # h \/ j # k
    BY <1>5, <2>1 DEF RecShape, RecIsPrefix
  <2>2. CASE g = h /\ j = k
    <3>1. i = m + 1 \/ rec[h][k][i] = i
      BY <1>2, <1>6, <2>2 DEF RecShape, RecIsPrefix
    <3> QED  BY <1>6, <2>2, <3>1
  <2> QED  BY <2>1, <2>2
<1>8. \A g \in Handles, j \in Kinds :
        /\ \A i \in 1 .. ri - 1 :
             OfTable(log[i], g, j) => Upto(log[i]) <= Len(rec[g][j]) + 1
        /\ \/ OfTable(Cur, g, j)
           \/ Len(rec[g][j]) = 0
           \/ \E i \in 1 .. ri - 1 :
                OfTable(log[i], g, j) /\ Upto(log[i]) = Len(rec[g][j]) + 1
  BY <1>0 DEF RecShape, RecFollowsLog
<1>9. \A i \in 1 .. ri - 1 : Upto(log[i]) \in Nat
  BY <1>1, LogType DEF Upto
<1>10. \A g \in Handles, j \in Kinds : \A i \in 1 .. ri - 1 :
         OfTable(log[i], g, j) => Upto(log[i]) <= Len(rec'[g][j]) + 1
  <2> SUFFICES ASSUME NEW g \in Handles, NEW j \in Kinds,
                      NEW i \in 1 .. ri - 1, OfTable(log[i], g, j)
               PROVE  Upto(log[i]) <= Len(rec'[g][j]) + 1
    OBVIOUS
  <2>1. Upto(log[i]) <= Len(rec[g][j]) + 1
    BY <1>8
  <2>2. CASE g = h /\ j = k
    <3> HIDE DEF m
    <3>1. Upto(log[i]) <= m + 1
      BY <2>1, <2>2 DEF m
    <3>2. Len(rec'[g][j]) = m + 1
      BY <1>6, <2>2
    <3> QED  BY <1>3, <1>9, <3>1, <3>2
  <2> QED  BY <1>5, <2>1, <2>2
<1>11. \A g \in Handles, j \in Kinds :
         OfTable(Cur, g, j) <=> (g = h /\ j = k)
  BY DEF OfTable
<1>12. CASE rj + 1 = Cur.number
  <2>1. ri' = ri + 1 /\ rj' = 0 /\ reading' = FALSE
    BY <1>12 DEF ReadEntry, NextRecord
  <2>2. ReaderInLog'
    BY <1>0, <1>1, <2>1 DEF ReaderInLog
  <2>3. Upto(log[ri]) = Len(rec'[h][k]) + 1
    <3>1. Cur.first + Cur.number = (m + 1) + 1
      <4> HIDE DEF m
      <4> QED  BY <1>1, <1>2, <1>3, <1>4, <1>12
    <3> QED  BY <1>1, <1>6, <3>1 DEF Upto
  <2>4. RecFollowsLog'
    <3> SUFFICES ASSUME NEW g \in Handles, NEW j \in Kinds
                 PROVE  /\ \A i \in 1 .. ri : OfTable(log[i], g, j) =>
                              Upto(log[i]) <= Len(rec'[g][j]) + 1
                        /\ \/ Len(rec'[g][j]) = 0
                           \/ \E i \in 1 .. ri :
                                /\ OfTable(log[i], g, j)
                                /\ Upto(log[i]) = Len(rec'[g][j]) + 1
      BY <1>0, <1>1, <2>1 DEF RecFollowsLog
    <3>1. \A i \in 1 .. ri : i \in 1 .. ri - 1 \/ i = ri
      BY <1>1
    <3>2. ri \in 1 .. ri /\ \A i \in 1 .. ri - 1 : i \in 1 .. ri
      BY <1>1
    <3>3. CASE OfTable(Cur, g, j)
      <4>1. g = h /\ j = k /\ OfTable(log[ri], g, j)
        BY <1>1, <1>11, <3>3
      <4>2. Upto(log[ri]) <= Len(rec'[g][j]) + 1
        <5> HIDE DEF h, k, m
        <5> QED  BY <1>6, <1>3, <2>3, <4>1
      <4> QED  BY <1>10, <2>3, <3>1, <3>2, <4>1, <4>2
    <3>4. CASE ~OfTable(Cur, g, j)
      <4>1. rec'[g][j] = rec[g][j]
        BY <1>5, <1>11, <3>4
      <4> QED  BY <1>1, <1>8, <1>10, <3>1, <3>2, <3>4, <4>1
    <3> QED  BY <3>3, <3>4
  <2> QED  BY <1>7, <2>2, <2>4 DEF RecShape
<1>13. CASE rj + 1 # Cur.number
  <2>1. rj' = rj + 1 /\ ri' = ri /\ reading' = TRUE /\ Cur' = Cur
    BY <1>0, <1>13 DEF ReadEntry, Cur
  <2>2. ReaderInLog'
    BY <1>0, <1>1, <1>2, <1>13, <2>1 DEF ReaderInLog
  <2>3. Len(rec'[h][k]) + 1 = Cur.first + (rj + 1)
    <3> HIDE DEF h, k, m
    <3> QED  BY SMTT(20), <1>1, <1>2, <1>3, <1>4, <1>6
  <2>4. RecFollowsLog'
    <3> SUFFICES ASSUME NEW g \in Handles, NEW j \in Kinds
                 PROVE  /\ \A i \in 1 .. ri - 1 : OfTable(log[i], g, j) =>
                              Upto(log[i]) <= Len(rec'[g][j]) + 1
                        /\ IF OfTable(Cur, g, j)
                           THEN Len(rec'[g][j]) + 1 = Cur.first + (rj + 1)
                           ELSE \/ Len(rec'[g][j]) = 0
                                \/ \E i \in 1 .. ri - 1 :
                                     /\ OfTable(log[i], g, j)
                                     /\ Upto(log[i]) = Len(rec'[g][j]) + 1
      BY <1>0, <2>1 DEF RecFollowsLog
    <3>1. CASE OfTable(Cur, g, j)
      BY <1>10, <1>11, <2>3, <3>1
    <3>2. CASE ~OfTable(Cur, g, j)
      <4>1. rec'[g][j] = rec[g][j]
        BY <1>5, <1>11, <3>2
      <4> QED  BY <1>8, <1>10, <3>2, <4>1
    <3> QED  BY <3>1, <3>2
  <2> QED  BY <1>7, <2>2, <2>4 DEF RecShape
<1> QED  BY <1>12, <1>13

LEMMA ReadMissingEntryR ==
  ASSUME Preallocated => "power" \notin Faults,
         TInv, LogShape, RecShape, ReadMissingEntry
  PROVE  RecShape'
<1>0. /\ pc = "parse" /\ reading /\ rj >= Cur.got
      /\ UNCHANGED <<log, tablesSize>>
      /\ ri <= Len(log) /\ ri <= tablesSize /\ rj < Cur.number
  BY DEF ReadMissingEntry, logVars, RecShape, ReaderInLog
<1>1. /\ ri \in Nat \ {0} /\ rj \in Nat /\ Len(log) \in Nat
      /\ tablesSize \in Nat /\ ri \in DOMAIN log /\ Cur = log[ri]
      /\ Cur.got \in Nat /\ Cur.number \in Nat
  <2>1. ri \in DOMAIN log
    BY <1>0, ReadingType, LogType
  <2> QED  BY <2>1, ReadingType, LogType DEF Cur
<1>2. ~Whole(log[ri])
  BY <1>0, <1>1 DEF Whole
<1>3. ~(ri < Len(log))
  BY <1>1, <1>2 DEF LogShape, OnlyLastPartial
<1>4. ~Preallocated
  <2>1. ri \in 1 .. tablesSize
    BY <1>0, <1>1
  <2> QED  BY <1>2, <2>1 DEF LogShape, CommittedWhole
<1>5. Fail(Cur.kind) /\ UNCHANGED rec
  BY <1>3, <1>4 DEF ReadMissingEntry
<1> QED  BY <1>0, <1>5, LeavesR DEF Fail

LEMMA TrimR == ASSUME TInv, RecShape, Trim PROVE RecShape'
<1>1. pc' = "rewrite" /\ rec' = Trimmed
  BY DEF Trim
<1>2. RecIsPrefix'
  <2> SUFFICES ASSUME NEW h \in Handles, NEW k \in Kinds,
                      NEW i \in DOMAIN rec'[h][k]
               PROVE  rec'[h][k][i] = i
    BY DEF RecIsPrefix
  <2>1. CASE k \in {"stsz", "stco"}
    <3>1. rec'[h][k] = SubSeq(rec[h][k], 1, Kept(h))
      BY <1>1, <2>1 DEF Trimmed
    <3>2. rec[h][k] \in Seq(Nat)
      BY ReadingType
    <3>3. Kept(h) \in Nat /\ Kept(h) <= Len(rec[h][k])
      BY <2>1, KeptT
    <3>4. i \in DOMAIN rec[h][k] /\ rec'[h][k][i] = rec[h][k][i]
      BY <3>1, <3>2, <3>3, SubSeqPrefix
    <3> QED  BY <3>4 DEF RecShape, RecIsPrefix
  <2>2. CASE k \notin {"stsz", "stco"}
    <3>1. rec'[h][k] = rec[h][k]
      BY <1>1, <2>2 DEF Trimmed
    <3> QED  BY <3>1 DEF RecShape, RecIsPrefix
  <2> QED  BY <2>1, <2>2
<1>3. ReaderInLog' /\ RecFollowsLog'
  BY <1>1 DEF ReaderInLog, RecFollowsLog
<1> QED  BY <1>2, <1>3 DEF RecShape

LEMMA RecShapeInit == Init => RecShape
<1> SUFFICES ASSUME Init PROVE RecShape
  OBVIOUS
<1>1. pc = "open" /\ rec = NoTables
  BY DEF Init
<1> QED  BY <1>1 DEF RecShape, RecIsPrefix, ReaderInLog, RecFollowsLog,
         NoTables

LEMMA RecShapeStep ==
  ASSUME Preallocated => "power" \notin Faults,
         TInv, LogShape, RecShape, [Next]_vars
  PROVE  RecShape'
<1>1. CASE AppNext
  <2>1. CASE RecoverStart
    BY <2>1, RecoverStartR
  <2>2. CASE ~RecoverStart
    BY <1>1, <2>2, QuietKeepsRec DEF AppNext, AddTrack, AddSample,
       AddSampleFails, Dump, BeginSync, BeginClose, Finalize, RecQuiet, recVars
  <2> QED  BY <2>1, <2>2
<1>2. CASE MuxNext
  BY <1>2, QuietKeepsRec DEF MuxNext, VisitTrack, WriteBoxInfo, WriteEntry,
     WriteHeader, SyncTables, SyncTablesSkipped, EndClose, RecQuiet, recVars
<1>3. CASE RecoveryNext
  <2>1. CASE Rewrite
    BY <2>1, QuietKeepsRec DEF Rewrite, RecQuiet, recVars
  <2> QED  BY <1>3, <2>1, ReadDoneR, ReadBoxInfoR, ReadEntryR,
              ReadMissingEntryR, TrimR DEF RecoveryNext
<1>4. CASE FaultNext
  BY <1>4, QuietKeepsRec DEF FaultNext, WriteFails, ShortBoxInfoUnseen, Crash,
     PowerLoss, RecQuiet, recVars
<1>5. CASE UNCHANGED vars
  <2>1. UNCHANGED <<pc, log, tablesSize, rec, ri, rj, reading>>
    BY <1>5 DEF vars, logVars, recVars
  <2> QED  BY <2>1 DEF RecShape, RecIsPrefix, ReaderInLog, RecFollowsLog, Cur
<1> QED  BY <1>1, <1>2, <1>3, <1>4, <1>5 DEF Next

-----------------------------------------------------------------------------
LEMMA PrefixInit == Init => PrefixInv
  BY TInvInit, LogShapeInit, RecShapeInit DEF PrefixInv

LEMMA PrefixStep ==
  ASSUME "write" \notin Faults, Preallocated => "power" \notin Faults,
         PrefixInv, [Next]_vars
  PROVE  PrefixInv'
  BY TInvStep, LogShapeStep, RecShapeStep DEF PrefixInv

(* What a recovery reads into a table of the moov is, at every moment, the *)
(* first entries of the table the muxer had, in order and none twice, for  *)
(* any number of tracks, samples, syncs, crashes, losses of power and      *)
(* recoveries - unless a write to the tables file fails, or power is lost  *)
(* while that file holds preallocated zeros.                               *)
THEOREM RecoveredArePrefixes ==
  ASSUME "write" \notin Faults, Preallocated => "power" \notin Faults
  PROVE  Spec => []RecoveredIsPrefix
<1>1. PrefixInv /\ [Next]_vars => PrefixInv'
  BY PrefixStep
<1>2. PrefixInv => RecoveredIsPrefix
  BY DEF PrefixInv, RecShape, RecIsPrefix, RecoveredIsPrefix, Kinds, MoovKinds
<1> QED  BY PrefixInit, <1>1, <1>2, PTL DEF Spec

-----------------------------------------------------------------------------
(* Which steps change what. *)

LEMMA LogSteps ==
  ASSUME "write" \notin Faults, "power" \notin Faults, Next
  PROVE  \/ WriteBoxInfo \/ WriteEntry \/ WriteHeader
         \/ \E truncate_file \in BOOLEAN : Finalize(truncate_file)
         \/ UNCHANGED <<log, tablesSize>>
<1>1. CASE AppNext
  BY <1>1 DEF AppNext, AddTrack, AddSample, AddSampleFails, Dump, BeginSync,
     BeginClose, RecoverStart, logVars
<1>2. CASE MuxNext
  BY <1>2 DEF MuxNext, VisitTrack, SyncTables, SyncTablesSkipped, EndClose,
     logVars
<1>3. CASE RecoveryNext
  BY <1>3 DEF RecoveryNext, ReadDone, ReadBoxInfo, ReadEntry,
     ReadMissingEntry, Trim, Rewrite, logVars
<1>4. CASE FaultNext
  BY <1>4 DEF FaultNext, WriteFails, ShortBoxInfoUnseen, Crash, PowerLoss,
     logVars
<1> QED  BY <1>1, <1>2, <1>3, <1>4 DEF Next

LEMMA TrackSteps ==
  ASSUME Next
  PROVE  \/ \E t \in Types : AddTrack(t)
         \/ \E h \in Handles, size \in Sizes, sync \in BOOLEAN :
              AddSample(h, size, sync)
         \/ UNCHANGED <<type, samples>>
<1>1. CASE AppNext
  BY <1>1 DEF AppNext, AddSampleFails, Dump, BeginSync, BeginClose,
     RecoverStart, Finalize, muxVars
<1>2. CASE MuxNext
  BY <1>2 DEF MuxNext, VisitTrack, WriteBoxInfo, WriteEntry, WriteHeader,
     SyncTables, SyncTablesSkipped, EndClose, MemoryLost, muxVars
<1>3. CASE RecoveryNext
  BY <1>3 DEF RecoveryNext, ReadDone, ReadBoxInfo, ReadEntry,
     ReadMissingEntry, Trim, Rewrite, muxVars
<1>4. CASE FaultNext
  BY <1>4 DEF FaultNext, WriteFails, ShortBoxInfoUnseen, Crash, PowerLoss,
     MemoryLost, muxVars
<1> QED  BY <1>1, <1>2, <1>3, <1>4 DEF Next

(* The muxer is open in the steps that leave it open. *)
LEMMA InMuxSteps ==
  ASSUME "write" \notin Faults, ~Dumps, Next, pc' \in InMux
  PROVE  /\ pc \in InMux
         /\ \/ \E t \in Types : AddTrack(t)
            \/ SyncTables \/ BeginClose
            \/ UNCHANGED <<type, list>>
         /\ WriteEntry \/ UNCHANGED written
<1>1. CASE AppNext
  BY <1>1 DEF AppNext, AddTrack, AddSample, AddSampleFails, Dump, BeginSync,
     BeginClose, RecoverStart, Finalize, muxVars, InMux
<1>2. CASE MuxNext
  BY <1>2 DEF MuxNext, VisitTrack, WriteBoxInfo, WriteEntry, WriteHeader,
     SyncTables, SyncTablesSkipped, EndClose, muxVars, InMux
<1>3. CASE RecoveryNext
  BY <1>3 DEF RecoveryNext, ReadDone, ReadBoxInfo, ReadEntry,
     ReadMissingEntry, Trim, Rewrite, Misaligned, Fail, Minor, Fatal, Go,
     InMux
<1>4. CASE FaultNext
  BY <1>4 DEF FaultNext, WriteFails, ShortBoxInfoUnseen, Crash, PowerLoss,
     InMux
<1> QED  BY <1>1, <1>2, <1>3, <1>4 DEF Next

(* The table that is being written is the only one whose count moves. *)
LEMMA EntryCounts ==
  ASSUME TInv, WriteEntry
  PROVE  /\ Head(walk) \in Handles /\ step \in Kinds
         /\ written'[Head(walk)][step] = written[Head(walk)][step] + 1
         /\ written'[Head(walk)][step] \in Nat
         /\ \A g \in Handles, k \in Kinds :
              g # Head(walk) \/ k # step => written'[g][k] = written[g][k]
         /\ \A g \in Handles, k \in Kinds :
              written'[g][k] = 0 => written[g][k] = 0
<1>0. /\ pc = "sync" /\ step \in Kinds
      /\ written' = [written EXCEPT ![Head(walk)][step] = @ + 1]
  BY DEF WriteEntry
<1>1. Head(walk) \in Handles /\ written[Head(walk)][step] \in Nat
  BY <1>0, AtTable
<1>2. written \in [Handles -> [Kinds -> Nat]]
  BY DEF TInv, TypeOK, MuxTypeOK
<1>3. /\ written'[Head(walk)][step] = written[Head(walk)][step] + 1
      /\ written'[Head(walk)][step] \in Nat
  BY <1>0, <1>1, <1>2
<1>4. \A g \in Handles, k \in Kinds :
        g # Head(walk) \/ k # step => written'[g][k] = written[g][k]
  BY <1>0, <1>1, <1>2
<1>5. ASSUME NEW g \in Handles, NEW k \in Kinds, written'[g][k] = 0
      PROVE  written[g][k] = 0
  <2>1. CASE g = Head(walk) /\ k = step
    BY <1>1, <1>3, <1>5, <2>1
  <2> QED  BY <1>4, <1>5, <2>1
<1> QED  BY <1>0, <1>1, <1>3, <1>4, <1>5

-----------------------------------------------------------------------------
(* The tracks and the list of the muxer. *)

LEMMA MuxType ==
  ASSUME TInv
  PROVE  /\ type \in Seq(Types) /\ Len(type) \in Nat
         /\ DOMAIN type = 1 .. Len(type) /\ DOMAIN type \subseteq Handles
         /\ list \in Seq(Handles) /\ Len(list) \in Nat
         /\ DOMAIN list = 1 .. Len(list)
         /\ \A h \in Handles : samples[h] \in Seq([off : Nat, size : Nat])
         /\ \A h \in Handles, k \in Kinds : written[h][k] \in Nat
<1>1. /\ type \in Seq(Types) /\ Len(type) <= MaxTracks /\ list \in Seq(Handles)
      /\ samples \in [Handles -> Seq([off : Nat, size : Nat])]
      /\ written \in [Handles -> [Kinds -> Nat]]
  BY DEF TInv, TypeOK, MuxTypeOK
<1>2. Len(type) \in Nat /\ DOMAIN type = 1 .. Len(type)
  BY <1>1
<1>3. DOMAIN type \subseteq Handles
  BY <1>1, <1>2, BoundsAssumption DEF Handles, BoundsAssumption
<1> QED  BY <1>1, <1>2, <1>3

LEMMA AddTrackList ==
  ASSUME TInv, NEW t \in Types, AddTrack(t)
  PROVE  /\ DOMAIN type' = DOMAIN type \cup {Len(type) + 1}
         /\ DOMAIN list' = DOMAIN list \cup {Len(list) + 1}
         /\ list'[Len(list) + 1] = Len(type) + 1
         /\ \A i \in DOMAIN list : list'[i] = list[i]
         /\ Len(type) + 1 \in Handles
<1>1. /\ type' = Append(type, t) /\ list' = Append(list, Len(type) + 1)
      /\ Len(type) < MaxTracks
  BY DEF AddTrack
<1>2. Len(type) + 1 \in Handles
  BY <1>1, MuxType, BoundsAssumption DEF Handles, BoundsAssumption
<1>3. DOMAIN type' = DOMAIN type \cup {Len(type) + 1}
  <2>1. DOMAIN type' = 1 .. Len(type) + 1
    BY <1>1, MuxType
  <2> QED  BY <2>1, MuxType
<1>4. DOMAIN list' = 1 .. Len(list) + 1 /\ list'[Len(list) + 1] = Len(type) + 1
      /\ \A i \in DOMAIN list : list'[i] = list[i]
  BY <1>1, <1>2, MuxType
<1>5. DOMAIN list' = DOMAIN list \cup {Len(list) + 1}
  BY <1>4, MuxType
<1> QED  BY <1>2, <1>3, <1>4, <1>5

LEMMA SamplesStep ==
  ASSUME TInv, SamplesHaveTracks, Next PROVE SamplesHaveTracks'
<1>1. CASE \E t \in Types : AddTrack(t)
  <2>1. DOMAIN type \subseteq DOMAIN type' /\ samples' = samples
    BY <1>1, AddTrackList DEF AddTrack
  <2> QED  BY <2>1 DEF SamplesHaveTracks
<1>2. CASE \E h \in Handles, size \in Sizes, sync \in BOOLEAN :
             AddSample(h, size, sync)
  <2>1. PICK h \in Handles, size \in Sizes, sync \in BOOLEAN :
               AddSample(h, size, sync)
    BY <1>2
  <2>2. /\ h \in DOMAIN type /\ type' = type
        /\ samples' = [samples EXCEPT ![h] =
                         Append(@, [off |-> pos, size |-> size])]
    BY <2>1 DEF AddSample
  <2>3. \A g \in Handles : g # h => samples'[g] = samples[g]
    BY <2>2 DEF TInv, TypeOK, MuxTypeOK
  <2> QED  BY <2>2, <2>3 DEF SamplesHaveTracks
<1>3. CASE UNCHANGED <<type, samples>>
  BY <1>3 DEF SamplesHaveTracks
<1> QED  BY <1>1, <1>2, <1>3, TrackSteps

LEMMA ListStep ==
  ASSUME "write" \notin Faults, ~Dumps, TInv, ListHasTracks, Next
  PROVE  ListHasTracks'
<1> SUFFICES ASSUME pc' \in InMux
             PROVE  /\ \A i \in DOMAIN list' : list'[i] \in DOMAIN type'
                    /\ \A h \in DOMAIN type' : \E i \in DOMAIN list' : list'[i] = h
  BY DEF ListHasTracks
<1>1. /\ \A i \in DOMAIN list : list[i] \in DOMAIN type
      /\ \A h \in DOMAIN type : \E i \in DOMAIN list : list[i] = h
  BY InMuxSteps DEF ListHasTracks
<1>2. CASE \E t \in Types : AddTrack(t)
  BY <1>1, <1>2, AddTrackList
<1>3. CASE SyncTables \/ BeginClose
  <2>1. SortTracks /\ type' = type
    BY <1>3 DEF SyncTables, BeginClose, SortAndCompute
  <2>2. PICK t \in [1 .. Len(list) -> Handles] : IsSorted(t, list) /\ list' = t
    BY <2>1 DEF SortTracks
  <2>3. /\ \A i \in DOMAIN list : \E j \in DOMAIN t : t[j] = list[i]
        /\ \A j \in DOMAIN t : \E i \in DOMAIN list : t[j] = list[i]
    BY <2>2 DEF IsSorted
  <2> QED  BY <1>1, <2>1, <2>2, <2>3
<1>4. CASE UNCHANGED <<type, list>>
  BY <1>1, <1>4
<1> QED  BY <1>2, <1>3, <1>4, InMuxSteps

-----------------------------------------------------------------------------
(* The walk of a sync over the tracks. *)

(* Writing to a table stays at it, or completes it and goes on. *)
LEMMA RecordSteps ==
  ASSUME TInv, WriteBoxInfo \/ WriteEntry
  PROVE  /\ pc = "sync" /\ pc' = "sync" /\ step \in Kinds
         /\ walk \in Seq(Handles) /\ walk # <<>> /\ Head(walk) \in Handles
         /\ UNCHANGED <<type, list, samples>>
         /\ \A g \in Handles, k \in Kinds :
              /\ g # Head(walk) \/ k # step => written'[g][k] = written[g][k]
              /\ written'[g][k] = 0 => written[g][k] = 0
         /\ \/ /\ UNCHANGED <<step, walk>>
               /\ UNCHANGED written \/ Count(Head(walk), step) # 1
            \/ /\ written'[Head(walk)][step] = Count(Head(walk), step)
               /\ step' = After(Head(walk), step)
               /\ walk' = IF step' = "track" THEN Tail(walk) ELSE walk
<1>1. pc = "sync" /\ pc' = "sync" /\ step \in Kinds
      /\ UNCHANGED <<type, list, samples>>
  BY DEF WriteBoxInfo, WriteEntry, muxVars
<1>2. walk \in Seq(Handles) /\ walk # <<>> /\ Head(walk) \in Handles
  BY <1>1, AtTable
<1>3. CASE WriteBoxInfo
  <2>1. UNCHANGED written
    BY <1>3 DEF WriteBoxInfo, muxVars
  <2> QED  BY <1>1, <1>2, <1>3, <2>1 DEF WriteBoxInfo, EndRecord
<1>4. CASE WriteEntry
  <2> DEFINE r == log[Len(log)]
             w == written[Head(walk)][step]
             c == Count(Head(walk), step)
  <2>1. /\ r.first + r.got = w + 1 /\ r.first + r.number = c + 1
        /\ r.first \in Nat /\ r.got \in Nat /\ r.number \in Nat
        /\ r.got < r.number
        /\ w \in Nat /\ c \in Nat
    <3>1. open /\ Len(log) \in DOMAIN log
      BY <1>4, LogType DEF WriteEntry, TInv, OpenIsLast
    <3> QED  BY <1>1, <3>1, AtTable, LogType DEF TInv, OpenIsLast
  <2>2. CASE r.got + 1 = r.number
    <3>1. written'[Head(walk)][step] = w + 1
      BY <1>4, EntryCounts
    <3>2. w + 1 = c
      <4> HIDE DEF r, w, c
      <4> QED  BY <2>1, <2>2
    <3>3. EndRecord
      BY <1>4, <2>2 DEF WriteEntry
    <3> QED  BY <1>1, <1>2, <1>4, <3>1, <3>2, <3>3, EntryCounts
             DEF EndRecord
  <2>3. CASE r.got + 1 # r.number
    <3>1. c # 1
      <4> HIDE DEF r, w, c
      <4> QED  BY <2>1, <2>3
    <3>2. UNCHANGED <<step, walk>>
      BY <1>4, <2>3 DEF WriteEntry, syncVars
    <3> QED  BY <1>1, <1>2, <1>4, <3>1, <3>2, EntryCounts
  <2> QED  BY <2>2, <2>3
<1> QED  BY <1>3, <1>4

LEMMA TailOf ==
  ASSUME NEW S, NEW s \in Seq(S), s # <<>>
  PROVE  /\ Tail(s) \in Seq(S) /\ Len(Tail(s)) = Len(s) - 1
         /\ Head(s) = s[1] /\ 1 \in DOMAIN s /\ Len(s) \in Nat
         /\ \A i \in DOMAIN Tail(s) : i + 1 \in DOMAIN s /\ Tail(s)[i] = s[i + 1]
         /\ \A i \in DOMAIN s : i = 1 \/ (i - 1 \in DOMAIN Tail(s)
                                         /\ s[i] = Tail(s)[i - 1])
  OBVIOUS

LEMMA TailInOrder ==
  ASSUME walk \in Seq(Handles), walk # <<>>, UnwrittenInOrder(walk)
  PROVE  UnwrittenInOrder(Tail(walk))
<1> SUFFICES ASSUME NEW i \in DOMAIN Tail(walk), NEW j \in DOMAIN Tail(walk),
                    i < j, written[Tail(walk)[i]]["trak"] = 0
             PROVE  Tail(walk)[i] < Tail(walk)[j]
  BY DEF UnwrittenInOrder
<1>1. /\ i + 1 \in DOMAIN walk /\ Tail(walk)[i] = walk[i + 1]
      /\ j + 1 \in DOMAIN walk /\ Tail(walk)[j] = walk[j + 1]
      /\ Tail(walk) \in Seq(Handles)
  BY TailOf
<1>2. i + 1 < j + 1
  BY <1>1
<1> QED  BY <1>1, <1>2 DEF UnwrittenInOrder

(* What is written changes the order of no list. *)
LEMMA StaysInOrder ==
  ASSUME NEW l \in Seq(Handles), UnwrittenInOrder(l),
         \A h \in Handles : written'[h]["trak"] = 0 => written[h]["trak"] = 0
  PROVE  \A i, j \in DOMAIN l :
           i < j /\ written'[l[i]]["trak"] = 0 => l[i] < l[j]
  BY DEF UnwrittenInOrder

LEMMA ListOrderStep ==
  ASSUME "write" \notin Faults, ~Dumps, TInv, WriterInv, Next
  PROVE  ListInOrder'
<1> SUFFICES ASSUME pc' \in {"open", "sync", "tables"}
             PROVE  \A i, j \in DOMAIN list' :
                      i < j /\ written'[list'[i]]["trak"] = 0 => list'[i] < list'[j]
  BY DEF ListInOrder, UnwrittenInOrder
<1>1. /\ pc \in InMux
      /\ \/ \E t \in Types : AddTrack(t)
         \/ SyncTables \/ BeginClose
         \/ UNCHANGED <<type, list>>
      /\ WriteEntry \/ UNCHANGED written
  BY InMuxSteps DEF InMux
<1>2. \A i \in DOMAIN list : list[i] \in DOMAIN type
  BY <1>1 DEF WriterInv, ListHasTracks
<1>3. CASE \E t \in Types : AddTrack(t)
  <2>1. UnwrittenInOrder(list) /\ UNCHANGED written
    BY <1>3 DEF AddTrack, WriterInv, ListInOrder
  <2>2. \A i, j \in DOMAIN list :
          i < j /\ written[list[i]]["trak"] = 0 => list[i] < list[j]
    BY <2>1 DEF UnwrittenInOrder
  <2>3. /\ DOMAIN list' = DOMAIN list \cup {Len(list) + 1}
        /\ list'[Len(list) + 1] = Len(type) + 1
        /\ \A i \in DOMAIN list : list'[i] = list[i]
    BY <1>3, AddTrackList
  <2>4. \A i \in DOMAIN list : i < Len(list) + 1 /\ list[i] < Len(type) + 1
    BY <1>2, MuxType
  <2>5. \A i \in DOMAIN list : ~(Len(list) + 1 < i)
    BY MuxType
  <2>6. ~(Len(list) + 1 < Len(list) + 1)
    BY MuxType
  <2> QED  BY <2>1, <2>2, <2>3, <2>4, <2>5, <2>6
<1>4. CASE SyncTables
  <2>1. PICK t \in [1 .. Len(list) -> Handles] : IsSorted(t, list) /\ list' = t
    BY <1>4 DEF SyncTables, SortAndCompute, SortTracks
  <2>2. \A i \in DOMAIN list' : list'[i] \in DOMAIN type
    BY <1>2, <2>1 DEF IsSorted
  <2>3. written' = written /\ \A h \in DOMAIN type : written[h]["trak"] # 0
    BY <1>4 DEF SyncTables, WriterInv, TablesSynced
  <2> QED  BY <2>2, <2>3
<1>5. CASE BeginClose
  BY <1>5 DEF BeginClose
<1>6. CASE UNCHANGED <<type, list>>
  <2>1. pc \in {"open", "sync", "tables"}
    <3>1. CASE pc = "closing"
      BY <3>1 DEF Next, AppNext, MuxNext, RecoveryNext, FaultNext, AddTrack,
         AddSample, AddSampleFails, Dump, BeginSync, BeginClose, RecoverStart,
         Finalize, VisitTrack, WriteBoxInfo, WriteEntry, WriteHeader,
         SyncTables, SyncTablesSkipped, EndClose, ReadDone, ReadBoxInfo,
         ReadEntry, ReadMissingEntry, Trim, Rewrite, WriteFails,
         ShortBoxInfoUnseen, Crash, PowerLoss
    <3> QED  BY <1>1, <3>1 DEF InMux
  <2>2. UnwrittenInOrder(list) /\ list \in Seq(Handles)
    BY <2>1, MuxType DEF WriterInv, ListInOrder
  <2>3. \A h \in Handles :
          written'[h]["trak"] = 0 => written[h]["trak"] = 0
    BY <1>1, EntryCounts DEF Kinds
  <2> QED  BY <1>6, <2>2, <2>3, StaysInOrder
<1> QED  BY <1>1, <1>3, <1>4, <1>5, <1>6

LEMMA EntersSync ==
  ASSUME "write" \notin Faults, Next, pc' = "sync"
  PROVE  \/ \E write_tables \in BOOLEAN : BeginSync(write_tables)
         \/ VisitTrack \/ WriteBoxInfo \/ WriteEntry
<1>1. CASE AppNext
  BY <1>1 DEF AppNext, AddTrack, AddSample, AddSampleFails, Dump, BeginClose,
     RecoverStart, Finalize
<1>2. CASE MuxNext
  BY <1>2 DEF MuxNext, WriteHeader, SyncTables, SyncTablesSkipped, EndClose
<1>3. CASE RecoveryNext
  BY <1>3 DEF RecoveryNext, ReadDone, ReadBoxInfo, ReadEntry,
     ReadMissingEntry, Trim, Rewrite, Misaligned, Fail, Minor, Fatal, Go
<1>4. CASE FaultNext
  BY <1>4 DEF FaultNext, WriteFails, ShortBoxInfoUnseen, Crash, PowerLoss
<1> QED  BY <1>1, <1>2, <1>3, <1>4 DEF Next

(* A track that a sync leaves is in the log with all its samples. *)
LEMMA LeavesSynced ==
  ASSUME TInv, WriterInv, WriteBoxInfo \/ WriteEntry,
         written'[Head(walk)][step] = Count(Head(walk), step),
         After(Head(walk), step) = "track"
  PROVE  /\ written'[Head(walk)]["trak"] # 0
         /\ written'[Head(walk)]["stsz"] = Len(samples[Head(walk)])
         /\ written'[Head(walk)]["stco"] = Len(samples[Head(walk)])
<1> DEFINE h == Head(walk)
<1>0. /\ pc = "sync" /\ step \in Kinds /\ h \in Handles /\ samples' = samples
      /\ \A g \in Handles, k \in Kinds :
           g # h \/ k # step => written'[g][k] = written[g][k]
  BY RecordSteps
<1>1. /\ step = "trak" <=> written[h]["trak"] = 0
      /\ step = "stco" => written[h]["stsz"] = Len(samples[h])
  BY <1>0 DEF WriterInv, StepInOrder
<1>2. CASE step = "stsd" /\ samples[h] = <<>>
  <2>1. written[h]["stsz"] = 0 /\ written[h]["stco"] = 0
    <3>1. written[h]["stsz"] <= 0 /\ written[h]["stco"] <= 0
      BY <1>0, <1>2 DEF TInv, WrittenInBounds, Count, Kinds
    <3> QED  BY <1>0, <3>1, MuxType DEF Kinds
  <2> QED  BY <1>0, <1>1, <1>2, <2>1 DEF Kinds
<1>3. CASE step = "stco"
  <2>1. written'[h]["stco"] = Len(samples[h])
    BY <1>3 DEF Count
  <2> QED  BY <1>0, <1>1, <1>3, <2>1 DEF Kinds
<1>4. (step = "stsd" /\ samples[h] = <<>>) \/ step = "stco"
  BY <1>0 DEF After, Kinds
<1> QED  BY <1>2, <1>3, <1>4

LEMMA WalkStep ==
  ASSUME "write" \notin Faults, TInv, WriterInv, Next PROVE WalkInOrder'
<1> SUFFICES ASSUME pc' = "sync"
             PROVE  /\ UnwrittenInOrder(walk)'
                    /\ \A i \in DOMAIN walk' : walk'[i] \in DOMAIN type'
                    /\ \A h \in DOMAIN type' :
                         (\E i \in DOMAIN walk' : walk'[i] = h) \/ Synced(h)'
                    /\ step' = "header" => walk' = <<>>
  BY DEF WalkInOrder
<1>1. CASE \E write_tables \in BOOLEAN : BeginSync(write_tables)
  <2>1. /\ pc = "open" /\ walk' = list /\ step' = "track"
        /\ UNCHANGED <<type, list, written>>
    BY <1>1 DEF BeginSync
  <2>2. UnwrittenInOrder(list)
    BY <2>1 DEF WriterInv, ListInOrder
  <2>3. /\ \A i \in DOMAIN list : list[i] \in DOMAIN type
        /\ \A h \in DOMAIN type : \E i \in DOMAIN list : list[i] = h
    BY <2>1 DEF WriterInv, ListHasTracks, InMux
  <2>4. UnwrittenInOrder(walk)'
    BY <2>1, <2>2 DEF UnwrittenInOrder
  <2> QED  BY <2>1, <2>3, <2>4
<1>2. CASE VisitTrack
  <2>1. /\ pc = "sync" /\ UNCHANGED <<type, written, samples>>
        /\ walk \in Seq(Handles)
    BY <1>2 DEF VisitTrack, muxVars, TInv, TypeOK, SyncTypeOK
  <2>2. /\ UnwrittenInOrder(walk)
        /\ \A i \in DOMAIN walk : walk[i] \in DOMAIN type
        /\ \A h \in DOMAIN type : (\E i \in DOMAIN walk : walk[i] = h) \/ Synced(h)
    BY <2>1 DEF WriterInv, WalkInOrder
  <2>3. \A h : Synced(h)' <=> Synced(h)
    BY <2>1 DEF Synced
  <2>4. CASE walk' = walk /\ (step' = "header" => walk = <<>>)
    <3>1. UnwrittenInOrder(walk)'
      BY <2>1, <2>2, <2>4 DEF UnwrittenInOrder
    <3> QED  BY <2>1, <2>2, <2>3, <2>4, <3>1
  <2>5. CASE /\ walk # <<>> /\ walk' = Tail(walk) /\ step' = "track"
             /\ written[Head(walk)]["trak"] # 0 /\ samples[Head(walk)] = <<>>
    <3>1. Synced(Head(walk))
      <4>1. Head(walk) \in Handles
        BY <2>1, <2>5
      <4>2. written[Head(walk)]["stsz"] <= 0 /\ written[Head(walk)]["stco"] <= 0
        BY <2>5, <4>1 DEF TInv, WrittenInBounds, Count, Kinds
      <4>3. written[Head(walk)]["stsz"] = 0 /\ written[Head(walk)]["stco"] = 0
        BY <4>1, <4>2, MuxType DEF Kinds
      <4> QED  BY <2>5, <4>3 DEF Synced
    <3>2. UnwrittenInOrder(walk)'
      <4>1. UnwrittenInOrder(Tail(walk))
        BY <2>1, <2>2, <2>5, TailInOrder
      <4> QED  BY <2>1, <2>5, <4>1 DEF UnwrittenInOrder
    <3>3. \A i \in DOMAIN walk' : walk'[i] \in DOMAIN type'
      BY <2>1, <2>2, <2>5, TailOf
    <3>4. \A h \in DOMAIN type :
            (\E i \in DOMAIN walk' : walk'[i] = h) \/ h = Head(walk) \/ Synced(h)
      <4> SUFFICES ASSUME NEW h \in DOMAIN type, h # Head(walk), ~Synced(h)
                   PROVE  \E i \in DOMAIN Tail(walk) : Tail(walk)[i] = h
        BY <2>5
      <4>1. PICK i \in DOMAIN walk : walk[i] = h
        BY <2>2
      <4>2. i # 1
        BY <2>1, <4>1, TailOf
      <4>3. i - 1 \in DOMAIN Tail(walk) /\ Tail(walk)[i - 1] = h
        BY <2>1, <4>1, <4>2, TailOf
      <4> QED  BY <4>3
    <3> QED  BY <2>1, <2>3, <2>5, <3>1, <3>2, <3>3, <3>4
  <2> QED  BY <1>2, <2>4, <2>5 DEF VisitTrack
<1>3. CASE WriteBoxInfo \/ WriteEntry
  <2>1. /\ pc = "sync" /\ step \in Kinds
        /\ walk \in Seq(Handles) /\ walk # <<>> /\ Head(walk) \in Handles
        /\ UNCHANGED <<type, list, samples>>
        /\ \A g \in Handles, k \in Kinds :
             /\ g # Head(walk) \/ k # step => written'[g][k] = written[g][k]
             /\ written'[g][k] = 0 => written[g][k] = 0
    BY <1>3, RecordSteps
  <2>2. /\ UnwrittenInOrder(walk)
        /\ \A i \in DOMAIN walk : walk[i] \in DOMAIN type
        /\ \A h \in DOMAIN type : (\E i \in DOMAIN walk : walk[i] = h) \/ Synced(h)
    BY <2>1 DEF WriterInv, WalkInOrder
  <2>3. \A h \in DOMAIN type : h # Head(walk) /\ Synced(h) => Synced(h)'
    BY <2>1, MuxType DEF Synced, Kinds
  <2>4. \A h \in Handles : written'[h]["trak"] = 0 => written[h]["trak"] = 0
    BY <2>1 DEF Kinds
  <2>5. Head(walk) = walk[1] /\ 1 \in DOMAIN walk
    BY <2>1, TailOf
  <2>6. CASE walk' = walk /\ step' # "header"
    <3>1. UnwrittenInOrder(walk)'
      BY <2>1, <2>2, <2>4, <2>6, StaysInOrder DEF UnwrittenInOrder
    <3> QED  BY <2>1, <2>2, <2>3, <2>5, <2>6, <3>1
  <2> DEFINE Logged ==
        /\ written'[Head(walk)]["trak"] # 0
        /\ written'[Head(walk)]["stsz"] = Len(samples[Head(walk)])
        /\ written'[Head(walk)]["stco"] = Len(samples[Head(walk)])
  <2>7. CASE walk' = Tail(walk) /\ step' = "track" /\ Logged
    <3>1. Tail(walk) \in Seq(Handles) /\ UnwrittenInOrder(Tail(walk))
      BY <2>1, <2>2, TailInOrder, TailOf
    <3>2. UnwrittenInOrder(walk)'
      BY <2>4, <2>7, <3>1, StaysInOrder DEF UnwrittenInOrder
    <3>3. \A i \in DOMAIN walk' : walk'[i] \in DOMAIN type'
      BY <2>1, <2>2, <2>7, TailOf
    <3>4. \A h \in DOMAIN type :
            (\E i \in DOMAIN walk' : walk'[i] = h) \/ h = Head(walk) \/ Synced(h)
      <4> SUFFICES ASSUME NEW h \in DOMAIN type, h # Head(walk), ~Synced(h)
                   PROVE  \E i \in DOMAIN Tail(walk) : Tail(walk)[i] = h
        BY <2>7
      <4>1. PICK i \in DOMAIN walk : walk[i] = h
        BY <2>2
      <4>2. i # 1
        BY <2>1, <4>1, TailOf
      <4>3. i - 1 \in DOMAIN Tail(walk) /\ Tail(walk)[i - 1] = h
        BY <2>1, <4>1, <4>2, TailOf
      <4> QED  BY <4>3
    <3>5. ASSUME NEW h \in DOMAIN type, h = Head(walk) PROVE Synced(h)'
      BY <2>1, <2>7, <3>5 DEF Synced
    <3> QED  BY <2>1, <2>3, <2>7, <3>2, <3>3, <3>4, <3>5
  <2>8. \/ walk' = walk /\ step' # "header"
        \/ walk' = Tail(walk) /\ step' = "track" /\ Logged
    <3>1. CASE UNCHANGED <<step, walk>>
      BY <2>1, <3>1 DEF Kinds
    <3>2. CASE /\ written'[Head(walk)][step] = Count(Head(walk), step)
               /\ step' = After(Head(walk), step)
               /\ walk' = IF step' = "track" THEN Tail(walk) ELSE walk
      <4>1. step' # "header"
        BY <2>1, <3>2 DEF After, Kinds
      <4> QED  BY <1>3, <3>2, <4>1, LeavesSynced
    <3> QED  BY <1>3, <3>1, <3>2, RecordSteps
  <2> QED  BY <2>6, <2>7, <2>8
<1> QED  BY <1>1, <1>2, <1>3, EntersSync

LEMMA StepStep ==
  ASSUME "write" \notin Faults, TInv, WriterInv, Next PROVE StepInOrder'
<1> SUFFICES ASSUME pc' = "sync", step' \in Kinds
             PROVE  /\ step' = "trak" <=> written'[Head(walk')]["trak"] = 0
                    /\ step' = "stco" => written'[Head(walk')]["stsz"]
                                           = Len(samples'[Head(walk')])
  BY DEF StepInOrder
<1>1. CASE \E write_tables \in BOOLEAN : BeginSync(write_tables)
  BY <1>1 DEF BeginSync, Kinds
<1>2. CASE VisitTrack
  BY <1>2 DEF VisitTrack, muxVars, Kinds
<1>3. CASE WriteBoxInfo \/ WriteEntry
  <2> DEFINE h == Head(walk)
  <2>1. /\ pc = "sync" /\ step \in Kinds /\ h \in Handles
        /\ samples' = samples
        /\ \A g \in Handles, k \in Kinds :
             g # h \/ k # step => written'[g][k] = written[g][k]
    BY <1>3, RecordSteps
  <2>2. /\ step = "trak" <=> written[h]["trak"] = 0
        /\ step = "stco" => written[h]["stsz"] = Len(samples[h])
    BY <2>1 DEF WriterInv, StepInOrder
  <2>3. CASE /\ UNCHANGED <<step, walk>>
             /\ UNCHANGED written \/ Count(h, step) # 1
    <3>1. step = "trak" => UNCHANGED written
      BY <2>3 DEF Count
    <3>2. step # "trak" => written'[h]["trak"] = written[h]["trak"]
      BY <2>1 DEF Kinds
    <3>3. step = "stco" => written'[h]["stsz"] = written[h]["stsz"]
      BY <2>1 DEF Kinds
    <3> QED  BY <2>1, <2>2, <2>3, <3>1, <3>2, <3>3
  <2>4. CASE /\ written'[h][step] = Count(h, step)
             /\ step' = After(h, step)
             /\ walk' = IF step' = "track" THEN Tail(walk) ELSE walk
    <3>1. step' # "trak" /\ walk' = walk
      BY <2>1, <2>4 DEF After, Kinds
    <3>2. written'[h]["trak"] # 0
      <4>1. CASE step = "trak"
        BY <2>4, <4>1 DEF Count
      <4>2. CASE step # "trak"
        BY <2>1, <2>2, <4>2 DEF Kinds
      <4> QED  BY <4>1, <4>2
    <3>3. step' = "stco" => written'[h]["stsz"] = Len(samples[h])
      <4>1. step' = "stco" => step = "stsz"
        BY <2>1, <2>4 DEF After, Kinds
      <4> QED  BY <2>4, <4>1 DEF Count
    <3> QED  BY <2>1, <3>1, <3>2, <3>3
  <2> QED  BY <1>3, <2>3, <2>4, RecordSteps
<1> QED  BY <1>1, <1>2, <1>3, EntersSync

LEMMA TablesStep ==
  ASSUME "write" \notin Faults, TInv, WriterInv, Next PROVE TablesSynced'
<1> SUFFICES ASSUME pc' = "tables"
             PROVE  \A h \in DOMAIN type' : written'[h]["trak"] # 0
  BY DEF TablesSynced
<1>1. WriteHeader
  <2>1. CASE AppNext
    BY <2>1 DEF AppNext, AddTrack, AddSample, AddSampleFails, Dump, BeginSync,
       BeginClose, RecoverStart, Finalize
  <2>2. CASE MuxNext
    BY <2>2 DEF MuxNext, VisitTrack, WriteBoxInfo, WriteEntry, SyncTables,
       SyncTablesSkipped, EndClose
  <2>3. CASE RecoveryNext
    BY <2>3 DEF RecoveryNext, ReadDone, ReadBoxInfo, ReadEntry,
       ReadMissingEntry, Trim, Rewrite, Misaligned, Fail, Minor, Fatal, Go
  <2>4. CASE FaultNext
    BY <2>4 DEF FaultNext, WriteFails, ShortBoxInfoUnseen, Crash, PowerLoss
  <2> QED  BY <2>1, <2>2, <2>3, <2>4 DEF Next
<1>2. pc = "sync" /\ step = "header" /\ UNCHANGED <<type, written>>
  BY <1>1 DEF WriteHeader, muxVars
<1>3. walk = <<>> /\ \A h \in DOMAIN type :
        (\E i \in DOMAIN walk : walk[i] = h) \/ Synced(h)
  BY <1>2 DEF WriterInv, WalkInOrder
<1> QED  BY <1>2, <1>3 DEF Synced

-----------------------------------------------------------------------------
(* The tracks come into the log in the order of their handles, each before *)
(* all else of it, so that a reader that counts them gives each its handle.*)

(* With no record open, what counts as written is in the log. *)
LEMMA LoggedBefore ==
  ASSUME TInv, LogShape, pc \in InMux, open = FALSE,
         NEW h \in Handles, NEW k \in Kinds, written[h][k] # 0
  PROVE  \E i \in DOMAIN log :
           OfTable(log[i], h, k) /\ Upto(log[i]) = written[h][k] + 1
  BY DEF LogShape, WrittenIsLogged

LEMMA NextTrack ==
  ASSUME TInv, LogShape, WriterInv, pc = "sync", open = FALSE,
         step = "trak", Head(walk) # 1
  PROVE  \E i \in DOMAIN log : OfTable(log[i], Head(walk) - 1, "trak")
<1> DEFINE h == Head(walk)
<1>0. /\ step \in Kinds /\ walk \in Seq(Handles) /\ walk # <<>>
      /\ h \in Handles /\ h = walk[1] /\ 1 \in DOMAIN walk
      /\ "trak" \in Kinds /\ "sync" \in InMux
  BY AtTable, TailOf DEF Kinds, InMux
<1>1. written[h]["trak"] = 0
  BY <1>0 DEF WriterInv, StepInOrder
<1>2. /\ UnwrittenInOrder(walk)
      /\ h \in DOMAIN type
      /\ \A g \in DOMAIN type : (\E i \in DOMAIN walk : walk[i] = g) \/ Synced(g)
  BY <1>0 DEF WriterInv, WalkInOrder
<1>3. h - 1 \in DOMAIN type /\ h - 1 \in Handles /\ h \in Nat
  BY <1>0, <1>2, MuxType DEF Handles
<1>4. ~\E i \in DOMAIN walk : walk[i] = h - 1
  <2> SUFFICES ASSUME NEW i \in DOMAIN walk, walk[i] = h - 1 PROVE FALSE
    OBVIOUS
  <2>1. i # 1
    BY <1>0, <1>3
  <2>2. 1 < i
    BY <1>0, <2>1
  <2>3. h < h - 1
    BY <1>0, <1>1, <1>2, <2>2 DEF UnwrittenInOrder
  <2> QED  BY <1>3, <2>3
<1>5. written[h - 1]["trak"] # 0
  BY <1>2, <1>3, <1>4 DEF Synced
<1> QED  BY <1>0, <1>3, <1>5, LoggedBefore

LEMMA TracksStep ==
  ASSUME "write" \notin Faults, "power" \notin Faults,
         TInv, LogShape, WriterInv, Next
  PROVE  TracksInOrder'
<1>0. /\ log \in Seq(LogRecord) /\ Len(log) \in Nat /\ DOMAIN log = 1 .. Len(log)
      /\ TracksInOrder
  BY LogType DEF WriterInv
<1>1. CASE WriteBoxInfo
  <2> DEFINE h == Head(walk)
             n == Len(log)
             r == Record(h, step, "no")
  <2>0. /\ pc = "sync" /\ step \in Kinds /\ open = FALSE
        /\ log' = Append(log, r) /\ "no" \in Cuts
        /\ "sync" \in InMux /\ "trak" \in Kinds
    BY <1>1 DEF WriteBoxInfo, TInv, TypeOK, SyncTypeOK, Cuts, InMux, Kinds
  <2>1. /\ r \in LogRecord /\ r.h = h /\ r.kind = step /\ h \in Handles
        /\ written[h][step] \in Nat
    BY <2>0, RecordT, AtTable
  <2>2. r.number = Count(h, step) - written[h][step]
    BY DEF Record
  <2> HIDE DEF r
  <2>3. /\ DOMAIN log' = 1 .. n + 1 /\ log'[n + 1] = r
        /\ \A i \in 1 .. n : log'[i] = log[i]
    BY <1>0, <2>0, <2>1
  <2>4. step = "trak" <=> written[h]["trak"] = 0
    BY <2>0 DEF WriterInv, StepInOrder
  <2>5. IF r.kind = "trak"
        THEN /\ r.number = 1
             /\ \/ r.h = 1
                \/ \E i \in 1 .. n : OfTable(log[i], r.h - 1, "trak")
        ELSE \E i \in 1 .. n : OfTable(log[i], r.h, "trak")
    <3>1. CASE step = "trak"
      <4>1. r.number = 1
        BY <2>2, <2>4, <3>1 DEF Count
      <4> QED  BY <1>0, <2>0, <2>1, <3>1, <4>1, NextTrack
    <3>2. CASE step # "trak"
      BY <1>0, <2>0, <2>1, <2>4, <3>2, LoggedBefore
    <3> QED  BY <3>1, <3>2
  <2> SUFFICES ASSUME NEW j \in 1 .. n + 1
               PROVE  IF log'[j].kind = "trak"
                      THEN /\ log'[j].number = 1
                           /\ \/ log'[j].h = 1
                              \/ \E i \in 1 .. j - 1 :
                                   OfTable(log'[i], log'[j].h - 1, "trak")
                      ELSE \E i \in 1 .. j - 1 :
                             OfTable(log'[i], log'[j].h, "trak")
    BY <2>3 DEF TracksInOrder
  <2>6. CASE j \in 1 .. n
    <3>1. log'[j] = log[j] /\ \A i \in 1 .. j - 1 : log'[i] = log[i]
      BY <1>0, <2>3, <2>6
    <3> QED  BY <1>0, <2>6, <3>1 DEF TracksInOrder
  <2>7. CASE j = n + 1
    <3>1. 1 .. j - 1 = 1 .. n
      BY <1>0, <2>7
    <3> QED  BY <2>3, <2>5, <2>7, <3>1
  <2> QED  BY <1>0, <2>6, <2>7
<1>2. CASE WriteEntry
  <2> DEFINE n == Len(log)
             q == [log[n] EXCEPT !.got = log[n].got + 1]
  <2>0. /\ log' = [log EXCEPT ![n].got = @ + 1]
        /\ n \in DOMAIN log /\ log[n] \in LogRecord /\ log[n].got + 1 \in Nat
    BY <1>2, LogType DEF WriteEntry, TInv, OpenIsLast
  <2>1. /\ q.h = log[n].h /\ q.kind = log[n].kind
        /\ q.number = log[n].number
    BY <2>0, RecordGot
  <2> HIDE DEF q
  <2>2. /\ DOMAIN log' = DOMAIN log /\ log'[n] = q
        /\ \A i \in DOMAIN log : i # n => log'[i] = log[i]
    BY <1>0, <2>0 DEF q
  <2>3. \A i \in DOMAIN log : /\ log'[i].h = log[i].h
                              /\ log'[i].kind = log[i].kind
                              /\ log'[i].number = log[i].number
    BY <2>1, <2>2
  <2> SUFFICES ASSUME NEW j \in DOMAIN log
               PROVE  IF log'[j].kind = "trak"
                      THEN /\ log'[j].number = 1
                           /\ \/ log'[j].h = 1
                              \/ \E i \in 1 .. j - 1 :
                                   OfTable(log'[i], log'[j].h - 1, "trak")
                      ELSE \E i \in 1 .. j - 1 :
                             OfTable(log'[i], log'[j].h, "trak")
    BY <2>2 DEF TracksInOrder
  <2>4. \A i \in 1 .. j - 1 : i \in DOMAIN log
    BY <1>0
  <2>5. \A i \in 1 .. j - 1 : \A g, k : OfTable(log'[i], g, k)
                                           <=> OfTable(log[i], g, k)
    BY <2>3, <2>4 DEF OfTable
  <2> QED  BY <1>0, <2>3, <2>5 DEF TracksInOrder
<1>3. CASE \E truncate_file \in BOOLEAN : Finalize(truncate_file)
  BY <1>3 DEF Finalize, TracksInOrder
<1>4. CASE UNCHANGED log
  BY <1>0, <1>4 DEF TracksInOrder
<1> QED  BY <1>1, <1>2, <1>3, <1>4, LogSteps DEF WriteHeader

-----------------------------------------------------------------------------
(* What a sync acknowledged stays in the log and in the data file. *)

LEMMA AckedSteps ==
  ASSUME Next PROVE pc # "finalized" /\ (WriteHeader \/ UNCHANGED acked)
<1>1. CASE AppNext
  BY <1>1 DEF AppNext, AddTrack, AddSample, AddSampleFails, Dump, BeginSync,
     BeginClose, RecoverStart, Finalize, outVars
<1>2. CASE MuxNext
  BY <1>2 DEF MuxNext, VisitTrack, WriteBoxInfo, WriteEntry, WriteHeader,
     SyncTables, SyncTablesSkipped, EndClose, outVars
<1>3. CASE RecoveryNext
  BY <1>3 DEF RecoveryNext, ReadDone, ReadBoxInfo, ReadEntry,
     ReadMissingEntry, Trim, Rewrite, outVars
<1>4. CASE FaultNext
  BY <1>4 DEF FaultNext, WriteFails, ShortBoxInfoUnseen, Crash, PowerLoss,
     Rewriting, outVars
<1> QED  BY <1>1, <1>2, <1>3, <1>4 DEF Next

(* A sync adds to the log; it changes no entry that is in it. *)
LEMMA RecordsStay ==
  ASSUME TInv, WriteBoxInfo \/ WriteEntry
  PROVE  /\ UNCHANGED tablesSize
         /\ \A i \in DOMAIN log :
              /\ \A h, k : OfTable(log'[i], h, k) <=> OfTable(log[i], h, k)
              /\ Upto(log'[i]) = Upto(log[i])
<1>0. log \in Seq(LogRecord) /\ DOMAIN log = 1 .. Len(log) /\ Len(log) \in Nat
  BY LogType
<1>1. CASE WriteBoxInfo
  <2> DEFINE r == Record(Head(walk), step, "no")
  <2>1. log' = Append(log, r) /\ r \in LogRecord /\ UNCHANGED tablesSize
    BY <1>1, RecordT DEF WriteBoxInfo, Cuts
  <2> HIDE DEF r
  <2>2. \A i \in DOMAIN log : log'[i] = log[i]
    BY <1>0, <2>1
  <2> QED  BY <2>1, <2>2
<1>2. CASE WriteEntry
  <2> DEFINE n == Len(log)
             q == [log[n] EXCEPT !.got = log[n].got + 1]
  <2>0. /\ log' = [log EXCEPT ![n].got = @ + 1] /\ UNCHANGED tablesSize
        /\ n \in DOMAIN log /\ log[n] \in LogRecord /\ log[n].got + 1 \in Nat
    BY <1>2, LogType DEF WriteEntry, TInv, OpenIsLast
  <2>1. /\ q.h = log[n].h /\ q.kind = log[n].kind /\ q.first = log[n].first
        /\ q.number = log[n].number
    BY <2>0, RecordGot
  <2> HIDE DEF q
  <2>2. log'[n] = q /\ \A i \in DOMAIN log : i # n => log'[i] = log[i]
    BY <1>0, <2>0 DEF q
  <2>3. \A i \in DOMAIN log : /\ log'[i].h = log[i].h
                              /\ log'[i].kind = log[i].kind
                              /\ log'[i].first = log[i].first
                              /\ log'[i].number = log[i].number
    BY <2>1, <2>2
  <2> QED  BY <2>0, <2>3 DEF OfTable, Upto
<1> QED  BY <1>1, <1>2

LEMMA SamplesGrow ==
  ASSUME TInv, Next, NEW g \in Handles
  PROVE  \/ samples'[g] = samples[g]
         \/ \E size \in Sizes :
              /\ pc = "open" /\ pc' = "open"
              /\ samples'[g] = Append(samples[g], [off |-> pos, size |-> size])
              /\ eof' = Larger(eof, pos + size)
<1>1. CASE \E h \in Handles, size \in Sizes, sync \in BOOLEAN :
             AddSample(h, size, sync)
  <2>1. PICK h \in Handles, size \in Sizes, sync \in BOOLEAN :
               AddSample(h, size, sync)
    BY <1>1
  <2>2. samples \in [Handles -> Seq([off : Nat, size : Nat])]
    BY DEF TInv, TypeOK, MuxTypeOK
  <2> QED  BY <2>1, <2>2 DEF AddSample
<1>2. CASE UNCHANGED samples
  BY <1>2
<1> QED  BY <1>1, <1>2, TrackSteps DEF AddTrack

LEMMA AckedLoggedStep ==
  ASSUME "write" \notin Faults, "power" \notin Faults,
         TInv, TInv', LogShape, WriterInv, AckedLogged, Next
  PROVE  AckedLogged'
<1> SUFFICES ASSUME pc' # "finalized", NEW h \in Handles
             PROVE  /\ acked'[h] <= Len(samples'[h])
                    /\ acked'[h] > 0 =>
                         \A k \in {"stsz", "stco"} : \E i \in 1 .. tablesSize' :
                           OfTable(log'[i], h, k) /\ Upto(log'[i]) > acked'[h]
  BY DEF AckedLogged
<1>0. /\ pc # "finalized" /\ (WriteHeader \/ UNCHANGED acked)
      /\ Len(samples[h]) \in Nat /\ Len(samples'[h]) \in Nat
      /\ acked[h] \in Nat
      /\ tablesSize \in Nat /\ Len(log) \in Nat /\ DOMAIN log = 1 .. Len(log)
  <2>1. Len(samples[h]) \in Nat /\ Len(samples'[h]) \in Nat
    BY DEF TInv, TypeOK, MuxTypeOK
  <2>2. acked[h] \in Nat
    BY DEF TInv, TypeOK, OutTypeOK
  <2> QED  BY <2>1, <2>2, AckedSteps, LogType
<1>1. CASE WriteHeader
  <2>1. /\ acked'[h] = Len(samples[h]) /\ tablesSize' = Len(log)
        /\ UNCHANGED <<log, samples, written>>
        /\ pc = "sync" /\ step = "header" /\ open = FALSE
    BY <1>1 DEF WriteHeader, muxVars, TInv, OpenIsLast, TypeOK, SyncTypeOK,
       Kinds
  <2>2. walk = <<>> /\ \A g \in DOMAIN type :
          (\E i \in DOMAIN walk : walk[i] = g) \/ Synced(g)
    BY <2>1 DEF WriterInv, WalkInOrder
  <2>3. ASSUME acked'[h] > 0, NEW k \in {"stsz", "stco"}
        PROVE  \E i \in 1 .. tablesSize' :
                 OfTable(log'[i], h, k) /\ Upto(log'[i]) > acked'[h]
    <3>1. samples[h] # <<>>
      BY <2>1, <2>3
    <3>2. Synced(h)
      BY <2>2, <3>1 DEF WriterInv, SamplesHaveTracks
    <3>3. written[h][k] = Len(samples[h]) /\ written[h][k] # 0
      BY <2>1, <2>3, <3>2 DEF Synced
    <3>4. PICK i \in DOMAIN log :
            OfTable(log[i], h, k) /\ Upto(log[i]) = written[h][k] + 1
      BY <2>1, <3>3, LoggedBefore DEF Kinds, InMux
    <3>5. Upto(log[i]) > acked'[h]
      BY <1>0, <2>1, <3>3, <3>4
    <3> QED  BY <1>0, <2>1, <3>4, <3>5
  <2> QED  BY <1>0, <2>1, <2>3
<1>2. CASE UNCHANGED acked
  <2>1. acked[h] <= Len(samples[h]) /\ Len(samples[h]) <= Len(samples'[h])
    <3>1. samples[h] \in Seq([off : Nat, size : Nat]) /\ pos \in Nat
      BY MuxType DEF TInv, TypeOK, DataTypeOK
    <3>2. Len(samples[h]) <= Len(samples'[h])
      <4>1. CASE samples'[h] = samples[h]
        BY <1>0, <4>1
      <4>2. ASSUME NEW size \in Sizes,
                   samples'[h] = Append(samples[h], [off |-> pos, size |-> size])
            PROVE  Len(samples[h]) <= Len(samples'[h])
        <5>1. size \in Nat
          BY BoundsAssumption DEF BoundsAssumption
        <5>2. [off |-> pos, size |-> size] \in [off : Nat, size : Nat]
          BY <3>1, <5>1
        <5> QED  BY <1>0, <3>1, <4>2, <5>2
      <4> QED  BY <4>1, <4>2, SamplesGrow
    <3> QED  BY <1>0, <3>2 DEF AckedLogged
  <2>2. ASSUME acked'[h] > 0, NEW k \in {"stsz", "stco"}
        PROVE  \E i \in 1 .. tablesSize' :
                 OfTable(log'[i], h, k) /\ Upto(log'[i]) > acked'[h]
    <3>1. PICK i \in 1 .. tablesSize :
            OfTable(log[i], h, k) /\ Upto(log[i]) > acked[h]
      BY <1>0, <1>2, <2>2 DEF AckedLogged
    <3>2. i \in DOMAIN log
      BY <1>0 DEF LogShape, CommittedWhole
    <3>3. CASE WriteBoxInfo \/ WriteEntry
      BY <1>2, <3>1, <3>2, <3>3, RecordsStay
    <3>4. CASE UNCHANGED <<log, tablesSize>>
      BY <1>2, <3>1, <3>4
    <3>5. CASE WriteHeader
      BY <1>0, <1>2, <3>1, <3>2, <3>5 DEF WriteHeader
    <3> QED  BY <3>3, <3>4, <3>5, LogSteps DEF Finalize
  <2> QED  BY <1>0, <1>2, <2>1, <2>2
<1> QED  BY <1>0, <1>1, <1>2

-----------------------------------------------------------------------------
(* The entries and the samples that the log has are what a recovery reads  *)
(* and keeps.                                                              *)

LEMMA InLogged ==
  ASSUME NEW h, NEW k, NEW i
  PROVE  i \in LoggedEntries(h, k) <=>
           \E j \in 1 .. tablesSize :
             OfTable(log[j], h, k) /\ i \in 1 .. Upto(log[j]) - 1
  BY DEF LoggedEntries

LEMMA CommittedType ==
  ASSUME TInv, LogShape, "power" \notin Faults, NEW j \in 1 .. tablesSize
  PROVE  /\ j \in DOMAIN log /\ Upto(log[j]) \in Nat
         /\ log[j].kind \in {"stsz", "stco"} =>
              Upto(log[j]) <= Len(samples[log[j].h]) + 1
<1>1. j \in DOMAIN log /\ Whole(log[j])
  BY LogType DEF LogShape, CommittedWhole
<1>2. log[j].first \in Nat /\ log[j].number \in Nat /\ log[j].got = log[j].number
  BY <1>1, LogType DEF Whole
<1>3. log[j].kind \in {"stsz", "stco"} =>
        log[j].first + log[j].got <= Len(samples[log[j].h]) + 1
  BY <1>1 DEF TInv, LogInBounds
<1> QED  BY <1>1, <1>2, <1>3 DEF Upto

LEMMA LoggedType ==
  ASSUME TInv, LogShape, "power" \notin Faults,
         NEW h \in Handles, NEW k \in {"stsz", "stco"}
  PROVE  LoggedEntries(h, k) \subseteq 1 .. Len(samples[h])
<1> SUFFICES ASSUME NEW i \in LoggedEntries(h, k)
             PROVE  i \in 1 .. Len(samples[h])
  OBVIOUS
<1>1. PICK j \in 1 .. tablesSize :
        OfTable(log[j], h, k) /\ i \in 1 .. Upto(log[j]) - 1
  BY InLogged
<1>2. Upto(log[j]) \in Nat /\ Upto(log[j]) <= Len(samples[h]) + 1
  BY <1>1, CommittedType DEF OfTable
<1>3. Len(samples[h]) \in Nat
  BY MuxType
<1> QED  BY <1>1, <1>2, <1>3

LEMMA AckedAreLogged ==
  ASSUME TInv, LogShape, AckedLogged, "power" \notin Faults, pc # "finalized",
         NEW h \in Handles
  PROVE  acked[h] \in Nat /\ 1 .. acked[h] \subseteq LoggedSamples(h)
<1>1. acked[h] \in Nat
  BY DEF TInv, TypeOK, OutTypeOK
<1>2. ASSUME NEW i \in 1 .. acked[h], NEW k \in {"stsz", "stco"}
      PROVE  i \in LoggedEntries(h, k)
  <2>1. acked[h] > 0
    BY <1>1, <1>2
  <2>2. PICK j \in 1 .. tablesSize :
          OfTable(log[j], h, k) /\ Upto(log[j]) > acked[h]
    BY <2>1 DEF AckedLogged
  <2>3. i \in 1 .. Upto(log[j]) - 1
    BY <1>1, <2>2, CommittedType
  <2> QED  BY <2>2, <2>3, InLogged
<1> QED  BY <1>1, <1>2 DEF LoggedSamples

(* Behind the last record, a table has what the log has. *)
LEMMA LoggedIsRead ==
  ASSUME "power" \notin Faults, PrefixInv, ReadsOn, pc = "trim",
         NEW h \in Handles, NEW k \in Kinds
  PROVE  /\ DOMAIN rec[h][k] = LoggedEntries(h, k)
         /\ DOMAIN rec[h][k] = 1 .. Len(rec[h][k]) /\ Len(rec[h][k]) \in Nat
<1> DEFINE m == Len(rec[h][k])
<1>0. /\ ri = tablesSize + 1 /\ tablesSize \in Nat /\ TInv /\ LogShape
      /\ m \in Nat /\ DOMAIN rec[h][k] = 1 .. m
  BY ReadingType DEF ReadsOn, PrefixInv
<1>1. ~reading
  BY <1>0 DEF PrefixInv, RecShape, ReaderInLog
<1>2. /\ \A i \in 1 .. tablesSize : OfTable(log[i], h, k) => Upto(log[i]) <= m + 1
      /\ \/ m = 0
         \/ \E i \in 1 .. tablesSize : OfTable(log[i], h, k) /\ Upto(log[i]) = m + 1
  BY <1>0, <1>1 DEF PrefixInv, RecShape, RecFollowsLog
<1> HIDE DEF m
<1>3. ASSUME NEW i \in LoggedEntries(h, k) PROVE i \in 1 .. m
  <2>1. PICK j \in 1 .. tablesSize :
          OfTable(log[j], h, k) /\ i \in 1 .. Upto(log[j]) - 1
    BY <1>3, InLogged
  <2>2. Upto(log[j]) \in Nat /\ Upto(log[j]) <= m + 1
    BY <1>0, <1>2, <2>1, CommittedType
  <2> QED  BY <1>0, <2>1, <2>2
<1>4. ASSUME NEW i \in 1 .. m PROVE i \in LoggedEntries(h, k)
  <2>1. PICK j \in 1 .. tablesSize : OfTable(log[j], h, k) /\ Upto(log[j]) = m + 1
    BY <1>0, <1>2, <1>4
  <2>2. i \in 1 .. Upto(log[j]) - 1
    BY <1>0, <1>4, <2>1
  <2> QED  BY <2>1, <2>2, InLogged
<1> QED  BY <1>0, <1>3, <1>4 DEF m

LEMMA LoggedAreInFile ==
  ASSUME "power" \notin Faults, PrefixInv, LoggedInFile, ReadsOn, pc = "trim",
         NEW h \in Handles
  PROVE  /\ InFile(h) = LoggedSamples(h)
         /\ \A i \in InFile(h) :
              End(h, i) = samples[h][i].off + samples[h][i].size
         /\ Kept(h) \in Nat /\ InFile(h) = 1 .. Kept(h)
<1> DEFINE a == Len(rec[h]["stco"])
           b == Len(rec[h]["stsz"])
           m == Smaller(a, b)
<1>0. TInv /\ LogShape /\ rend = eof
  BY DEF PrefixInv, ReadsOn
<1>1. /\ a \in Nat /\ DOMAIN rec[h]["stco"] = 1 .. a
      /\ b \in Nat /\ DOMAIN rec[h]["stsz"] = 1 .. b
      /\ LoggedEntries(h, "stco") = 1 .. a /\ LoggedEntries(h, "stsz") = 1 .. b
  BY LoggedIsRead DEF Kinds
<1>2. m \in Nat /\ LoggedSamples(h) = 1 .. m
  <2> HIDE DEF a, b
  <2> QED  BY <1>1 DEF Smaller, LoggedSamples
<1>3. ASSUME NEW j \in 1 .. m
      PROVE  /\ End(h, j) = samples[h][j].off + samples[h][j].size
             /\ End(h, j) <= rend
  <2>1. j \in DOMAIN rec[h]["stco"] /\ j \in DOMAIN rec[h]["stsz"] /\ j # 0
    <3> HIDE DEF a, b
    <3> QED  BY <1>1 DEF Smaller
  <2>2. rec[h]["stco"][j] = j /\ rec[h]["stsz"][j] = j
    BY <2>1 DEF PrefixInv, RecShape, RecIsPrefix, Kinds
  <2>3. End(h, j) = samples[h][j].off + samples[h][j].size
    BY <2>1, <2>2 DEF End, OffsetOf, SizeOf
  <2>4. j \in LoggedSamples(h)
    BY <1>2
  <2>5. j \in 1 .. Len(samples[h])
    BY <1>0, <2>4, LoggedType DEF LoggedSamples
  <2>6. samples[h][j].off + samples[h][j].size <= eof
    BY <2>4, <2>5 DEF LoggedInFile
  <2> QED  BY <1>0, <2>3, <2>6
<1>4. InFile(h) = 1 .. m
  <2>1. \A i \in 1 .. m : \A j \in 1 .. i : j \in 1 .. m
    <3> HIDE DEF m
    <3> QED  BY <1>2
  <2> QED  BY <1>3, <2>1 DEF InFile
<1>5. Kept(h) = m
  <2> HIDE DEF m
  <2>1. Cardinality(1 .. m) = IF 1 > m THEN 0 ELSE m - 1 + 1
    BY <1>2, FS_Interval
  <2> QED  BY <1>2, <1>4, <2>1 DEF Kept
<1> QED  BY <1>2, <1>3, <1>4, <1>5

LEMMA AckedAreKept ==
  ASSUME "power" \notin Faults, PrefixInv, AckedLogged, LoggedInFile, ReadsOn,
         pc = "trim", NEW h \in Handles
  PROVE  acked[h] <= Kept(h)
<1>1. acked[h] \in Nat /\ 1 .. acked[h] \subseteq LoggedSamples(h)
  BY AckedAreLogged DEF PrefixInv
<1>2. Kept(h) \in Nat /\ LoggedSamples(h) = 1 .. Kept(h)
  BY LoggedAreInFile
<1>3. acked[h] = 0 \/ acked[h] \in 1 .. acked[h]
  BY <1>1
<1> QED  BY <1>1, <1>2, <1>3

LEMMA EofSteps ==
  ASSUME "power" \notin Faults, TInv, Next
  PROVE  eof' >= eof \/ Trim \/ pc' = "finalized"
<1>0. /\ eof \in Nat /\ pos \in Nat /\ MoovTail \in Nat
      /\ \A size \in Sizes : size \in Nat
  BY BoundsAssumption DEF BoundsAssumption, TInv, TypeOK, DataTypeOK
<1>1. CASE AppNext
  <2>1. CASE \E h \in Handles, size \in Sizes, sync \in BOOLEAN :
               AddSample(h, size, sync)
    BY <1>0, <2>1 DEF AddSample, Larger
  <2>2. CASE \E h \in Handles, size \in Sizes : AddSampleFails(h, size)
    <3>1. PICK h \in Handles, size \in Sizes : AddSampleFails(h, size)
      BY <2>2
    <3>2. PICK short \in 0 .. size - 1 : eof' = Larger(eof, pos + short)
      BY <3>1 DEF AddSampleFails
    <3> QED  BY <1>0, <3>2 DEF Larger
  <2>3. CASE \E truncate_file \in BOOLEAN : Finalize(truncate_file)
    BY <2>3 DEF Finalize
  <2> QED  BY <1>0, <1>1, <2>1, <2>2, <2>3 DEF AppNext, AddTrack, Dump,
           BeginSync, BeginClose, RecoverStart, dataVars
<1>2. CASE MuxNext
  <2>1. CASE EndClose
    BY <1>0, <2>1 DEF EndClose
  <2> QED  BY <1>0, <1>2, <2>1 DEF MuxNext, VisitTrack, WriteBoxInfo,
           WriteEntry, WriteHeader, SyncTables, SyncTablesSkipped, dataVars
<1>3. CASE RecoveryNext
  <2>1. CASE Rewrite
    BY <1>0, <2>1 DEF Rewrite
  <2> QED  BY SMTT(20), <1>0, <1>3, <2>1 DEF RecoveryNext, ReadDone, ReadBoxInfo,
           ReadEntry, ReadMissingEntry, dataVars
<1>4. CASE FaultNext
  <2>1. CASE Crash
    <3>1. eof' = eof \/ \E tail \in 0 .. MoovTail : eof' = eof + tail
      BY <2>1 DEF Crash
    <3> QED  BY <1>0, <3>1
  <2> QED  BY <1>0, <1>4, <2>1 DEF FaultNext, WriteFails,
           ShortBoxInfoUnseen, PowerLoss, dataVars
<1> QED  BY <1>1, <1>2, <1>3, <1>4 DEF Next

(* The log is left alone by what does not write to it. *)
LEMMA LoggedFrame ==
  ASSUME UNCHANGED <<log, tablesSize>>
  PROVE  /\ \A h, k : LoggedEntries(h, k)' = LoggedEntries(h, k)
         /\ \A h : LoggedSamples(h)' = LoggedSamples(h)
         /\ LoggedMovie' = LoggedMovie
<1>1. \A h, k : LoggedEntries(h, k)' = LoggedEntries(h, k)
  BY DEF LoggedEntries, OfTable, Upto
<1>2. \A h : LoggedSamples(h)' = LoggedSamples(h)
  BY <1>1 DEF LoggedSamples
<1> QED  BY <1>1, <1>2 DEF LoggedMovie

LEMMA LogChangesInMux ==
  ASSUME "write" \notin Faults, "power" \notin Faults, TInv, Next,
         pc' # "finalized"
  PROVE  pc \in InMux \/ UNCHANGED <<log, tablesSize>>
  BY LogSteps, RecordSteps DEF WriteHeader, Finalize, InMux

LEMMA LoggedInFileStep ==
  ASSUME "write" \notin Faults, "power" \notin Faults, ~Dumps,
         PrefixInv, LoggedInFile, ReadsOn, Next
  PROVE  LoggedInFile'
<1> SUFFICES ASSUME pc' # "finalized", NEW h \in Handles,
                    NEW i \in 1 .. Len(samples'[h]),
                    i \in LoggedSamples(h)' \/ pc' \in InMux
             PROVE  samples'[h][i].off + samples'[h][i].size <= eof'
  BY DEF LoggedInFile
<1>0. /\ TInv /\ pc # "finalized" /\ eof \in Nat /\ pos \in Nat
      /\ samples[h] \in Seq([off : Nat, size : Nat])
      /\ \A size \in Sizes : size \in Nat
  BY BoundsAssumption, MuxType, AckedSteps
     DEF BoundsAssumption, PrefixInv, TInv, TypeOK, DataTypeOK
<1>1. i \in LoggedSamples(h) \/ pc \in InMux
  BY <1>0, LogChangesInMux, LoggedFrame, InMuxSteps
<1>2. ASSUME i \in 1 .. Len(samples[h])
      PROVE  /\ samples[h][i].off + samples[h][i].size <= eof
             /\ samples[h][i].off + samples[h][i].size \in Nat
  <2>1. samples[h][i].off + samples[h][i].size <= eof
    BY <1>0, <1>1, <1>2 DEF LoggedInFile
  <2>2. samples[h][i] \in [off : Nat, size : Nat]
    <3>1. i \in DOMAIN samples[h]
      BY <1>0, <1>2
    <3> QED  BY <1>0, <3>1, ElementType
  <2> QED  BY <2>1, <2>2
<1>3. CASE samples'[h] = samples[h]
  <2>1. CASE eof' >= eof
    <3>1. eof' \in Nat
      BY <1>0, TInvStep DEF TInv, TypeOK, DataTypeOK
    <3> QED  BY <1>0, <1>2, <1>3, <2>1, <3>1
  <2>2. CASE Trim
    <3>1. pc = "trim" /\ i \in LoggedSamples(h)
      BY <1>1, <2>2 DEF Trim, InMux
    <3>3. i \in InFile(h) /\ End(h, i) = samples[h][i].off + samples[h][i].size
      BY <3>1, LoggedAreInFile
    <3>4. End(h, i) \in KeptEnds
      BY <3>3 DEF KeptEnds
    <3>5. \A e \in KeptEnds : e <= eof'
      BY <2>2 DEF Trim
    <3> QED  BY <1>3, <3>3, <3>4, <3>5
  <2> QED  BY <1>0, <2>1, <2>2, EofSteps
<1>4. ASSUME NEW size \in Sizes,
             samples'[h] = Append(samples[h], [off |-> pos, size |-> size]),
             eof' = Larger(eof, pos + size)
      PROVE  samples'[h][i].off + samples'[h][i].size <= eof'
  <2> DEFINE e == [off |-> pos, size |-> size]
  <2>1. /\ e \in [off : Nat, size : Nat] /\ e.off = pos /\ e.size = size
        /\ size \in Nat
    BY <1>0
  <2>2. \/ samples'[h][i] = e
        \/ i \in 1 .. Len(samples[h]) /\ samples'[h][i] = samples[h][i]
    <3> HIDE DEF e
    <3>1. samples'[h] = Append(samples[h], e)
      BY <1>4 DEF e
    <3>2. i = Len(samples[h]) + 1 \/ i \in 1 .. Len(samples[h])
      BY <1>0, <2>1, <3>1
    <3>3. CASE i = Len(samples[h]) + 1
      BY <1>0, <2>1, <3>1, <3>3
    <3>4. CASE i \in 1 .. Len(samples[h])
      BY <1>0, <2>1, <3>1, <3>4
    <3> QED  BY <3>2, <3>3, <3>4
  <2>3. eof' >= eof /\ eof' >= pos + size /\ eof' \in Nat
    BY <1>0, <1>4, <2>1 DEF Larger
  <2> HIDE DEF e
  <2>4. CASE samples'[h][i] = e
    BY <1>0, <2>1, <2>3, <2>4
  <2>5. CASE i \in 1 .. Len(samples[h]) /\ samples'[h][i] = samples[h][i]
    <3> DEFINE z == samples[h][i].off + samples[h][i].size
    <3>1. z <= eof /\ z \in Nat
      BY <1>2, <2>5
    <3>2. samples'[h][i].off + samples'[h][i].size = z
      BY <2>5
    <3> HIDE DEF z
    <3> QED  BY <1>0, <2>3, <3>1, <3>2
  <2> QED  BY <2>2, <2>4, <2>5
<1> QED  BY <1>0, <1>3, <1>4, SamplesGrow

-----------------------------------------------------------------------------
(* The reader comes upon no record it cannot read: it leaves the parsing   *)
(* only at the end of the log.                                             *)

LEMMA RecordIsWhole ==
  ASSUME "power" \notin Faults, PrefixInv, pc = "parse", ri <= tablesSize
  PROVE  /\ ri \in DOMAIN log /\ ri \in 1 .. Len(log) /\ Cur = log[ri]
         /\ Cur \in LogRecord /\ Cur.h \in Nat /\ Cur.number \in Nat
         /\ Cur.cut = "no" /\ Cur.got = Cur.number
<1>1. /\ ri \in Nat \ {0} /\ tablesSize \in Nat /\ Len(log) \in Nat
      /\ DOMAIN log = 1 .. Len(log) /\ log \in Seq(LogRecord)
  BY ReadingType, LogType DEF PrefixInv
<1>2. tablesSize <= Len(log) /\ \A i \in 1 .. tablesSize : Whole(log[i])
  BY DEF PrefixInv, LogShape, CommittedWhole
<1>3. ri \in 1 .. Len(log) /\ Whole(log[ri])
  BY <1>1, <1>2
<1>4. log[ri] \in LogRecord
  BY <1>1, <1>3, ElementType
<1>5. log[ri].h \in Nat /\ log[ri].number \in Nat
  BY <1>4, BoundsAssumption DEF LogRecord, Handles, BoundsAssumption
<1> QED  BY <1>1, <1>3, <1>4, <1>5 DEF Cur, Whole

LEMMA TrackIsKnown ==
  ASSUME "power" \notin Faults, PrefixInv, WriterInv, ReadsOn,
         pc = "parse", ri <= tablesSize
  PROVE  /\ Cur.h <= rcount + (IF Cur.kind = "trak" THEN 1 ELSE 0)
         /\ Cur.kind = "trak" => Cur.number = 1
<1>0. rcount \in Nat
  BY ReadingType DEF PrefixInv
<1>1. /\ ri \in DOMAIN log /\ Cur = log[ri] /\ Cur.h \in Nat
      /\ \A i \in 1 .. ri - 1 : log[i].kind = "trak" => log[i].h <= rcount
  BY RecordIsWhole DEF ReadsOn
<1>2. CASE Cur.kind = "trak"
  <2>1. /\ Cur.number = 1
        /\ \/ Cur.h = 1
           \/ \E i \in 1 .. ri - 1 : OfTable(log[i], Cur.h - 1, "trak")
    BY <1>1, <1>2 DEF WriterInv, TracksInOrder
  <2>2. Cur.h = 1 \/ Cur.h - 1 <= rcount
    BY <1>1, <2>1 DEF OfTable
  <2> QED  BY <1>0, <1>1, <1>2, <2>1, <2>2
<1>3. CASE Cur.kind # "trak"
  <2>1. \E i \in 1 .. ri - 1 : OfTable(log[i], Cur.h, "trak")
    BY <1>1, <1>3 DEF WriterInv, TracksInOrder
  <2> QED  BY <1>0, <1>1, <1>3, <2>1 DEF OfTable
<1> QED  BY <1>2, <1>3

LEMMA BoxInfoIsRead ==
  ASSUME "power" \notin Faults, PrefixInv, WriterInv, ReadsOn, ReadBoxInfo
  PROVE  /\ pc' = "parse" /\ UNCHANGED <<rcount, errorMsg>>
         /\ \/ ri' = ri + 1 /\ Cur.kind # "trak"
            \/ ri' = ri
<1>1. pc = "parse" /\ ri <= tablesSize
  BY DEF ReadBoxInfo
<1>2. /\ ri \in 1 .. Len(log) /\ Cur.cut = "no" /\ Cur.h \in Nat
      /\ rcount \in Nat /\ ri \in Nat /\ Len(log) \in Nat
  BY <1>1, RecordIsWhole, ReadingType DEF PrefixInv
<1>3. /\ Cur.h <= rcount + (IF Cur.kind = "trak" THEN 1 ELSE 0)
      /\ Cur.kind = "trak" => Cur.number = 1
  BY <1>1, TrackIsKnown
<1>4. ~(ri > Len(log)) /\ Cur.cut # "head"
  BY <1>2
<1>5. ~(Cur.h > rcount + (IF Cur.kind = "trak" THEN 1 ELSE 0))
  BY <1>2, <1>3
<1>6. /\ Go /\ UNCHANGED rcount
      /\ IF Cur.number = 0 THEN NextRecord
         ELSE reading' = TRUE /\ UNCHANGED <<ri, rj>>
  BY <1>4, <1>5 DEF ReadBoxInfo
<1> QED  BY <1>3, <1>6 DEF Go, NextRecord

LEMMA NothingMissing ==
  ASSUME "power" \notin Faults, PrefixInv PROVE ~ReadMissingEntry
<1> SUFFICES ASSUME ReadMissingEntry PROVE FALSE
  OBVIOUS
<1>1. /\ pc = "parse" /\ rj >= Cur.got
      /\ ri <= tablesSize /\ rj < Cur.number
  BY DEF ReadMissingEntry, PrefixInv, RecShape, ReaderInLog
<1>2. Cur.got = Cur.number /\ Cur.number \in Nat /\ rj \in Nat
  BY <1>1, RecordIsWhole, ReadingType DEF PrefixInv
<1> QED  BY <1>1, <1>2

LEMMA EntersParser ==
  ASSUME Next, pc' \in {"parse", "trim"}
  PROVE  RecoverStart \/ ReadDone \/ ReadBoxInfo \/ ReadEntry \/ ReadMissingEntry
<1>1. CASE AppNext
  BY <1>1 DEF AppNext, AddTrack, AddSample, AddSampleFails, Dump, BeginSync,
     BeginClose, Finalize
<1>2. CASE MuxNext
  BY <1>2 DEF MuxNext, VisitTrack, WriteBoxInfo, WriteEntry, WriteHeader,
     SyncTables, SyncTablesSkipped, EndClose
<1>3. CASE RecoveryNext
  BY <1>3 DEF RecoveryNext, Trim, Rewrite
<1>4. CASE FaultNext
  BY <1>4 DEF FaultNext, WriteFails, ShortBoxInfoUnseen, Crash, PowerLoss
<1> QED  BY <1>1, <1>2, <1>3, <1>4 DEF Next

LEMMA ReadsOnStep ==
  ASSUME "power" \notin Faults, PrefixInv, WriterInv, ReadsOn, Next
  PROVE  ReadsOn'
<1> SUFFICES ASSUME pc' \in {"parse", "trim"}
             PROVE  /\ ~errorMsg'
                    /\ ri' <= tablesSize' + 1
                    /\ \A i \in 1 .. ri' - 1 :
                         log'[i].kind = "trak" => log'[i].h <= rcount'
                    /\ pc' = "trim" => ri' = tablesSize' + 1
                    /\ rend' = eof'
  BY DEF ReadsOn
<1>0. /\ ri \in Nat \ {0} /\ tablesSize \in Nat /\ rcount \in Nat
      /\ pc \in {"parse", "trim"} =>
           /\ ~errorMsg /\ ri <= tablesSize + 1 /\ rend = eof
           /\ \A i \in 1 .. ri - 1 : log[i].kind = "trak" => log[i].h <= rcount
  BY ReadingType DEF PrefixInv, ReadsOn
<1>1. rend' = eof'
  BY <1>0, ParserLeavesFile
<1>2. CASE RecoverStart
  <2>1. /\ pc' = "parse" /\ errorMsg' = FALSE /\ ri' = 1
        /\ tablesSize' = tablesSize
    BY <1>2 DEF RecoverStart, logVars
  <2> QED  BY <1>0, <1>1, <2>1
<1>3. CASE ReadDone
  <2>1. /\ pc = "parse" /\ ri > tablesSize
        /\ UNCHANGED <<ri, errorMsg, rcount, log, tablesSize>>
    BY <1>3 DEF ReadDone, Minor, Stay, logVars
  <2> QED  BY <1>0, <1>1, <2>1
<1>4. CASE ReadBoxInfo
  <2>1. pc = "parse" /\ ri <= tablesSize /\ UNCHANGED <<log, tablesSize>>
    BY <1>4 DEF ReadBoxInfo, logVars
  <2>2. /\ pc' = "parse" /\ UNCHANGED <<rcount, errorMsg>>
        /\ \/ ri' = ri + 1 /\ Cur.kind # "trak"
           \/ ri' = ri
    BY <1>4, BoxInfoIsRead
  <2>3. CASE ri' = ri
    BY <1>0, <1>1, <2>1, <2>2, <2>3
  <2>4. CASE ri' = ri + 1 /\ Cur.kind # "trak"
    <3>1. \A i \in 1 .. ri' - 1 : i \in 1 .. ri - 1 \/ i = ri
      BY <1>0, <2>4
    <3> QED  BY <1>0, <1>1, <2>1, <2>2, <2>4, <3>1 DEF Cur
  <2> QED  BY <2>2, <2>3, <2>4
<1>5. CASE ReadEntry
  <2>1. /\ pc = "parse" /\ pc' = "parse" /\ reading
        /\ UNCHANGED <<log, tablesSize, errorMsg>>
        /\ rcount' = IF Cur.kind = "trak" THEN Larger(rcount, Cur.h) ELSE rcount
        /\ ri' = ri + 1 \/ ri' = ri
    BY <1>5 DEF ReadEntry, Go, NextRecord, logVars
  <2>2. ri <= tablesSize
    BY <2>1 DEF PrefixInv, RecShape, ReaderInLog
  <2>3. Cur = log[ri] /\ Cur.h \in Nat
    BY <2>1, <2>2, RecordIsWhole
  <2>4. /\ rcount' >= rcount /\ rcount' \in Nat
        /\ Cur.kind = "trak" => Cur.h <= rcount'
    BY <1>0, <2>1, <2>3 DEF Larger
  <2>5. \A i \in 1 .. ri - 1 : log[i].kind = "trak" => log[i].h <= rcount'
    <3> SUFFICES ASSUME NEW i \in 1 .. ri - 1, log[i].kind = "trak"
                 PROVE  log[i].h <= rcount'
      OBVIOUS
    <3>1. i \in DOMAIN log /\ log[i].h <= rcount
      BY <1>0, <2>1, <2>2, RecordIsWhole, LogType DEF PrefixInv
    <3>2. log[i].h \in Nat
      BY <3>1, LogType, BoundsAssumption
         DEF PrefixInv, Handles, BoundsAssumption
    <3> QED  BY <1>0, <2>4, <3>1, <3>2
  <2>6. \A i \in 1 .. ri' - 1 : i \in 1 .. ri - 1 \/ i = ri
    BY <1>0, <2>1
  <2>7. \A i \in 1 .. ri' - 1 : log'[i].kind = "trak" => log'[i].h <= rcount'
    BY <2>1, <2>3, <2>4, <2>5, <2>6
  <2> QED  BY <1>0, <1>1, <2>1, <2>2, <2>7
<1> QED  BY <1>2, <1>3, <1>4, <1>5, EntersParser, NothingMissing

-----------------------------------------------------------------------------
(* The movie that a close or a recovery ends in. *)

LEMMA TrimsFirst ==
  ASSUME "power" \notin Faults, PrefixInv, WriterInv, ReadsOn, Next,
         pc' = "rewrite"
  PROVE  Trim
<1>1. CASE AppNext
  BY <1>1 DEF AppNext, AddTrack, AddSample, AddSampleFails, Dump, BeginSync,
     BeginClose, RecoverStart, Finalize
<1>2. CASE MuxNext
  BY <1>2 DEF MuxNext, VisitTrack, WriteBoxInfo, WriteEntry, WriteHeader,
     SyncTables, SyncTablesSkipped, EndClose
<1>3. CASE RecoveryNext
  BY <1>3, BoxInfoIsRead, NothingMissing DEF RecoveryNext, ReadDone, Minor,
     ReadEntry, Go, Rewrite
<1>4. CASE FaultNext
  BY <1>4 DEF FaultNext, WriteFails, ShortBoxInfoUnseen, Crash, PowerLoss
<1> QED  BY <1>1, <1>2, <1>3, <1>4 DEF Next

LEMMA RewritesAckedStep ==
  ASSUME "power" \notin Faults,
         PrefixInv, WriterInv, AckedLogged, LoggedInFile, ReadsOn, Next
  PROVE  RewritesAcked'
<1> SUFFICES ASSUME pc' = "rewrite"
             PROVE  /\ ~errorMsg'
                    /\ \A h \in Handles :
                         /\ acked'[h] <= Len(rec'[h]["stsz"])
                         /\ Len(rec'[h]["stco"]) = Len(rec'[h]["stsz"])
  BY DEF RewritesAcked
<1>1. Trim
  BY TrimsFirst
<1>2. pc = "trim" /\ UNCHANGED <<acked, errorMsg>>
  BY <1>1 DEF Trim, outVars
<1>3. ~errorMsg'
  BY <1>2 DEF ReadsOn
<1>4. ASSUME NEW h \in Handles
      PROVE  /\ acked'[h] <= Len(rec'[h]["stsz"])
             /\ Len(rec'[h]["stco"]) = Len(rec'[h]["stsz"])
  <2>1. Len(rec'[h]["stsz"]) = Kept(h) /\ Len(rec'[h]["stco"]) = Kept(h)
    BY <1>1, TrimLengths DEF PrefixInv
  <2>2. acked[h] <= Kept(h)
    BY <1>2, AckedAreKept
  <2> QED  BY <1>2, <2>1, <2>2
<1> QED  BY <1>3, <1>4

(* The moov of the tables in memory has every sample. *)
LEMMA MemoryIsWhole ==
  ASSUME TInv, NEW h \in Handles, NEW k \in {"stsz", "stco"}
  PROVE  Len(Moov(MemoryTables)[h][k]) = Len(samples[h])
<1> DEFINE n == Len(samples[h])
           t == [i \in 1 .. n |-> i]
<1>1. n \in Nat
  BY MuxType
<1>2. \A j \in {"stsz", "stco"} : MemoryTables[h][j] = t
  BY DEF MemoryTables, Count, Kinds
<1> HIDE DEF n
<1>3. Len(t) = n /\ (t = <<>> => n = 0)
  BY <1>1
<1> HIDE DEF t
<1>4. Moov(MemoryTables)[h][k] = IF t = <<>> THEN <<>> ELSE t
  BY <1>2 DEF Moov, MoovKinds
<1>5. Len(<<>>) = 0
  OBVIOUS
<1> QED  BY <1>3, <1>4, <1>5 DEF n

LEMMA EntersClosed == ASSUME Next, pc' = "closed" PROVE EndClose
<1>1. CASE AppNext
  BY <1>1 DEF AppNext, AddTrack, AddSample, AddSampleFails, Dump, BeginSync,
     BeginClose, RecoverStart, Finalize
<1>2. CASE MuxNext
  BY <1>2 DEF MuxNext, VisitTrack, WriteBoxInfo, WriteEntry, WriteHeader,
     SyncTables, SyncTablesSkipped
<1>3. CASE RecoveryNext
  BY <1>3 DEF RecoveryNext, ReadDone, ReadBoxInfo, ReadEntry,
     ReadMissingEntry, Trim, Rewrite, Misaligned, Fail, Minor, Fatal, Go
<1>4. CASE FaultNext
  BY <1>4 DEF FaultNext, WriteFails, ShortBoxInfoUnseen, Crash, PowerLoss
<1> QED  BY <1>1, <1>2, <1>3, <1>4 DEF Next

LEMMA NoAckedLossStep ==
  ASSUME TInv, AckedLogged, RewritesAcked, Next PROVE NoAckedLoss'
<1> SUFFICES ASSUME pc' \in {"closed", "done"}, NEW h \in Handles,
                    NEW k \in {"stsz", "stco"}
             PROVE  acked'[h] <= Len(movie'[h][k])
  BY DEF NoAckedLoss
<1>1. CASE pc' = "closed"
  <2>1. EndClose
    BY <1>1, EntersClosed
  <2>2. movie' = Moov(MemoryTables) /\ acked' = acked /\ pc # "finalized"
    BY <2>1 DEF EndClose
  <2>3. acked[h] <= Len(samples[h])
    BY <2>2 DEF AckedLogged
  <2> QED  BY <2>2, <2>3, MemoryIsWhole
<1>2. CASE pc' = "done"
  <2>1. Rewrite
    BY <1>2, EntersDone
  <2>2. pc = "rewrite" /\ movie' = Moov(rec) /\ acked' = acked
    BY <2>1 DEF Rewrite
  <2>3. /\ acked[h] <= Len(rec[h]["stsz"])
        /\ Len(rec[h]["stco"]) = Len(rec[h]["stsz"])
    BY <2>2 DEF RewritesAcked
  <2>4. movie'[h][k] = IF rec[h]["stsz"] = <<>> THEN <<>> ELSE rec[h][k]
    BY <2>2 DEF Moov, MoovKinds
  <2> QED  BY <2>2, <2>3, <2>4
<1> QED  BY <1>1, <1>2

-----------------------------------------------------------------------------
(* Every recovery ends in the movie of the log. *)

LEMMA CountingSeq ==
  ASSUME NEW s \in Seq(Nat), \A i \in DOMAIN s : s[i] = i
  PROVE  /\ s = [i \in DOMAIN s |-> i]
         /\ s = <<>> <=> DOMAIN s = {}
<1>1. s \in [1 .. Len(s) -> Nat] /\ DOMAIN s = 1 .. Len(s) /\ Len(s) \in Nat
  OBVIOUS
<1>2. s = [i \in DOMAIN s |-> s[i]]
  BY <1>1
<1>3. DOMAIN s = {} => Len(s) = 0
  BY <1>1
<1> QED  BY <1>1, <1>2, <1>3

LEMMA RewritesLoggedStep ==
  ASSUME "power" \notin Faults, TInv', RecShape',
         PrefixInv, WriterInv, LoggedInFile, ReadsOn, Next
  PROVE  RewritesLogged'
<1> SUFFICES ASSUME pc' = "rewrite" PROVE Moov(rec)' = LoggedMovie'
  BY DEF RewritesLogged
<1>1. Trim
  BY TrimsFirst
<1>2. pc = "trim" /\ UNCHANGED <<log, tablesSize>> /\ rec' = Trimmed /\ TInv
  BY <1>1 DEF Trim, logVars, PrefixInv
<1>3. LoggedMovie' = LoggedMovie
  BY <1>2, LoggedFrame
<1>4. ASSUME NEW h \in Handles, NEW k \in Kinds
      PROVE  /\ rec'[h][k] = [i \in DOMAIN rec'[h][k] |-> i]
             /\ rec'[h][k] = <<>> <=> DOMAIN rec'[h][k] = {}
  <2>1. rec'[h][k] \in Seq(Nat)
    BY DEF TInv, TypeOK, RecTypeOK
  <2>2. \A i \in DOMAIN rec'[h][k] : rec'[h][k][i] = i
    BY DEF RecShape, RecIsPrefix
  <2> QED  BY <2>1, <2>2, CountingSeq
<1>5. ASSUME NEW h \in Handles, NEW k \in MoovKinds
      PROVE  (IF rec'[h]["stsz"] = <<>> THEN <<>> ELSE rec'[h][k])
               = LoggedMovie[h][k]
  <2>0. k \in Kinds /\ "stsz" \in Kinds
    BY DEF MoovKinds, Kinds
  <2>1. /\ DOMAIN rec'[h]["stsz"] = LoggedSamples(h)
        /\ DOMAIN rec'[h]["stco"] = LoggedSamples(h)
    BY <1>1, <1>2, TrimLengths, LoggedAreInFile
  <2>2. k = "stss" => DOMAIN rec'[h][k] = LoggedEntries(h, k)
    <3>1. k = "stss" => rec'[h][k] = rec[h][k]
      BY <1>2, <2>0 DEF Trimmed
    <3> QED  BY <1>2, <2>0, <3>1, LoggedIsRead
  <2>3. rec'[h]["stsz"] = <<>> <=> LoggedSamples(h) = {}
    BY <1>4, <2>0, <2>1
  <2>4. rec'[h][k] = [i \in IF k = "stss" THEN LoggedEntries(h, k)
                             ELSE LoggedSamples(h) |-> i]
    BY <1>4, <2>0, <2>1, <2>2 DEF MoovKinds
  <2> QED  BY <2>3, <2>4 DEF LoggedMovie
<1>6. Moov(rec)' = [h \in Handles |-> [k \in MoovKinds |->
                      IF rec'[h]["stsz"] = <<>> THEN <<>> ELSE rec'[h][k]]]
  BY DEF Moov
<1>7. LoggedMovie = [h \in Handles |-> [k \in MoovKinds |-> LoggedMovie[h][k]]]
  BY DEF LoggedMovie
<1> QED  BY <1>3, <1>5, <1>6, <1>7

LEMMA RecoveredSteps == ASSUME Next PROVE Rewrite \/ UNCHANGED recovered
<1>1. CASE AppNext
  BY <1>1 DEF AppNext, AddTrack, AddSample, AddSampleFails, Dump, BeginSync,
     BeginClose, RecoverStart, Finalize, outVars
<1>2. CASE MuxNext
  BY <1>2 DEF MuxNext, VisitTrack, WriteBoxInfo, WriteEntry, WriteHeader,
     SyncTables, SyncTablesSkipped, EndClose, outVars
<1>3. CASE RecoveryNext
  BY <1>3 DEF RecoveryNext, ReadDone, ReadBoxInfo, ReadEntry,
     ReadMissingEntry, Trim, outVars
<1>4. CASE FaultNext
  BY <1>4 DEF FaultNext, WriteFails, ShortBoxInfoUnseen, Crash, PowerLoss,
     outVars
<1> QED  BY <1>1, <1>2, <1>3, <1>4 DEF Next

LEMMA RecoveredIsLoggedStep ==
  ASSUME "write" \notin Faults, "power" \notin Faults, ~Dumps,
         TInv, RewritesLogged, RecoveredIsLogged, Next
  PROVE  RecoveredIsLogged'
<1> SUFFICES ASSUME recovered' # NoMovie, pc' # "finalized"
             PROVE  pc' \notin InMux /\ recovered' = LoggedMovie'
  BY DEF RecoveredIsLogged
<1>1. CASE Rewrite
  <2>1. /\ pc = "rewrite" /\ pc' = "done" /\ recovered' = Moov(rec)
        /\ UNCHANGED <<log, tablesSize>>
    BY <1>1 DEF Rewrite, logVars
  <2> QED  BY <2>1, LoggedFrame DEF RewritesLogged, InMux
<1>2. CASE UNCHANGED recovered
  <2>1. pc \notin InMux /\ recovered = LoggedMovie
    BY <1>2, AckedSteps DEF RecoveredIsLogged
  <2>2. pc' \notin InMux
    BY <2>1, InMuxSteps
  <2> QED  BY <1>2, <2>1, <2>2, LogChangesInMux, LoggedFrame
<1> QED  BY <1>1, <1>2, RecoveredSteps

-----------------------------------------------------------------------------
LEMMA CrashInit == Init => CrashInv
<1> SUFFICES ASSUME Init PROVE CrashInv
  OBVIOUS
<1>1. /\ pc = "open" /\ type = <<>> /\ list = <<>> /\ log = <<>>
      /\ samples = [h \in Handles |-> <<>>] /\ acked = [h \in Handles |-> 0]
  BY DEF Init
<1>2. WriterInv
  BY <1>1 DEF WriterInv, TracksInOrder, SamplesHaveTracks, ListHasTracks,
     ListInOrder, UnwrittenInOrder, WalkInOrder, StepInOrder, TablesSynced
<1>3. AckedLogged /\ LoggedInFile
  BY <1>1 DEF AckedLogged, LoggedInFile
<1>4. ReaderInv
  <2>1. pc = "open" /\ recovered = NoMovie
    BY DEF Init
  <2> QED  BY <2>1 DEF ReaderInv, ReadsOn, RewritesAcked, NoAckedLoss,
           RewritesLogged, RecoveredIsLogged
<1> QED  BY <1>2, <1>3, <1>4, PrefixInit DEF CrashInv

LEMMA CrashQuiet == ASSUME CrashInv, PrefixInv', UNCHANGED vars PROVE CrashInv'
<1>1. /\ UNCHANGED pc
      /\ UNCHANGED <<type, list, samples, syncs, ttsCount, written>>
      /\ UNCHANGED <<walk, step, open, eof, log, tablesSize>>
      /\ UNCHANGED <<rcount, rec, ri, rj, reading, rend, errorMsg>>
      /\ UNCHANGED <<movie, recovered, acked>>
  BY DEF vars, muxVars, syncVars, dataVars, logVars, recVars, outVars
<1>2. WriterInv'
  <2>1. TracksInOrder' /\ SamplesHaveTracks' /\ ListHasTracks'
    BY <1>1 DEF CrashInv, WriterInv, TracksInOrder, SamplesHaveTracks,
       ListHasTracks
  <2>2. ListInOrder'
    BY <1>1 DEF CrashInv, WriterInv, ListInOrder, UnwrittenInOrder
  <2>3. WalkInOrder'
    BY <1>1 DEF CrashInv, WriterInv, WalkInOrder, UnwrittenInOrder, Synced
  <2>4. StepInOrder' /\ TablesSynced'
    BY <1>1 DEF CrashInv, WriterInv, StepInOrder, TablesSynced
  <2> QED  BY <2>1, <2>2, <2>3, <2>4 DEF WriterInv
<1>3. AckedLogged' /\ LoggedInFile'
  BY <1>1, LoggedFrame DEF CrashInv, AckedLogged, LoggedInFile
<1>4. ReaderInv'
  <2>1. ReadsOn' /\ RewritesAcked' /\ NoAckedLoss'
    BY <1>1 DEF CrashInv, ReaderInv, ReadsOn, RewritesAcked, NoAckedLoss
  <2>2. Moov(rec)' = Moov(rec)
    BY <1>1 DEF Moov
  <2>3. RewritesLogged' /\ RecoveredIsLogged'
    BY <1>1, <2>2, LoggedFrame
       DEF CrashInv, ReaderInv, RewritesLogged, RecoveredIsLogged
  <2> QED  BY <2>1, <2>3 DEF ReaderInv
<1> QED  BY <1>2, <1>3, <1>4 DEF CrashInv

LEMMA CrashStep ==
  ASSUME "write" \notin Faults, "power" \notin Faults, ~Dumps,
         CrashInv, [Next]_vars
  PROVE  CrashInv'
<1>0. /\ PrefixInv /\ PrefixInv' /\ TInv /\ TInv' /\ LogShape
      /\ WriterInv /\ AckedLogged /\ LoggedInFile /\ ReadsOn /\ RewritesAcked
      /\ RewritesLogged /\ RecoveredIsLogged /\ RecShape'
  BY PrefixStep DEF CrashInv, PrefixInv, ReaderInv
<1>1. CASE Next
  <2>1. WriterInv'
    BY <1>0, <1>1, TracksStep, SamplesStep, ListStep, ListOrderStep,
       WalkStep, StepStep, TablesStep DEF WriterInv
  <2>2. AckedLogged' /\ LoggedInFile'
    BY <1>0, <1>1, AckedLoggedStep, LoggedInFileStep
  <2>3. ReaderInv'
    BY <1>0, <1>1, ReadsOnStep, RewritesAckedStep, NoAckedLossStep,
       RewritesLoggedStep, RecoveredIsLoggedStep DEF ReaderInv
  <2> QED  BY <1>0, <2>1, <2>2, <2>3 DEF CrashInv
<1> QED  BY <1>0, <1>1, CrashQuiet

(* While only processes die and sample writes fail, the sync, the reader   *)
(* and the trimming keep everything that no acknowledged sample gets lost  *)
(* without: the order of the tracks, the shape of the log, the place of    *)
(* the reader in it and the samples that the files are bound to hold.      *)
THEOREM CrashSafety ==
  ASSUME "write" \notin Faults, "power" \notin Faults, ~Dumps
  PROVE  Spec => []CrashInv
<1>1. CrashInv /\ [Next]_vars => CrashInv'
  BY CrashStep
<1> QED  BY CrashInit, <1>1, PTL DEF Spec

(* Once mp4_mux_sync has returned 0, every movie that a close or a         *)
(* recovery ends in has every sample that had been added before it, for    *)
(* any number of tracks, samples, syncs, crashes and recoveries, while     *)
(* writes to the tables file do not fail, the machine keeps its power and  *)
(* the application does not call mp4_mux_dump.                             *)
THEOREM AckedKept ==
  ASSUME "write" \notin Faults, "power" \notin Faults, ~Dumps
  PROVE  Spec => []NoAckedLoss
<1>1. CrashInv => NoAckedLoss
  BY DEF CrashInv, ReaderInv
<1> QED  BY CrashSafety, <1>1, PTL

(* A recovery that is run again, after it ended or after it died anywhere, *)
(* ends in the movie the first one made: the trimming of the data file and *)
(* the moov that a recovery leaves behind the data change nothing.         *)
THEOREM RecoveryRepeats ==
  ASSUME "write" \notin Faults, "power" \notin Faults, ~Dumps
  PROVE  Spec => RecoveryRepeatable
<1> DEFINE Again == pc = "rewrite" /\ pc' = "done" /\ recovered # NoMovie
                      => movie' = recovered
<1>1. CrashInv /\ [Next]_vars => [Again]_vars
  <2> SUFFICES ASSUME CrashInv, Next, pc = "rewrite", pc' = "done",
                      recovered # NoMovie
               PROVE  movie' = recovered
    OBVIOUS
  <2>1. Rewrite
    BY EntersDone
  <2>2. movie' = Moov(rec)
    BY <2>1 DEF Rewrite
  <2>3. Moov(rec) = LoggedMovie /\ recovered = LoggedMovie
    BY DEF CrashInv, ReaderInv, RewritesLogged, RecoveredIsLogged
  <2> QED  BY <2>2, <2>3
<1> QED  BY CrashSafety, <1>1, PTL DEF Spec, RecoveryRepeatable

-----------------------------------------------------------------------------
(* The muxer and its recovery implement DurableRecording: every step is    *)
(* one of its steps or leaves its state alone.                             *)

LEMMA DurableStutters ==
  ASSUME Phase' = Phase, UNCHANGED <<samples, acked, movie>>
  PROVE  UNCHANGED Durable!recording
  BY DEF Durable!recording

LEMMA DurableInit == Init => Durable!Init
<1> SUFFICES ASSUME Init PROVE Durable!Init
  OBVIOUS
<1>1. /\ Phase = "recording"
      /\ samples = [h \in Handles |-> <<>>] /\ acked = [h \in Handles |-> 0]
      /\ movie = NoMovie
  BY DEF Init, Phase
<1>2. \A h \in Handles : Len(samples[h]) = 0 /\ Len(movie[h]["stsz"]) = 0
  BY <1>1 DEF NoMovie, MoovKinds
<1> QED  BY <1>1, <1>2 DEF Durable!Init, Durable!Nothing

LEMMA AddSampleD ==
  ASSUME TInv, NEW h \in Handles, NEW size \in Sizes, NEW sync \in BOOLEAN,
         AddSample(h, size, sync)
  PROVE  Durable!AppendSample(h)
<1>1. /\ Phase = "recording" /\ Phase' = "recording"
      /\ UNCHANGED <<acked, movie>>
      /\ samples' = [samples EXCEPT ![h] = Append(@, [off |-> pos, size |-> size])]
  BY DEF AddSample, Phase, outVars
<1>2. /\ samples \in [Handles -> Seq([off : Nat, size : Nat])]
      /\ [off |-> pos, size |-> size] \in [off : Nat, size : Nat]
  BY BoundsAssumption DEF BoundsAssumption, TInv, TypeOK, MuxTypeOK, DataTypeOK
<1>3. \A g \in Handles :
        Len(samples'[g]) = IF g = h THEN Len(samples[g]) + 1 ELSE Len(samples[g])
  BY <1>1, <1>2
<1>4. [g \in Handles |-> Len(samples'[g])]
        = [[g \in Handles |-> Len(samples[g])] EXCEPT ![h] = @ + 1]
  BY <1>3
<1> QED  BY <1>1, <1>4 DEF Durable!AppendSample

LEMMA WriteHeaderD == ASSUME WriteHeader PROVE Durable!Promise
<1>1. /\ Phase = "recording" /\ Phase' = "recording"
      /\ UNCHANGED <<samples, movie>>
      /\ acked' = [h \in Handles |-> Len(samples[h])]
  BY DEF WriteHeader, Phase, muxVars
<1> QED  BY <1>1 DEF Durable!Promise

LEMMA SyncTablesD ==
  ASSUME TInv, SyncTables PROVE Durable!Publish \/ UNCHANGED Durable!recording
<1>1. /\ Phase = "recording" /\ Phase' = "recording"
      /\ UNCHANGED <<samples, acked>>
      /\ movie' = Moov(MemoryTables) \/ UNCHANGED movie
  BY DEF SyncTables, Phase
<1>2. CASE UNCHANGED movie
  BY <1>1, <1>2, DurableStutters
<1>3. CASE movie' = Moov(MemoryTables)
  <2>1. \A h \in Handles : Len(movie'[h]["stsz"]) = Len(samples[h])
    BY <1>3, MemoryIsWhole
  <2> QED  BY <1>1, <2>1 DEF Durable!Publish
<1> QED  BY <1>1, <1>2, <1>3

LEMMA EndCloseD == ASSUME TInv, EndClose PROVE Durable!Finish
<1>1. /\ Phase = "recording" /\ Phase' = "finished"
      /\ UNCHANGED <<samples, acked>>
      /\ movie' = Moov(MemoryTables)
  BY DEF EndClose, MemoryLost, Phase
<1>2. \A h \in Handles : Len(movie'[h]["stsz"]) = Len(samples[h])
  BY <1>1, MemoryIsWhole
<1> QED  BY <1>1, <1>2 DEF Durable!Finish

LEMMA NoMovieIsEmpty ==
  [h \in Handles |-> Len(NoMovie[h]["stsz"])] = [h \in Handles |-> 0]
  BY DEF NoMovie, MoovKinds

LEMMA CrashD == ASSUME Crash PROVE Durable!Stop
<1>1. /\ Phase \in {"recording", "stopped"} /\ Phase' = "stopped"
      /\ UNCHANGED <<samples, acked>>
      /\ movie' = movie \/ movie' = NoMovie
  BY DEF Crash, MemoryLost, MovieMayTear, Phase, Rewriting
<1> QED  BY <1>1, NoMovieIsEmpty DEF Durable!Stop, Durable!Nothing

LEMMA FinalizeD ==
  ASSUME NEW truncate_file \in BOOLEAN, Finalize(truncate_file)
  PROVE  Durable!Discard
<1>1. /\ Phase = "finished" /\ Phase' = "discarded"
      /\ UNCHANGED <<samples, acked>>
      /\ movie' = movie \/ movie' = NoMovie
  BY DEF Finalize, Phase, muxVars
<1> QED  BY <1>1, NoMovieIsEmpty DEF Durable!Discard, Durable!Nothing

(* A recovery is refused only where no sync had ended. *)
LEMMA RecoverStartD ==
  ASSUME TInv, AckedLogged, RecoverStart
  PROVE  Durable!Stop \/ Durable!Reopen \/ Durable!Refuse
<1>0. /\ UNCHANGED <<samples, acked>> /\ acked \in [Handles -> Nat]
      /\ Phase \in {"stopped", "finished"}
  BY DEF RecoverStart, muxVars, Phase, TInv, TypeOK, OutTypeOK
<1>1. CASE tablesSize = 0 /\ pc' = "refused" /\ UNCHANGED movie
  <2>1. Phase' = "refused" /\ UNCHANGED movie
    BY <1>1 DEF Phase
  <2>2. \A h \in Handles : ~(acked[h] > 0)
    BY <1>1 DEF AckedLogged, RecoverStart
  <2>3. \A h \in Handles : acked[h] = 0
    BY <1>0, <2>2
  <2>4. acked = [h \in Handles |-> 0]
    BY <1>0, <2>3
  <2> QED  BY <1>0, <2>1, <2>4 DEF Durable!Refuse, Durable!Nothing
<1>2. CASE pc' = "parse" /\ movie' = NoMovie
  <2>1. Phase' = "stopped" /\ movie' = NoMovie
    BY <1>2 DEF Phase
  <2> QED  BY <1>0, <2>1, NoMovieIsEmpty
           DEF Durable!Stop, Durable!Reopen, Durable!Nothing
<1> QED  BY <1>1, <1>2 DEF RecoverStart

LEMMA RewriteD ==
  ASSUME TInv, TInv', RecShape, NoAckedLoss', Rewrite PROVE Durable!Recover
<1>1. /\ Phase = "stopped" /\ Phase' = "finished"
      /\ UNCHANGED <<samples, acked>> /\ movie' = Moov(rec) /\ pc' = "done"
  BY DEF Rewrite, muxVars, Phase
<1>2. ASSUME NEW h \in Handles
      PROVE  /\ Len(movie'[h]["stsz"]) \in Nat
             /\ acked[h] <= Len(movie'[h]["stsz"])
             /\ Len(movie'[h]["stsz"]) <= Len(samples[h])
  <2> DEFINE n == Len(rec[h]["stsz"])
  <2>1. rec[h]["stsz"] \in Seq(Nat) /\ n \in Nat /\ Len(samples[h]) \in Nat
    BY SMTT(20), ReadingType, MuxType DEF Kinds
  <2>2. Len(movie'[h]["stsz"]) = n
    <3>1. movie'[h]["stsz"] = rec[h]["stsz"]
      BY <1>1 DEF Moov, MoovKinds
    <3> QED  BY <3>1
  <2>3. n <= Len(samples[h])
    <3>1. CASE n = 0
      BY <2>1, <3>1
    <3>2. CASE n # 0
      <4>1. n \in DOMAIN rec[h]["stsz"]
        BY <2>1, <3>2
      <4>2. rec[h]["stsz"][n] = n
        BY <4>1 DEF RecShape, RecIsPrefix, Kinds
      <4>3. rec[h]["stsz"][n] <= Len(samples[h])
        BY <4>1 DEF TInv, RecInBounds
      <4> QED  BY <4>2, <4>3
    <3> QED  BY <3>1, <3>2
  <2>4. acked[h] <= Len(movie'[h]["stsz"])
    BY <1>1 DEF NoAckedLoss
  <2> QED  BY <2>1, <2>2, <2>3, <2>4
<1> QED  BY <1>1, <1>2 DEF Durable!Recover

LEMMA DurableStep ==
  ASSUME "write" \notin Faults, "power" \notin Faults, ~Dumps,
         CrashInv, CrashInv', [Next]_vars
  PROVE  [Durable!Next]_(Durable!recording)
<1>0. /\ TInv /\ TInv' /\ RecShape /\ AckedLogged /\ NoAckedLoss'
  BY DEF CrashInv, PrefixInv, ReaderInv
<1>1. CASE AppNext
  <2>1. CASE \E h \in Handles, size \in Sizes, sync \in BOOLEAN :
               AddSample(h, size, sync)
    BY <1>0, <2>1, AddSampleD DEF Durable!Next
  <2>2. CASE RecoverStart
    BY <1>0, <2>2, RecoverStartD DEF Durable!Next
  <2>3. CASE \E truncate_file \in BOOLEAN : Finalize(truncate_file)
    BY <2>3, FinalizeD DEF Durable!Next
  <2>4. CASE \/ \E t \in Types : AddTrack(t)
             \/ \E h \in Handles, size \in Sizes : AddSampleFails(h, size)
             \/ \E write_tables \in BOOLEAN : BeginSync(write_tables)
             \/ BeginClose
    <3>1. Phase' = Phase /\ UNCHANGED <<samples, acked, movie>>
      BY <2>4 DEF AddTrack, AddSampleFails, BeginSync, BeginClose, Phase,
         muxVars, outVars
    <3> QED  BY <3>1, DurableStutters
  <2> QED  BY <1>1, <2>1, <2>2, <2>3, <2>4 DEF AppNext, Dump
<1>2. CASE MuxNext
  <2>1. CASE VisitTrack \/ WriteBoxInfo \/ WriteEntry \/ SyncTablesSkipped
    <3>1. Phase' = Phase /\ UNCHANGED <<samples, acked, movie>>
      BY <2>1 DEF VisitTrack, WriteBoxInfo, WriteEntry, SyncTablesSkipped,
         Phase, muxVars, outVars
    <3> QED  BY <3>1, DurableStutters
  <2> QED  BY <1>0, <1>2, <2>1, WriteHeaderD, SyncTablesD, EndCloseD
           DEF MuxNext, Durable!Next
<1>3. CASE RecoveryNext
  <2>1. CASE Rewrite
    BY <1>0, <2>1, RewriteD DEF Durable!Next
  <2>2. CASE ReadDone \/ ReadBoxInfo \/ ReadEntry \/ ReadMissingEntry \/ Trim
    <3>1. /\ pc \in {"parse", "trim"} /\ UNCHANGED <<samples, acked, movie>>
          /\ pc' \in {"parse", "trim", "rewrite"}
      BY <2>2 DEF ReadDone, ReadBoxInfo, ReadEntry, ReadMissingEntry, Trim,
         Misaligned, Fail, Minor, Fatal, Go, muxVars, outVars
    <3>2. Phase = "stopped" /\ Phase' = "stopped"
      BY <3>1 DEF Phase
    <3> QED  BY <3>1, <3>2, DurableStutters
  <2> QED  BY <1>3, <2>1, <2>2 DEF RecoveryNext
<1>4. CASE FaultNext
  <2>1. Crash
    BY <1>4 DEF FaultNext, WriteFails, ShortBoxInfoUnseen, PowerLoss
  <2> QED  BY <2>1, CrashD DEF Durable!Next
<1>5. CASE UNCHANGED vars
  <2>1. UNCHANGED <<pc, samples, acked, movie>>
    BY <1>5 DEF vars, muxVars, outVars
  <2> QED  BY <2>1, DurableStutters DEF Phase
<1> QED  BY <1>1, <1>2, <1>3, <1>4, <1>5 DEF Next

(* What the muxer and its recovery do to their files is, for every         *)
(* instance, a behaviour of DurableRecording: a sync promises, a recovery  *)
(* ends in a movie with at least what was promised and nothing that was    *)
(* not appended, and it refuses only a recording without a promise.        *)
THEOREM PromiseIsImplemented ==
  ASSUME "write" \notin Faults, "power" \notin Faults, ~Dumps
  PROVE  Spec => ImplementsDurable
<1>1. CrashInv /\ CrashInv' /\ [Next]_vars => [Durable!Next]_(Durable!recording)
  BY DurableStep
<1>2. Spec => []CrashInv
  BY CrashSafety
<1>3. Spec => [][Durable!Next]_(Durable!recording)
  BY <1>1, <1>2, PTL DEF Spec
<1>4. Spec => Durable!Init
  BY DurableInit DEF Spec
<1> QED  BY <1>3, <1>4, PTL DEF ImplementsDurable, Durable!Spec
=============================================================================
