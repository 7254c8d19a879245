----------------------------- MODULE RecoveryLog -----------------------------
(***************************************************************************)
(* The crash-recovery log of the muxer: what mp4_mux_sync appends to the   *)
(* tables file, how a crash can leave that file, and how                   *)
(* mp4_recovery_recover_file replays it into a finished movie.             *)
(*                                                                         *)
(* The tables file is a header holding tables_size, followed by records.   *)
(* A record is a box_info (track handle, box type, number of entries) and  *)
(* its entries.  The entry of a table is named by its index in the memory  *)
(* table of the muxer (entry k of 'stsz' is the size, offset and time of   *)
(* sample k), so that entry 0 stands for bytes the muxer never wrote       *)
(* there.  Offsets count from the first byte of the media data.            *)
(*                                                                         *)
(* The records of metadata and cover, which follow the tables of a track   *)
(* and of the file, are the subject of another module.                     *)
(*                                                                         *)
(* Every track here has a config that its box writer accepts.  TrackConfig *)
(* says what becomes of a moov that one of them refuses.                   *)
(***************************************************************************)
EXTENDS Integers, Sequences, FiniteSets

CONSTANTS
  MaxTracks,     (* bound: tracks added to the muxer                       *)
  MaxSamples,    (* bound: samples added to one track                      *)
  MaxSyncs,      (* bound: calls of mp4_mux_sync                           *)
  MaxRecoveries, (* bound: calls of mp4_recovery_recover_file              *)
  MaxCuts,       (* bound: records cut by a short write                    *)
  Types,         (* the track parameters used: type and enabled flag       *)
  Sizes,         (* the sample sizes used                                  *)
  Faults,        (* "disk": a sample write fails;  "write": a write to the *)
                 (* tables file fails;  "power": unsynced pages are lost   *)
  Dumps,         (* the application calls mp4_mux_dump                     *)
  Preallocated,  (* allocate_space_for_tables_file                         *)
  MoovTail       (* bytes of a moov that does not fit before the data      *)

Kinds == {"trak", "stsd", "stts", "stss", "stsc", "stsz", "stco"}
MoovKinds == {"stss", "stsz", "stco"}

Priority == [video |-> 0, audio |-> 1, metadata |-> 3, chapters |-> 5]
Rank(t) == 2 * Priority[t.type] + (IF t.enabled THEN 0 ELSE 1)

ASSUME BoundsAssumption ==
  /\ MaxTracks \in Nat /\ MaxSamples \in Nat
  /\ MaxSyncs \in Nat /\ MaxRecoveries \in Nat /\ MaxCuts \in Nat
  /\ Types \subseteq [type : DOMAIN Priority, enabled : BOOLEAN]
  /\ Sizes \subseteq Nat \ {0}
  /\ Faults \subseteq {"disk", "write", "power"}
  /\ Dumps \in BOOLEAN /\ Preallocated \in BOOLEAN
  /\ MoovTail \in Nat

Handles == 1 .. MaxTracks

VARIABLES
  pc,         (* what the process that owns the files is doing             *)
  (* the muxer *)
  type,       (* type[h]: type and enabled flag of the track of handle h   *)
  list,       (* mux->tracks: the handles, in list order                   *)
  samples,    (* samples[h][k]: offset and size of sample k of track h     *)
  syncs,      (* syncs[h]: sample numbers of the sync samples              *)
  ttsCount,   (* time_to_sample.count, computed by sync_internal           *)
  written,    (* stbl_index_write_count, track_info_written under "trak"   *)
  full,       (* max_tables_size_reached                                   *)
  nsyncs,     (* calls of mp4_mux_sync so far                              *)
  (* the call of mp4_mux_sync under way *)
  walk,       (* tracks incremental_sync has yet to visit                  *)
  step,       (* the record it is at                                       *)
  open,       (* box_info written, entries still missing                   *)
  wantTables, (* write_tables                                              *)
  (* the data file *)
  pos,        (* file position of mux->fd                                  *)
  eof,        (* size                                                      *)
  fsynced,    (* size at the last fsync                                    *)
  valid,      (* history: bytes below this offset are as the muxer wrote   *)
  (* the tables file *)
  log,        (* the records                                               *)
  tablesSize, (* header: tables_size, as a number of records               *)
  oldSizes,   (* history: the values tables_size had in the file           *)
  (* recovery *)
  starts,     (* calls of mp4_recovery_recover_file so far                 *)
  rcount,     (* tracks of the recovering muxer                            *)
  rec,        (* rec[h][k]: entries read back for table k of track h       *)
  ri,         (* record being read                                         *)
  rj,         (* entries of it already read                                *)
  reading,    (* its box_info has been read                                *)
  rend,       (* end_of_file of the data file                              *)
  errorMsg,   (* *error_msg has been set                                   *)
  (* the outcome *)
  movie,      (* sample tables of the last complete moov in the data file  *)
  recovered,  (* history: the movie the last recovery ended in             *)
  acked       (* history: samples of h covered by a successful sync        *)

muxVars   == <<type, list, samples, syncs, ttsCount, written, full, nsyncs>>
syncVars  == <<walk, step, open, wantTables>>
dataVars  == <<pos, eof, fsynced, valid>>
logVars   == <<log, tablesSize, oldSizes>>
recVars   == <<starts, rcount, rec, ri, rj, reading, rend, errorMsg>>
outVars   == <<movie, recovered, acked>>
vars == <<pc, muxVars, syncVars, dataVars, logVars, recVars, outVars>>

-----------------------------------------------------------------------------
Larger(a, b)  == IF a < b THEN b ELSE a
Smaller(a, b) == IF a < b THEN a ELSE b

NoTables == [h \in Handles |-> [k \in Kinds |-> <<>>]]
NoMovie  == [h \in Handles |-> [k \in MoovKinds |-> <<>>]]

(* The moov of a set of tables: a track without samples is left out. *)
Moov(tables) ==
  [h \in Handles |-> [k \in MoovKinds |->
     IF tables[h]["stsz"] = <<>> THEN <<>> ELSE tables[h][k]]]

(* Number of entries table k of track h has in memory. *)
Count(h, k) ==
  CASE k = "stts" -> ttsCount[h]
    [] k = "stss" -> Len(syncs[h])
    [] k \in {"stsz", "stco"} -> Len(samples[h])
    [] OTHER -> 1

(* Mutants of Record: the operands of the subtraction are swapped; all the *)
(* entries are written again at every sync.                                *)
RecordSwapped(h, k, cut) ==
  [h |-> h, kind |-> k, first |-> written[h][k] + 1,
   number |-> written[h][k] - Count(h, k), got |-> 0, cut |-> cut]

RecordAll(h, k, cut) ==
  [h |-> h, kind |-> k, first |-> 1,
   number |-> Count(h, k), got |-> 0, cut |-> cut]

(* The record of the entries table k of track h got since its last one.    *)
(* Of its number entries, got are in the file; cut tells where the bytes   *)
(* of a failed write end: nowhere, in its box_info or in its next entry.   *)
Record(h, k, cut) ==
  [h |-> h, kind |-> k, first |-> written[h][k] + 1,
   number |-> Count(h, k) - written[h][k], got |-> 0, cut |-> cut]

Init ==
  /\ pc = "open"
  /\ type = <<>> /\ list = <<>>
  /\ samples = [h \in Handles |-> <<>>]
  /\ syncs = [h \in Handles |-> <<>>]
  /\ ttsCount = [h \in Handles |-> 0]
  /\ written = [h \in Handles |-> [k \in Kinds |-> 0]]
  /\ full = FALSE /\ nsyncs = 0
  /\ walk = <<>> /\ step = "track" /\ open = FALSE /\ wantTables = FALSE
  /\ pos = 0 /\ eof = 0 /\ fsynced = 0 /\ valid = 0
  /\ log = <<>> /\ tablesSize = 0 /\ oldSizes = {0}
  /\ starts = 0 /\ rcount = 0 /\ rec = NoTables
  /\ ri = 1 /\ rj = 0 /\ reading = FALSE /\ rend = 0 /\ errorMsg = FALSE
  /\ movie = NoMovie /\ recovered = NoMovie
  /\ acked = [h \in Handles |-> 0]

-----------------------------------------------------------------------------
(* The application adds tracks and samples. *)

AddTrack(t) ==
  /\ pc = "open" /\ Len(type) < MaxTracks
  /\ type' = Append(type, t)
  /\ list' = Append(list, Len(type) + 1)
  /\ UNCHANGED <<pc, samples, syncs, ttsCount, written, full, nsyncs>>
  /\ UNCHANGED <<syncVars, dataVars, logVars, recVars, outVars>>

AddSample(h, size, sync) ==
  /\ pc = "open" /\ h \in DOMAIN type /\ Len(samples[h]) < MaxSamples
  /\ samples' = [samples EXCEPT ![h] = Append(@, [off |-> pos, size |-> size])]
  /\ syncs' = IF sync /\ type[h].type = "video"
              THEN [syncs EXCEPT ![h] = Append(@, Len(samples[h]) + 1)]
              ELSE syncs
  /\ pos' = pos + size
  /\ eof' = Larger(eof, pos + size)
  /\ valid' = eof'
  /\ UNCHANGED <<pc, type, list, ttsCount, written, full, nsyncs, fsynced>>
  /\ UNCHANGED <<syncVars, logVars, recVars, outVars>>

(* writev fails or is short: the position goes back, the tables do not     *)
(* count the sample, what was written of it stays in the file.             *)
AddSampleFails(h, size) ==
  /\ "disk" \in Faults
  /\ pc = "open" /\ h \in DOMAIN type /\ Len(samples[h]) < MaxSamples
  /\ \E short \in 0 .. size - 1 : eof' = Larger(eof, pos + short)
  /\ valid' = eof'
  /\ UNCHANGED <<pc, pos, fsynced>>
  /\ UNCHANGED <<muxVars, syncVars, logVars, recVars, outVars>>

(* t is the list l as mp4_mux_sort_tracks leaves it: stably, by type and   *)
(* with the enabled tracks of a type first.                                *)
IsSorted(t, l) ==
  /\ \A i \in DOMAIN l : \E j \in DOMAIN t : t[j] = l[i]
  /\ \A j \in DOMAIN t : \E i \in DOMAIN l : t[j] = l[i]
  /\ \A i, j \in DOMAIN t : i < j =>
       \/ Rank(type[t[i]]) < Rank(type[t[j]])
       \/ /\ Rank(type[t[i]]) = Rank(type[t[j]])
          /\ \E m, n \in DOMAIN l : m < n /\ l[m] = t[i] /\ l[n] = t[j]

SortTracks ==
  \E t \in [1 .. Len(list) -> Handles] : IsSorted(t, list) /\ list' = t

(* The deltas of the decoding times are abstracted: a table has one entry  *)
(* per run of equal deltas and a last one, so between 1 and the number of  *)
(* samples, and never fewer than for the samples of an earlier call.       *)
ComputeTts(tracks) ==
  \E n \in [Handles -> 0 .. MaxSamples] :
    /\ \A h \in Handles :
         /\ ttsCount[h] <= n[h] /\ n[h] <= Len(samples[h])
         /\ h \notin tracks => n[h] = ttsCount[h]
         /\ (h \in tracks /\ samples[h] # <<>>) => n[h] > 0
    /\ ttsCount' = n

(* mp4_mux_dump sorts the list inside its walk over the list: it goes on   *)
(* from the place its first track has in the sorted list.                  *)
Dump ==
  /\ Dumps /\ pc = "open" /\ list # <<>>
  /\ SortTracks
  /\ \E i \in DOMAIN list' :
       /\ list'[i] = Head(list)
       /\ ComputeTts({list'[j] : j \in i .. Len(list)})
  /\ UNCHANGED <<pc, type, samples, syncs, written, full, nsyncs>>
  /\ UNCHANGED <<syncVars, dataVars, logVars, recVars, outVars>>

-----------------------------------------------------------------------------
(* mp4_mux_sync: incremental_sync writes the new entries of every table    *)
(* behind the records already there, then the header.                      *)

BeginSync(write_tables) ==
  /\ pc = "open" /\ nsyncs < MaxSyncs
  /\ pc' = "sync"
  /\ nsyncs' = nsyncs + 1
  /\ walk' = list /\ step' = "track" /\ open' = FALSE
  /\ wantTables' = write_tables
  /\ UNCHANGED <<type, list, samples, syncs, ttsCount, written, full>>
  /\ UNCHANGED <<dataVars, logVars, recVars, outVars>>

(* Head of the loop over the tracks. *)
VisitTrack ==
  /\ pc = "sync" /\ step = "track"
  /\ IF walk = <<>>
     THEN step' = "header" /\ walk' = walk
     ELSE LET h == Head(walk)
          IN IF written[h]["trak"] # 0 /\ samples[h] = <<>>
             THEN step' = "track" /\ walk' = Tail(walk)
             ELSE /\ step' = IF written[h]["trak"] = 0 THEN "trak" ELSE "stts"
                  /\ walk' = walk
  /\ UNCHANGED <<pc, open, wantTables>>
  /\ UNCHANGED <<muxVars, dataVars, logVars, recVars, outVars>>

(* The record that follows record k of track h. *)
After(h, k) ==
  CASE k = "trak" -> "stsd"
    [] k = "stsd" -> IF samples[h] = <<>> THEN "track" ELSE "stts"
    [] k = "stts" -> "stss"
    [] k = "stss" -> "stsc"
    [] k = "stsc" -> "stsz"
    [] k = "stsz" -> "stco"
    [] k = "stco" -> "track"

EndRecord ==
  LET next == After(Head(walk), step)
  IN /\ open' = FALSE
     /\ step' = next
     /\ walk' = IF next = "track" THEN Tail(walk) ELSE walk
     /\ UNCHANGED wantTables

WriteBoxInfo ==
  /\ pc = "sync" /\ step \in Kinds /\ ~open
  /\ log' = Append(log, Record(Head(walk), step, "no"))
  /\ IF Count(Head(walk), step) = written[Head(walk)][step]
     THEN EndRecord
     ELSE open' = TRUE /\ UNCHANGED <<step, walk, wantTables>>
  /\ UNCHANGED <<pc, tablesSize, oldSizes>>
  /\ UNCHANGED <<muxVars, dataVars, recVars, outVars>>

WriteEntry ==
  /\ pc = "sync" /\ step \in Kinds /\ open
  /\ log' = [log EXCEPT ![Len(log)].got = @ + 1]
  /\ written' = [written EXCEPT ![Head(walk)][step] = @ + 1]
  /\ IF log[Len(log)].got + 1 = log[Len(log)].number
     THEN EndRecord
     ELSE UNCHANGED syncVars
  /\ UNCHANGED <<pc, type, list, samples, syncs, ttsCount, full, nsyncs>>
  /\ UNCHANGED <<tablesSize, oldSizes, dataVars, recVars, outVars>>

MayCut ==
  Cardinality({i \in DOMAIN log : log[i].cut # "no"}) < MaxCuts

(* A failing write ends the sync.  A short write leaves its bytes behind:  *)
(* the file position is not moved back.                                    *)
WriteFails ==
  /\ "write" \in Faults
  /\ pc = "sync" /\ step # "track"
  /\ \/ UNCHANGED log
     \/ /\ step \in Kinds /\ ~open /\ MayCut
        /\ log' = Append(log, Record(Head(walk), step, "head"))
     \/ /\ step \in Kinds /\ open /\ MayCut
        /\ log' = [log EXCEPT ![Len(log)].cut = "entry"]
  /\ pc' = "open" /\ open' = FALSE /\ step' = "track" /\ walk' = <<>>
  /\ UNCHANGED <<wantTables, tablesSize, oldSizes>>
  /\ UNCHANGED <<muxVars, dataVars, recVars, outVars>>

(* A short write of a box_info does not set errno, and the caller returns  *)
(* -errno: when errno is 0 the record is skipped and the sync goes on.     *)
ShortBoxInfoUnseen ==
  /\ "write" \in Faults
  /\ pc = "sync" /\ step \in Kinds /\ ~open /\ MayCut
  /\ log' = Append(log, Record(Head(walk), step, "head"))
  /\ EndRecord
  /\ UNCHANGED <<pc, tablesSize, oldSizes>>
  /\ UNCHANGED <<muxVars, dataVars, recVars, outVars>>

(* The header is written last, in place. *)
WriteHeader ==
  /\ pc = "sync" /\ step = "header"
  /\ tablesSize' = Len(log)
  /\ oldSizes' = oldSizes \cup {Len(log)}
  /\ acked' = [h \in Handles |-> Len(samples[h])]
  /\ pc' = IF wantTables THEN "tables" ELSE "open"
  /\ step' = "track"
  /\ UNCHANGED <<walk, open, wantTables, log, movie, recovered>>
  /\ UNCHANGED <<muxVars, dataVars, recVars>>

-----------------------------------------------------------------------------
(* mp4_mux_sync_internal, as far as this module sees it: the list is       *)
(* sorted, the time tables are recomputed, the moov is written before the  *)
(* data or, by close, behind them; the position goes to the end.           *)

(* Mutant: the moov of the entries already in the log only. *)
LoggedTables ==
  [h \in Handles |-> [k \in Kinds |-> [i \in 1 .. written[h][k] |-> i]]]

MemoryTables ==
  [h \in Handles |-> [k \in Kinds |-> [i \in 1 .. Count(h, k) |-> i]]]

SortAndCompute ==
  SortTracks /\ ComputeTts(Handles)

(* The moov fits, or the reserved space is too small: -ENOBUFS. *)
SyncTables ==
  /\ pc = "tables" /\ ~full
  /\ SortAndCompute
  /\ pos' = eof
  /\ \/ fsynced' = eof /\ full' = FALSE /\ movie' = Moov(MemoryTables)
     \/ fsynced' = fsynced /\ full' = TRUE /\ movie' = movie
  /\ pc' = "open"
  /\ UNCHANGED <<type, samples, syncs, written, nsyncs, eof, valid>>
  /\ UNCHANGED <<syncVars, logVars, recVars, recovered, acked>>

SyncTablesSkipped ==
  /\ pc = "tables" /\ full
  /\ pc' = "open"
  /\ UNCHANGED <<muxVars, syncVars, dataVars, logVars, recVars, outVars>>

(* The muxer, freed or dead, leaves only its files; what it had been given *)
(* stays in type, samples and syncs, for the properties to compare with.   *)
MemoryLost ==
  /\ list' = <<>> /\ walk' = <<>> /\ step' = "track"
  /\ open' = FALSE /\ wantTables' = FALSE
  /\ ttsCount' = [h \in Handles |-> 0]
  /\ written' = [h \in Handles |-> [k \in Kinds |-> 0]]
  /\ full' = FALSE /\ nsyncs' = 0 /\ pos' = 0
  /\ UNCHANGED <<type, samples, syncs>>

BeginClose ==
  /\ pc = "open"
  /\ pc' = "closing"
  /\ SortAndCompute
  /\ UNCHANGED <<type, samples, syncs, written, full, nsyncs>>
  /\ UNCHANGED <<syncVars, dataVars, logVars, recVars, outVars>>

EndClose ==
  /\ pc = "closing"
  /\ pc' = "closed"
  /\ \E tail \in {0, MoovTail} : eof' = eof + tail
  /\ fsynced' = eof'
  /\ movie' = Moov(MemoryTables)
  /\ MemoryLost
  /\ UNCHANGED <<valid, recovered, acked, logVars, recVars>>

-----------------------------------------------------------------------------
(* The process, or the machine, stops. *)

Rewriting == {"tables", "closing", "rewrite"}

(* A moov is written in place: half-written, it is no movie. *)
MovieMayTear == movie' = movie \/ (pc \in Rewriting /\ movie' = NoMovie)

(* The files keep every write that was made. *)
Crash ==
  /\ pc \in {"open", "sync", "parse", "trim"} \cup Rewriting
  /\ pc' = "dead"
  /\ MovieMayTear
  /\ IF pc \in {"closing", "rewrite"}
     THEN \E tail \in 0 .. MoovTail : eof' = eof + tail
     ELSE eof' = eof
  /\ MemoryLost
  /\ UNCHANGED <<fsynced, valid, recovered, acked, logVars>>
  /\ UNCHANGED starts
  /\ rcount' = 0 /\ rec' = NoTables /\ ri' = 1 /\ rj' = 0
  /\ reading' = FALSE /\ rend' = 0 /\ errorMsg' = FALSE

(* The log, cut anywhere: after a whole write or inside one. *)
CutInside(l, n, g, c) ==
  Append(SubSeq(l, 1, n - 1), [l[n] EXCEPT !.got = g, !.cut = c])

Shortened(l) ==
  {SubSeq(l, 1, n) : n \in 0 .. Len(l)}
  \cup UNION {{CutInside(l, n, g, c) :
                 g \in 0 .. l[n].got, c \in {"no", "head", "entry"}} :
              n \in 1 .. Len(l)}

(* Only mux->fd is ever fsynced, by mp4_mux_sync_internal.  The tables     *)
(* file can lose anything, and its header can be older or newer than its   *)
(* records.  Bound: the machine does not stop during a recovery.           *)
PowerLoss ==
  /\ "power" \in Faults
  /\ pc \in {"open", "sync", "tables", "closing"}
  /\ pc' = "dead"
  /\ MovieMayTear
  /\ eof' \in fsynced .. eof
  /\ valid' = Smaller(valid, eof')
  /\ log' \in Shortened(log)
  /\ tablesSize' \in oldSizes
  /\ oldSizes' = {tablesSize'}
  /\ MemoryLost
  /\ UNCHANGED <<fsynced, recovered, acked, recVars>>

-----------------------------------------------------------------------------
(* mp4_recovery_recover_file, on what is left of the two files; it can be  *)
(* run again, and nothing stops it from running after a clean close.       *)

(* mp4_mux_open, on the data file, puts a free box where the moov was.     *)
(* The header holds an offset, 0 only before the first sync: after syncs   *)
(* without records it is not refused.  Both have 0 records: either goes.   *)
RecoverStart ==
  /\ pc \in {"dead", "closed", "done"} /\ starts < MaxRecoveries
  /\ starts' = starts + 1
  /\ rcount' = 0 /\ rec' = NoTables
  /\ ri' = 1 /\ rj' = 0 /\ reading' = FALSE /\ rend' = eof
  /\ \/ /\ tablesSize = 0
        /\ pc' = "refused" /\ errorMsg' = TRUE
        /\ UNCHANGED <<fsynced, movie>>
     \/ /\ tablesSize # 0 \/ nsyncs > 0
        /\ pc' = "parse" /\ errorMsg' = FALSE
        /\ fsynced' = eof /\ movie' = NoMovie
  /\ UNCHANGED <<muxVars, syncVars, logVars, pos, eof, valid, recovered, acked>>

Cur == log[ri]
(* Mutant: the state of the record left is not reset. *)
NextRecordReads == ri' = ri + 1 /\ rj' = 0 /\ UNCHANGED reading

NextRecord == ri' = ri + 1 /\ rj' = 0 /\ reading' = FALSE
Stay == UNCHANGED <<ri, rj, reading>>

(* Failure of a table is minor: what was read so far is used.  Failure of  *)
(* a track, a sample description or a box_info jumps past the trimming.    *)
Minor == pc' = "trim" /\ Stay /\ UNCHANGED errorMsg
Fatal == pc' = "rewrite" /\ errorMsg' = TRUE /\ Stay
Go    == pc' = "parse" /\ UNCHANGED errorMsg
Fail(k) == IF k \in {"trak", "stsd"} THEN Fatal ELSE Minor

(* The bytes behind a cut record are read as what was to follow the cut:   *)
(* the reader fails, or comes upon the start of a later record.            *)
Misaligned ==
  \/ Fatal
  \/ Minor
  \/ Go /\ rj' = 0 /\ reading' = FALSE /\ ri' \in ri + 1 .. tablesSize + 1

(* Mutant: the bound of the loop is off by one. *)
ReadDoneLate ==
  /\ pc = "parse" /\ ~reading /\ ri > tablesSize + 1
  /\ Minor
  /\ UNCHANGED <<muxVars, syncVars, dataVars, logVars, outVars>>
  /\ UNCHANGED <<starts, rcount, rec, rend>>

ReadDone ==
  /\ pc = "parse" /\ ~reading /\ ri > tablesSize
  /\ Minor
  /\ UNCHANGED <<muxVars, syncVars, dataVars, logVars, outVars>>
  /\ UNCHANGED <<starts, rcount, rec, rend>>

(* mp4_mux_recovery_read_box_info up to the first entry.  Where the space  *)
(* is preallocated, a box_info that lacks its number is read with 0.       *)
ReadBoxInfo ==
  /\ pc = "parse" /\ ~reading /\ ri <= tablesSize
  /\ \/ ri > Len(log) /\ Fatal /\ UNCHANGED rcount
     \/ /\ ri < Len(log) /\ Cur.cut = "head"
        /\ Misaligned /\ UNCHANGED rcount
     \/ /\ ri = Len(log) /\ Cur.cut = "head"
        /\ Fatal \/ (Preallocated /\ Go /\ NextRecord)
        /\ UNCHANGED rcount
     \/ /\ ri <= Len(log) /\ Cur.cut # "head"
        /\ Cur.h > rcount + (IF Cur.kind = "trak" THEN 1 ELSE 0)
        /\ Fail(Cur.kind)
        /\ rcount' = IF Cur.kind = "trak" THEN rcount + 1 ELSE rcount
     \/ /\ ri <= Len(log) /\ Cur.cut # "head"
        /\ Cur.h <= rcount + (IF Cur.kind = "trak" THEN 1 ELSE 0)
        /\ Go /\ UNCHANGED rcount
        /\ IF Cur.number = 0 THEN NextRecord
           ELSE reading' = TRUE /\ UNCHANGED <<ri, rj>>
  /\ UNCHANGED <<muxVars, syncVars, dataVars, logVars, outVars, starts, rec, rend>>

ReadEntry ==
  /\ pc = "parse" /\ reading /\ rj < Cur.got
  /\ rec' = [rec EXCEPT ![Cur.h][Cur.kind] = Append(@, Cur.first + rj)]
  /\ rcount' = IF Cur.kind = "trak" THEN Larger(rcount, Cur.h) ELSE rcount
  /\ Go
  /\ IF rj + 1 = Cur.number
     THEN NextRecord
     ELSE rj' = rj + 1 /\ UNCHANGED <<ri, reading>>
  /\ UNCHANGED <<muxVars, syncVars, dataVars, logVars, outVars, starts, rend>>

(* The entry that is due is not there: the file ends, or holds the zeros   *)
(* of the preallocation, or holds the records of a later sync.             *)
ReadMissingEntry ==
  /\ pc = "parse" /\ reading /\ rj >= Cur.got
  /\ \/ /\ ri = Len(log) /\ ~Preallocated
        /\ Fail(Cur.kind)
        /\ UNCHANGED rec
     \/ /\ ri = Len(log) /\ Preallocated
        /\ IF Cur.kind = "trak"
           THEN Fatal /\ UNCHANGED rec
           ELSE /\ rec' = [rec EXCEPT ![Cur.h][Cur.kind] = Append(@, 0)]
                /\ Go
                /\ IF rj + 1 = Cur.number
                   THEN NextRecord
                   ELSE rj' = rj + 1 /\ UNCHANGED <<ri, reading>>
     \/ /\ ri < Len(log)
        /\ \E n \in 0 .. Cur.number - Cur.got :
             rec' = [rec EXCEPT ![Cur.h][Cur.kind] = @ \o [i \in 1 .. n |-> 0]]
        /\ Misaligned
  /\ UNCHANGED <<muxVars, syncVars, dataVars, logVars, outVars, starts, rcount, rend>>

(* Where the bytes of entry i of track h end, as the tables read say. *)
OffsetOf(h, n) == IF n = 0 THEN 0 ELSE samples[h][n].off
SizeOf(h, n)   == IF n = 0 THEN 0 ELSE samples[h][n].size
End(h, i) == OffsetOf(h, rec[h]["stco"][i]) + SizeOf(h, rec[h]["stsz"][i])

(* Mutants: < for <=; no comparison with the size of the file. *)
InFileBelow(h) ==
  {i \in 1 .. Smaller(Len(rec[h]["stco"]), Len(rec[h]["stsz"])) :
     \A j \in 1 .. i : End(h, j) < rend}

InFileAll(h) == 1 .. Smaller(Len(rec[h]["stco"]), Len(rec[h]["stsz"]))

InFile(h) ==
  {i \in 1 .. Smaller(Len(rec[h]["stco"]), Len(rec[h]["stsz"])) :
     \A j \in 1 .. i : End(h, j) <= rend}
Kept(h) == Cardinality(InFile(h))

(* Mutant: only samples.count is set to the number of samples kept. *)
TrimmedSizes ==
  [h \in Handles |-> [k \in Kinds |->
     IF k = "stsz" THEN SubSeq(rec[h][k], 1, Kept(h)) ELSE rec[h][k]]]

Trimmed ==
  [h \in Handles |-> [k \in Kinds |->
     IF k \in {"stsz", "stco"} THEN SubSeq(rec[h][k], 1, Kept(h))
     ELSE rec[h][k]]]

(* Mutant: max_offset does not count the size of the last sample. *)
KeptOffsets ==
  {0} \cup UNION {{OffsetOf(h, rec[h]["stco"][i]) : i \in InFile(h)} :
                  h \in Handles}

KeptEnds == {0} \cup UNION {{End(h, i) : i \in InFile(h)} : h \in Handles}

(* Samples that reach past the end of the file are dropped, with all that  *)
(* follow in their track; the file is cut behind the last one kept.        *)
Trim ==
  /\ pc = "trim"
  /\ pc' = "rewrite"
  /\ rec' = Trimmed
  /\ \E last \in KeptEnds : (\A e \in KeptEnds : e <= last) /\ eof' = last
  /\ valid' = Smaller(valid, eof')
  /\ UNCHANGED <<muxVars, syncVars, logVars, outVars, pos, fsynced>>
  /\ UNCHANGED <<starts, rcount, ri, rj, reading, rend, errorMsg>>

(* mp4_mux_close of the recovering muxer.  Its result is the result. *)
Rewrite ==
  /\ pc = "rewrite"
  /\ pc' = "done"
  /\ \E tail \in {0, MoovTail} : eof' = eof + tail
  /\ fsynced' = eof'
  /\ movie' = Moov(rec)
  /\ recovered' = movie'
  /\ UNCHANGED <<muxVars, syncVars, logVars, recVars, pos, valid, acked>>

(* mp4_recovery_finalize removes the tables file. *)
Finalize(truncate_file) ==
  /\ pc \in {"closed", "done"}
  /\ pc' = "finalized"
  /\ tablesSize' = 0 /\ log' = <<>> /\ oldSizes' = {0}
  /\ IF truncate_file
     THEN eof' = 0 /\ valid' = 0 /\ movie' = NoMovie
     ELSE UNCHANGED <<eof, valid, movie>>
  /\ UNCHANGED <<pos, fsynced, recovered, acked>>
  /\ UNCHANGED <<muxVars, syncVars, recVars>>

-----------------------------------------------------------------------------
AppNext ==
  \/ \E t \in Types : AddTrack(t)
  \/ \E h \in Handles, size \in Sizes, sync \in BOOLEAN :
       AddSample(h, size, sync)
  \/ \E h \in Handles, size \in Sizes : AddSampleFails(h, size)
  \/ Dump
  \/ \E write_tables \in BOOLEAN : BeginSync(write_tables)
  \/ BeginClose
  \/ RecoverStart
  \/ \E truncate_file \in BOOLEAN : Finalize(truncate_file)

MuxNext ==
  \/ VisitTrack \/ WriteBoxInfo \/ WriteEntry \/ WriteHeader
  \/ SyncTables \/ SyncTablesSkipped \/ EndClose

RecoveryNext ==
  ReadDone \/ ReadBoxInfo \/ ReadEntry \/ ReadMissingEntry \/ Trim \/ Rewrite

FaultNext == WriteFails \/ ShortBoxInfoUnseen \/ Crash \/ PowerLoss

Next == AppNext \/ MuxNext \/ RecoveryNext \/ FaultNext

Spec == Init /\ [][Next]_vars

(* A call runs to its end unless the process stops. *)
FairSpec == Spec /\ WF_vars(MuxNext) /\ WF_vars(RecoveryNext)

-----------------------------------------------------------------------------
(* Correctness. *)

Pcs == {"open", "sync", "tables", "closing", "closed", "dead", "parse",
        "trim", "rewrite", "done", "refused", "finalized"}
Cuts == {"no", "head", "entry"}
LogRecord ==
  [h : Handles, kind : Kinds, first : Nat, number : Nat, got : Nat, cut : Cuts]

MuxTypeOK ==
  /\ type \in Seq(Types) /\ Len(type) <= MaxTracks
  /\ list \in Seq(Handles)
  /\ samples \in [Handles -> Seq([off : Nat, size : Nat])]
  /\ syncs \in [Handles -> Seq(Nat)]
  /\ ttsCount \in [Handles -> Nat]
  /\ written \in [Handles -> [Kinds -> Nat]]
  /\ full \in BOOLEAN /\ nsyncs \in Nat

SyncTypeOK ==
  /\ walk \in Seq(Handles) /\ step \in Kinds \cup {"track", "header"}
  /\ open \in BOOLEAN /\ wantTables \in BOOLEAN

DataTypeOK == pos \in Nat /\ eof \in Nat /\ fsynced \in Nat /\ valid \in Nat

LogTypeOK ==
  log \in Seq(LogRecord) /\ tablesSize \in Nat /\ oldSizes \subseteq Nat

RecTypeOK ==
  /\ starts \in Nat /\ rcount \in Nat
  /\ rec \in [Handles -> [Kinds -> Seq(Nat)]]
  /\ ri \in Nat \ {0} /\ rj \in Nat /\ reading \in BOOLEAN
  /\ rend \in Nat /\ errorMsg \in BOOLEAN

OutTypeOK ==
  /\ movie \in [Handles -> [MoovKinds -> Seq(Nat)]]
  /\ recovered \in [Handles -> [MoovKinds -> Seq(Nat)]]
  /\ acked \in [Handles -> Nat]

(* Every variable has the type its field of struct mp4_mux, its file or    *)
(* its history gives it.                                                   *)
TypeOK ==
  /\ pc \in Pcs
  /\ MuxTypeOK /\ SyncTypeOK /\ DataTypeOK /\ LogTypeOK /\ RecTypeOK
  /\ OutTypeOK

(* What replaying the log (mp4_mux_fill_from_file) puts into a table is a  *)
(* prefix of the table the muxer had: no entry twice, missing or moved.    *)
RecoveredIsPrefix ==
  \A h \in Handles, k \in MoovKinds :
    \A i \in DOMAIN rec[h][k] : rec[h][k][i] = i

(* Once mp4_mux_sync has returned 0, whatever crashes and however often    *)
(* the recovery is run, the finished movie has every sample added before.  *)
NoAckedLoss ==
  pc \in {"closed", "done"} =>
    \A h \in Handles : /\ acked[h] <= Len(movie[h]["stsz"])
                       /\ acked[h] <= Len(movie[h]["stco"])

(* The two tables that say where a sample is, stsz and stco, go through    *)
(* the log in different records: whatever part of the log is lost, a movie *)
(* that is recovered without an error has both entries of a sample or none.*)
SizesMatchOffsets ==
  pc = "done" /\ ~errorMsg =>
    \A h \in Handles : Len(movie[h]["stsz"]) = Len(movie[h]["stco"])

(* A recovery that reports no error shows only bytes that the muxer wrote  *)
(* as sample data and that the data file still holds.                      *)
RecoveredIntact ==
  pc = "done" /\ ~errorMsg =>
    \A h \in Handles :
      \A i \in DOMAIN movie[h]["stco"] \cap DOMAIN movie[h]["stsz"] :
        End(h, i) <= valid

(* Recovery may be run again, after it ended or after it died half-way: it *)
(* ends in the movie the first one made.                                   *)
RecoveryRepeatable ==
  [][pc = "rewrite" /\ pc' = "done" /\ recovered # NoMovie
     => movie' = recovered]_vars

(* mp4_mux_sync, mp4_mux_close and mp4_recovery_recover_file come back,    *)
(* whatever the log looks like.                                            *)
CallsReturn ==
  pc \in {"sync", "tables", "closing", "parse", "trim", "rewrite"} ~>
    pc \in {"open", "closed", "done", "dead"}

(* The sync samples of the "valid MP4 file" recovery makes exist in it.    *)
SyncSamplesExist ==
  pc = "done" =>
    \A h \in Handles : \A i \in DOMAIN movie[h]["stss"] :
      syncs[h][movie[h]["stss"][i]] <= Len(movie[h]["stsz"])

(* The promise of DurableRecording, seen in the state of this module.      *)
Phase ==
  CASE pc \in {"open", "sync", "tables", "closing"} -> "recording"
    [] pc \in {"dead", "parse", "trim", "rewrite"}  -> "stopped"
    [] pc \in {"closed", "done"}                    -> "finished"
    [] pc = "refused"                               -> "refused"
    [] pc = "finalized"                             -> "discarded"

Durable == INSTANCE DurableRecording WITH
  phase     <- Phase,
  appended  <- [h \in Handles |-> Len(samples[h])],
  promised  <- acked,
  published <- [h \in Handles |-> Len(movie[h]["stsz"])]

(* The muxer and its recovery keep that promise when a process dies.       *)
ImplementsDurable == Durable!Spec
=============================================================================
