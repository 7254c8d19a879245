# Formal models of libmp4

libmp4 (C) writes and reads MP4 files (ISO/IEC 14496-12). A *muxer* records
tracks of samples into a data file; a *recovery log* beside it makes an
interrupted recording readable; a *demuxer* opens a file, reads its samples and
seeks. This directory holds TLA+ models of these parts, the TLC runs that check
them on small instances, and proofs that TLAPS checks for every instance. Paths
below are relative to the root of the repository.

## 1. Inventory

| Component | State | Operations | Source |
|---|---|---|---|
| muxer interface | tracks and their tables in memory, counters of what is logged, `max_tables_size_reached` | open, add track / reference / metadata / cover / sample, dump, sync, close | `src/mp4_mux.c` |
| data file | ftyp, reserved space, mdat, moov; file position | placing moov, free and mdat at each sync, close and recovery | `src/mp4_mux.c`, `src/mp4_box_writer.c` |
| box writer | `tables.buf`, offset, size | one writer per box, nested, with a limit on bytes; sizes put in place afterwards | `src/mp4_box_writer.c`, `src/mp4_priv.h` |
| recovery log, writer | tables file: header with `tables_size`, records; per-table `stbl_index_write_count` | `mp4_mux_incremental_sync` | `src/mp4_recovery_writer.c` |
| recovery log, reader | a muxer that is filled from the log | parse, trim to what is in the data file, rewrite, finalize | `src/mp4_recovery_reader.c`, `src/mp4_recovery.c` |
| box reader | file position, stack of boxes | `mp4_box_children_read` and one reader per box | `src/mp4_box_reader.c` |
| demuxer interface | `nextSample` and `pendingSeekTime` per track | open, read, seek (five methods), step back and forth | `src/mp4_demux.c` |
| tracks and times | decoding times, sync samples, references between tracks | building tables, search by time, conversions of times | `src/mp4_track.c`, `include/libmp4.h` |
| metadata | key / value lists of file and tracks, cover | set, log, box, read back, choose what is shown | four files above |
| decoder configs | parameter sets, `hvcc_info`, audio specific config, mime type of a track | set, log once, write as sample entry, read back, copy into another file | `src/mp4_mux.c`, `src/mp4_recovery_*.c`, `src/mp4_box_*.c`, `tools/mp4_mux.c` |
| box dump to JSON | `file.read_bytes`, `last_box`, the kind of metadata, the number of keys | `mp4_file_to_json` and one reader per box | `src/mp4_box_to_json.c` |
| names of types, other tools, tests | none of their own | not modelled, see section 8 | `src/mp4.c`, `tools/`, `tests/` |

The library has no threads and no callbacks. What is hard in it is *crashes*:
an application calls the muxer, which writes to two files in an order that has
to make sense at whichever write the process stops; another process then reads
both files and rewrites one of them, and may stop in turn. Beside that: short
and failing writes, sizes and offsets that reach a limit (32-bit mdat, the
reserved space, a few bytes of padding), and the state that the demuxer carries
from a seek to the next reads and steps. And the bytes of a box are known in four places, the writer, the
reader, the dump and the log, each with code of its own that has to agree with
the others.

How the components interact: `mp4_mux_sync` first appends to the log what the
tables in memory got since the last sync, and, with `write_tables`, has the box
writer build a moov in memory and writes it into the data file.
`mp4_recovery_recover_file` opens a *second* muxer on the data file, fills its
tables from the log, trims them to the data file and closes it, which writes the
moov. The demuxer reads the data file only, and the dump reads it with readers of
its own. The tool `mp4_mux` feeds what a demuxer shows to another muxer.

Properties that make each component correct (the names are those of section 4):
what a successful sync covered survives (`NoAckedLoss`), what is recovered is a
prefix of what was recorded (`RecoveredIsPrefix`, `RecoveredIntact`), no box is
written over samples (`SamplesIntact`), a file closed or synced is readable
(`ClosedReadable`, `SyncedReadable`), the tree of boxes that is written is the
one that is read, or none of it (`WholeOrNone`), a player is never shown a
sample it cannot decode (`ShownIsDecoded`), what the demuxer shows of metadata
and of decoder configs is what was set or logged (`MetadataShown`, `LinksShown`,
`ConfigsShown`), and the dump never reads a box at the wrong place
(`ShownInStep`).

`PROJECT.json` lists the hazards, each at its line, with the properties that
would notice them.

## 2. Modules

| Module | What it is | EXTENDS / instance of |
|---|---|---|
| `DurableRecording` | abstract specification: a sync promises the samples so far; a recording ends in a movie with at least the promised and at most the appended ones | |
| `RecoveryLog` | muxer, tables file, crash, recovery: the core | instance of `DurableRecording` |
| `RecoveryLogInv` | inductive invariants `TInv`, `MatchInv`, `IntactInv`, `PrefixInv`, `CrashInv` | `RecoveryLog` |
| `RecoveryLogProofs` | proofs of type correctness, with every fault; of what a recovery gives back: tables that match, bytes that are there, prefixes; of what a crash keeps: no acknowledged loss, a recovery that can be run again, the refinement of `DurableRecording` | `RecoveryLogInv`, TLAPS |
| `MuxFile` | where the boxes and samples are in the data file, cell by cell; crash inside a write; recovery with another reserve | |
| `MuxFileProofs` | proofs of the layout (samples in the file, no box over them) and that a closed or synced file is read back | `MuxFile`, `Recursion` |
| `BoxTree` | box writer with its room, the file, box reader with its stack; cut and damaged files | |
| `BoxTreeProofs` | proofs that the writer stays inside its room and the reader inside its file, and that a moov is read as it was written or not at all | `BoxTree`, `Recursion` |
| `SampleTables` | pure functions: time-to-sample tables and the conversions of times, one operator per C function | |
| `Playback` | abstract specification of a player of a track: which samples each seek and step may lead to, what is silent | |
| `Demux` | muxer's times, the demuxer's reading, seeking, stepping, metadata samples | `SampleTables`, instance of `Playback` |
| `DemuxProofs` | proofs that the times written are the times read, and of all that the run demux_play checks, the refinement of `Playback` included | `Demux`, `Recursion` |
| `Metadata` | metadata, references and cover: calls, log, replay, boxes, reader, what is shown | |
| `MetadataProofs` | proofs of all that the run meta_shown checks | `Metadata`, `Recursion` |
| `TrackConfig` | decoder configs and mime types: calls, log with broken records, replay, sample entries, reader, copies of copies | |
| `TrackConfigProofs` | proofs of all that the run config checks | `TrackConfig`, `Recursion` |
| `Recursion` | lemmas for the proofs: the least counterexample, functions defined by recursion, folds over lists and `FlattenSeq` | TLAPS |
| `BoxLayouts` | pure functions: how many bytes each writer puts in a box, each reader demands, the dump takes | |
| `BoxDump` | the dump of whole and cut files: loops, skips, short reads | `BoxLayouts` |
| `BoxDumpProofs` | proofs of all that the run box_dump checks | `BoxDump`, `Recursion` |
| `MC*` | small instances for TLC | the module they are named after |

Correspondence with the code is kept in `PROJECT.json` under "map": each
definition names the lines it stands for. In general

* a variable is a field of `struct mp4_mux`, `mp4_mux_track`, `mp4_track`,
  `mp4_recovery_tables_header`, or a file; variables commented "history" are not
  in the code and no action's guard reads them;
* an action is one call, or the part of a call from one write that a crash can
  separate to the next. In `RecoveryLog` a sync is `BeginSync`, then a
  `VisitTrack` for each track, `WriteBoxInfo` and `WriteEntry` for each table,
  `WriteHeader`, and `SyncTables` when a moov is asked for; a recovery is
  `RecoverStart`, one action per thing read, `Trim` and `Rewrite`;
* parts of a call between which nothing can be observed are one action: in
  `BoxTree` a box and its fields, in `Metadata` and `TrackConfig` a whole sync,
  in `Demux` a whole call, in `BoxDump` a box without boxes inside.

### RecoveryLog

The tables file is a sequence of records, each with a table, the index of its
first entry, the number announced in its `box_info` and the number really in
the file; `tables_size` counts records. Entry *k* of a table is *k*, so that a
missing, doubled or moved entry shows. Data-file offsets are kept exactly
(`off`, `size`), since the trimming compares them with the end of the file.
Handles and the order of `mux->tracks` are kept apart, because the recovery
numbers tracks by the order of their records: that is what makes sorting
(`SortTracks`, also called by `mp4_mux_dump`) dangerous.

Faults are selected by `Faults`: "disk" (a sample write fails after part of it
was written), "write" (a write to the tables file is short), "power" (the tables
file, which is never fsynced, loses any suffix and the data file what came after
its last fsync). `Crash` is always possible.

### MuxFile

The file is a sequence of cells of four bytes. Each cell says which box header,
table or sample it belongs to, so "overwritten" and "read as something else" can
be seen. The moov is built in memory and written by one `write`, then the
padding by others: a crash falls between writes or inside one, leaving a prefix of it.
A box writer may also refuse the config of a track (`MoovRefused`): its error is
then overwritten by the result of `fsync` (`src/mp4_mux.c:1247` and `:1254`), no
moov is written, and the call returns 0. `refused`, a history variable, remembers it.
`Demuxed` is the top level of `mp4_box_children_read` over these cells.

### BoxTree

Sizes are in bytes; memory and file are words. The writer's stack carries the
`maxBytes` of each call, exactly as it is computed; running out of it restarts
the tree with more memory (`Grow`) or gives up. The reader's stack carries
`maxBytes`, `parentReadBytes`, `realBoxSize` and `boxReadBytes`. Between them
the file may be cut at any word (a copy or a disk that ended) or have lost one.
The fields of a box without an influence on the control are `Body` words. A
fourth kind, the table, has a number of entries that the reader checks. `seen`
leaves out the boxes with nothing inside: the reader does not look at the last
8 bytes of a box, so whether it meets such a box depends on what is behind it.

### Demux, SampleTables, Playback

`SampleTables` translates the integer arithmetic of `mp4_usec_to_sample_time`
and its kin, and the time-to-sample table with its 32-bit differences (`Wrap`
stands for 2^32, `Usec` for 1000000). `Demux` records some samples, opens the
file and then is subject to any sequence of calls. `Playback` states, from sets
of samples and not from searches, where a seek may land; `PlaysAsPromised` is the
refinement.

### Metadata

Calls before and after syncs, a crash, the replay of the log, the boxes that
`mp4_mux_close` writes for META, UDTA and UDTA-root storages, and
`mp4_demux_open`. Keys and values are names; `Alternate` is the table of paired
keys.

### TrackConfig

`mux` holds the config of each track, which of them have samples and which refer
to the video. `SetVideo`, `SetAudio`, `SetMime`, `SetCover`, `AddRef` and
`AddSample` are the calls; a config that is refused leaves the track with the
size of the new one and the parameter sets of the old one, as the code does.
`Sync` appends the records of the tracks not yet logged: a video without a config
breaks its record off and fails the call, a cover may be written short without
anybody noticing. `committed` is what the header covers. `Recover` folds
`ReadRecord` over the log; behind a cover that lacks bytes the reader is out of
step, and `resume` says where, if anywhere, it is in step again. `Close` and the
end of a recovery make `FileOf` of the muxer: if one config cannot be written
there is no moov, and the call returns 0 (`CloseOf`; with an error only from the
second attempt, when the moov does not fit before the samples). Otherwise the
configs are packed into sample entries: the fields of an `hvcC` are packed bit by bit
(`HvccBytes`, `ReadHvcc`; `Packed` is the operator `|` of C on one octet),
everything else is a whole. `Open` unpacks them and
`Copy` is `tools/mp4_mux.c` making a file of what is shown.

### BoxLayouts and BoxDump

`BoxLayouts` has, for each type of box, three sums of field widths: what is
written, what the demuxer needs, what the dump takes. `BoxDump` builds the boxes
of a file from a record of what was recorded, in the order of the writers, each
with its place and size (`boxes`, which no step changes), and reads them as
`mp4_box_to_json.c` does: `frames` is
the stack of calls of `read_container_box`, `readBytes` the counter that decides
when the dump is over, `keyCount` and `trackType` what the dump carries from
`keys` and `hdlr` to an `ilst`. Of a table only up to `MaxSubBoxes` entries
(`MAX_SUB_BOXES` in the code, 20000) are read; one with more is skipped by
`lseek`, which does not mind the end of the file (`TooMany`). A file may be cut
at any byte. The phase "lost"
is a header read where no box begins, "undefined" the use of a value that was not
read.

## 3. Bounds

Each is a CONSTANT that appears in a guard. They are small; what they have to
let happen is listed.

| Run | Bounds | The case they reach |
|---|---|---|
| log_crash | 2 tracks (one disabled), 2 samples each, 2 syncs, 1 recovery | tracks of one kind that the sort must order; a second sync that continues tables; crash at every write of either process |
| log_power | 1 track, 2 samples, 2 syncs, 2 recoveries, power loss | any suffix of the log lost, inside records; a recovery of a recovered file |
| log_calls | 1 track, 1 sample, all faults, preallocated file, a moov behind the data | zeros and broken records in every place; all exits of the parser |
| log_stss | the smallest that shows the case | see section 6 |
| file_layout | 2 samples of 4 cells, 2 syncs, 2 recoveries; reserve 11, default 10 cells; the mdat turns wide after 6 cells; a new file or one of 24 cells | moov that fits exactly, leaves less than a header, or does not fit; wide mdat; old bytes behind |
| file_recovered | the same, 1 recovery | recovery of a log without a sample |
| box_tree | trees of 4 boxes, 4 levels, reserve of 16 or 40 bytes, at most 4 as the factor; a damaged word is 0, 1, 4 or 24 | every nesting; first attempt fits, fits after growing, is given up; all cuts; a size that says "64 bits follow", is too small, or too large |
| demux_play | video of 3 samples, metadata of 2; times from {0, 1, 3} and a wrap at 4; time scales 3 and 2 | equal times, rounding down between time scales, first, middle and last sample |
| meta_shown | 3 tracks, 4 calls, 2 syncs, 2 values one of which is empty | override after a sync, paired keys, empty value, two references |
| config, config_lost | video with audio, metadata or chapters; 4 calls, 2 syncs, 4 files; 5 video configs (one refused, one with a short parameter set, one wider than 16 bits), 2 audio, 2 mime types | a config set before, between and after two syncs; a broken record that is later committed; a copy of a copy of a copy |
| box_dump | 5 lists of tracks of all kinds, 3 kinds of metadata, moov in front and behind, mdat narrow, wide or of size 0, with less and more data than the moov is long; 8 files cut at every byte; the dump reads tables of 2 entries, others have 3 | every box the muxer writes; every ending of a moov, a table that is read and one that is skipped |

A dump holds no state between two boxes but its counters, so two entries in a
table or a list are enough, and one more for what is skipped. `CopiesSettle` needs four files: it compares a third
copy with a second one.

In the times of a track, three samples are the fewest with a first, a middle and a last one; two syncs are
the fewest for a record that continues a table, and a third only repeats what
the second does, since the writer's state between syncs is the counters alone
(`WrittenIsLogged`). Two tracks are the fewest for an order; a third one adds no
other relation than between pairs (`UnwrittenInOrder`).

Deadlock is not checked (`CHECK_DEADLOCK FALSE`): every model stops, when the
recording is closed or the calls are used up, and so does the program.

## 4. Runs that pass

* **log_crash**: `CrashInv` (the invariant of section 7, whose parts say that
  the header covers only whole records, that records of a table follow on one
  another, that a reader counting tracks gives them their handles, that what was
  acknowledged is in the log and in the data file, and that a recovery that is
  repeated makes the same movie), `NoAckedLoss`, and `ImplementsDurable`: muxer, crash and recovery implement
  `DurableRecording`. Without calls to `mp4_mux_dump` and without power loss;
  `mp4_mux_dump` sorts the tracks, and a log cut by the machine has lost what the
  sync promised.
* **log_power**: `RecoveredIsPrefix`, `RecoveredIntact`, `SizesMatchOffsets`,
  `RecoveryRepeatable`. Losing the machine can lose acknowledged samples (the
  tables file is not fsynced), but what comes back is a consistent prefix.
* **log_calls**: `TypeOK`, `TInv`, and the liveness property `CallsReturn`.
* **file_layout**: `TypeOK`, `SamplesIntact`, `ClosedReadable`,
  `SyncedReadable` (from a sync with tables to the next write of a sample). Both
  set apart a call that lost the error of a box writer: it has written no moov.
* **box_tree**: `TypeOK`, `RoomKept`, `WholeOrNone`, `OnlyCutRefused`, `Ends`.
* **demux_play**: `TypeOK`, `ShownIsDecoded` (whatever seeks and steps come,
  a sample that is shown has all since its sync sample decoded), `TimesKept`,
  `SeeksFindAims`, `MetadataOnce`, `ReportedSyncsFound`, `StepsByOne`, and
  `PlaysAsPromised`, the refinement of `Playback`.
* **meta_shown**: `TypeOK`, `MetadataShown` (of file and tracks, closed or
  recovered), `Recovered`, `LinksShown`.
* **config**: `TypeOK`; `ConfigsShown`: a file shows the configs that were set, a
  recovered one those that were logged last; `AckedTracksShown`: no track that a
  sync answered for is missing from the recovered file unless a record before it
  is broken, or a config was logged that cannot be written, and then all are; `CopiesSettle`: copies made one from the other stop changing after
  the third.
* **box_dump**: `TypeOK`; `BodiesAccepted`: no writer makes a box that the
  demuxer's reader finds too short; `ShownInStep` and `WholeShown`: the dump
  prints the boxes that are there, and all of the moov; `CutNoticed`: a moov that
  was cut is reported, but for the bytes of a last value and those of a last
  table that is skipped.

Every property has a mutant beside the definition it changes (an operator
commented "Mutant") for which TLC finds it violated.

## 5. Fairness

`RecoveryLog` has weak fairness of `MuxNext` and of `RecoveryNext`, the steps of
a call under way: a function that has been called and whose process is alive
takes its next step. There is none for the application's calls, for crashes or
for faults. `BoxTree` has weak fairness of `Next`: writer and reader are loops
of one thread, and the opening of the file follows. The other modules have no
liveness properties: their calls are single actions.

## 6. Runs that end in a violation

Each states what the documentation says and finds the code elsewhere.

* **log_stss**: sync samples are not trimmed with the samples, so a recovered
  movie names sync samples it does not have (`SyncSamplesExist`).
* **file_recovered**: the recovery of a log without a sample returns 0 and
  leaves a file without its ftyp, which the demuxer refuses (`RecoveredReadable`).
* **config_lost**: a config that cannot be written (no parameter set, or one of
  less than 4 bytes) is logged; the recovery returns 0, and the tracks that
  `mp4_mux_sync` answered for are not in the file, which has no moov
  (`AckedInFile`). The error of the box writer is overwritten by the result of
  `fsync`.

Other divergences are under "findings" without a run of their own; the models
have the code as it is, and the properties name the exceptions:

* in the log: `mp4_mux_dump` sorts the tracks (constant `Dumps`); a short write
  of a `box_info` goes unreported (fault "write"); a track's references are
  logged by their number as a number of bytes; a config set after the first sync
  is not logged, and the broken record of a video without one is committed by a
  later sync (`spoiled` in `TrackConfig`);
* in the recovery: the size of the reserve is divided twice, the result of the
  filling is overwritten;
* in the boxes: one of size 0, an empty metadata value (`HasEmptyValue` of
  `Metadata`), a cover without other metadata, the unpadded bytes before the
  mdat, samples behind the mdat after a sync, the channels and the rate of an
  `mp4a`; of an `hvcc_info` the chroma format, the parallelism and the number of
  temporal layers, which come back changed (`HvccBytes`, `ReadHvcc`); a `tref` of several references, whose second box is read as more of the
  first (`TrefWords` of `Metadata`);
* in the dump: the loop over the file stops before boxes that follow the moov,
  and 8 bytes too many are skipped of a wide mdat (`MoovEnd`, `BehindWide`);
* in the documentation of two methods of seeking.

## 7. Proofs

TLAPS proves the theorems below for all values of the constants that satisfy the
assumptions named in the modules. TLC evaluates those assumptions in every run.
A premise that a theorem has besides them is stated with it; each of them names
something that the code itself does not make sure of.

### RecoveryLog

* `LogBounds`, `TypeCorrect` (`RecoveryLogProofs`): `Spec => []TInv`,
  `Spec => []TypeOK`, with every fault. `TypeOK` is not inductive: what the
  parser appends to `rec` is looked up in the log, and the entries of the log in
  the samples of the muxer. `TInv` adds that counters written do not exceed the
  tables (`WrittenInBounds`), that an open record is the last one and of the
  table the sync is at (`OpenIsLast`), that entries in log and in `rec` are in
  bounds (`LogInBounds`, `RecInBounds`) and that the parser is inside the log
  while it reads (`ReadingInLog`). One lemma per action shows that it preserves
  `TInv`; those of the parser share lemmas about its exits.
* `RecoveredTablesMatch`: `Spec => []SizesMatchOffsets`,
  through `MatchInv`. A call enters "rewrite" with an error or by `Trim`, which
  cuts both tables to the same length.
* `RecoveredSamplesIntact`: `Spec => []RecoveredIntact` where `MoovTail = 0`,
  through `IntactInv`. `OnlySamples` says that the data file holds nothing but
  samples, so that a sample inside the file is a sample written; with a moov
  behind the data that is false and so is the theorem.
* `RecoveredArePrefixes`: `Spec => []RecoveredIsPrefix` where `"write" \notin Faults`
  and, with preallocated blocks, `"power" \notin Faults`. `PrefixInv` is `TInv`
  with `LogShape` (the records of a table follow on one another, each with the
  entries from where the one before ended) and `RecShape` (what the parser has
  read of a table is what the records before its place in the log say). A short
  write of a `box_info` is not reported, so the next sync logs the record behind
  half of a header; and zeros where a block was lost read as entries.
* `CrashSafety`, `AckedKept`, `RecoveryRepeats`, `PromiseIsImplemented`:
  `Spec => []CrashInv`, and from it `NoAckedLoss`, `RecoveryRepeatable` and the refinement of `DurableRecording`, where neither
  `"write"` nor `"power"` is in `Faults` and the application does not call
  `mp4_mux_dump`. A failed write of the tables file leaves a log that a later
  sync believes in; the tables file is not fsynced; and `mp4_mux_dump` sorts the
  tracks, after which the handles in the log are those of others. `CrashInv` is
  `PrefixInv` with four parts: `WriterInv` (where the sync stands, what it has
  written and in what order the tracks are), `AckedLogged` (what a sync answered
  for is in the log), `LoggedInFile` (what is in the log is in the data file,
  after the trimming as well) and `ReaderInv` (the parser has read what lies
  before it, a movie that was recovered once is the movie of the log). The
  refinement has one step lemma per phase; the mapping is that of the run.

### MuxFile

* `Layout`, `TypeCorrect` (`MuxFileProofs`): `Spec => []LayoutInv`. The samples
  in the tables in memory and in the log (`RecordsBehind`) are behind the
  reserved space, one behind the other and in the file (`SamplesInFile`), and
  the recovery cuts the file behind them (`CutWhenClosing`). `TypeOK` needs it:
  the file stays a sequence only if the cut is inside.
* `SamplesKept`: `Spec => []SamplesIntact` where `DefaultReserve <= Reserve`. A
  recovery always reserves `MP4_MUX_DEFAULT_TABLE_SIZE_MB`; with a muxer that
  reserved less, its headers are written over samples.
* `FileReadable`, `ClosedIsReadable`, `SyncedIsReadable`:
  `Spec => []ReadInv`, `[]ClosedReadable`, `[]SyncedReadable`, for every call that
  did not lose the error of a box writer (`~refused`, in the properties
  themselves), and where also `PaddingFails = FALSE`: nobody notices that the write of a padding failed, and
  the old bytes between moov and mdat may then read as a box. `ReadInv` adds to
  the layout that the samples are intact, that the boxes last written are still
  there while a call answers for them (`CallsInv`, `BoxesWritten`; after
  `MoovRefused` no call does), and that
  nothing between moov and mdat is taken for a box (`GapQuiet`). The scan of the
  demuxer is a recursive function; that it arrives at a box of the file is shown
  by the least place at which it would not.

### Tables, Demux

* `TimesComeBack` (`DemuxProofs`): for every sequence of times that do
  not go back and leave gaps below UINT32_MAX, the run lengths that the muxer
  makes can be built by the demuxer and give the times less the first. The
  induction is over the first sample at which they would differ.
* `TypeCorrect`, `TimesReadBack`, `DecodedIsShown`, `SeeksFindThem`,
  `MetadataGoesOnce`, `PromiseIsPlayed`: the invariants of the
  run demux_play and the refinement of `Playback`, without another premise.
  `DemuxInv` says that the times of a track do not go back, that its sync
  samples are samples, that an open track has a cursor inside its table or at the
  end of it, and that it can be built; `DecodeInv` adds that the next sample is a
  sync sample or the one at or behind the last that was decoded (`Followed`). The search of a seek begins with
  an estimate: the lemmas show that from any sample it ends at the one the method
  names.
* `SyncsReported`, `StepsAreByOne`: the same for `ReportedSyncsFound` and
  `StepsByOne`, where no timescale is finer than a microsecond: two samples in
  one microsecond cannot be told apart by a seek.

### Metadata

* `TypeCorrect`, `RecoveredAsSynced` (`MetadataProofs`): `Spec => []TypeOK` and
  `Spec => []Recovered`, without another premise. `Inv` relates the muxer to the
  replay of its log at every moment: the part of a list that counts as logged is
  in the replay, key by key (`LogFollows`, of `MuxInv`), so that the next
  `mp4_mux_sync` makes the replay what the muxer is (`LogInv`), and a recovery,
  which is that replay, what the muxer was (`RecInv`). A key and its alternate are
  added by one call, in the call and in the replay alike, and the record of the
  one may find the other there already: `Paired` says that a list of the muxer
  has with a key its alternate, `Distinct` that it has no key twice. Both are needed to see that the replay ends with the same entries in
  whatever order they were overridden.
* `MetadataIsShown`: `Spec => []MetadataShown`, without another premise. `ReadInv`
  says that the movie is `Moov` and what is shown is what was read of it. The
  lemma `MoovIsRead` reads the moov box by box: what the boxes of an owner change
  in the reader and what they leave alone (`InfoRead`, `TrackRead`), then an
  induction over the tracks (`TracksRead`), then the boxes of the file.
* `LinksAreShown`: `Spec => []LinksShown` where `Len(Types) < 16`. A track of n
  references has n boxes in its `tref`, each with all of them, and the reader
  takes what is behind the header of the first for track IDs; the size of the
  second, 8 + 4n, is one of 16 and more. With 16 tracks the property is false.

The model builds lists with `FlattenSeq` and replays and reads them with recursive
functions. `Recursion` shows what these return: a function that obeys the recursion
exists (lemma `Recursion`), two that do agree at every place (`RunsAgree`, by the
least place where they would not), and so the recursive function is that one
(`FlattenFolds`, and `ReplayFolds` and `ReadingFolds` of `MetadataProofs`).
`FlattenPlaces` says where `FlattenSeq` puts what: each element of a list at its
place behind the lists before.

### TrackConfig

* `TypeCorrect`, `AckedAreShown`, `CopiesComeToRest` (`TrackConfigProofs`):
  `Spec => []TypeOK`, `[]AckedTracksShown` and `CopiesSettle`, without another
  premise. `Inv` is `Typed` (what each track can have by its type), `StageInv`
  (what the muxer, the file and what is shown say of one another) and, until the
  recovery, `LogInv`, behind it `RecInv`. `LogInv` says of every record of the log
  what it stands for (`RecordOk`: a track is followed by its config, comes behind
  the tracks before it, and its config is one that was set), that the last config
  in the log is the last one logged (`LastLogged`), and that the samples a sync
  answered for are in a part without a broken record (`AckedWhole`). `AckedTracksShown`
  has the exception that the code makes: a config that cannot be written costs
  the whole moov, whether the recovery then returns an error or 0; that it was one
  that was logged is what `Got` gives. The recovery
  reads this log for any `resume`: behind each record (`ReadOk`, by induction over
  the log) a reader that goes on numbers the tracks as the muxer did (`KnownOk`),
  has only configs that were logged (`Got`), and has missed nothing as long as the
  log is whole (`FilledAll`, `InStep`). For this it matters that the config comes
  right behind its track: a reader that is stopped by the broken one knows a track
  it has no config of, but has none of its samples (`FilledOk`).
* `ConfigsAreShown`: `Spec => []ConfigsShown` where `InfosInRoom`: the fields of
  the infos that the caller sets fit into the bits that an `hvcC` has for them.
  The muxer does not look, so a profile space of 4 is read as 0. `RoomInv` carries
  the premise to the close. What octets keep is shown once, bit by bit, in
  `PackedParts`, and from it for each octet of the box (`InfoIsRead`,
  `ProfileIsRead`, `LayersAreRead`).
* `CopiesSettle` rests on `InfoSettles`: what was read of an `hvcC` is written
  and read as it is, but for the layers, shifted by five bits and read from the
  third: of an odd number 4 is left, of an even one 0, which are 0 in the next
  file (`Rest`). From the third file on `shown` is what the muxer of the next copy
  holds (`StageInv`), so it is shown again.

### BoxTree

* `RoomIsKept` (`BoxTreeProofs`): `Spec => []RoomKept`, for trees of any depth
  and size. `RoomInv` adds why each write fits: the place where a container
  began plus the `maxBytes` it was given is the same `Limit` on every level of the
  stack, so that `maxBytes - bytesWritten` is what is left of `tables.buf`. The
  conjunct about `next` says that a second box cannot be asked for at the level
  of the moov, where `maxBytes` would start anew; it rests on `TreeAssumption`.
* `TypeCorrect`: `Spec => []TypeOK`, for a file that is cut, one that has a
  damaged word and one that is whole. Every word the reader reads is in the file.
  `ReaderInv` says why: each nested call may read what is left of the box it is
  in (`Nested`), so the ends of the boxes around it (`EndsAt`) lie one before the
  other up to the end of the file, whatever the sizes in the file say.
* `MoovIsWholeOrNone`: `Spec => []WholeOrNone`, without another premise. The
  invariant `MoovInv` adds three parts to that of the types, one for each place
  the moov goes through. `WriterInv`, in memory: `buf` is as long as the words of
  the boxes before `next` (`WordsTo`); each call of the stack is writing a box
  (`Writes`), and each box written has its type, its entries and, unless its call
  is still on the stack (`StillOpen`), its size. When the outermost call
  returns every size is in place (`ReadyHolds`). `PlacesInv`, in the file: there is
  a set of places such that at each of them is a box that ends at another, the
  moov, or the end (`Places`); `Behind` says that nothing behind the moov looks
  like a box of it. It survives a cut (`CutInPlace`). `SearchInv`, in the reader:
  it is `Before` the moov, `Inside` it or `After` it; inside, the calls of the stack
  are in boxes that enclose one another (`OnPath`), the innermost is at the start of
  box `k`, and `seen` is what the tree has to show of the boxes before `k` (`AtBox`).
  What makes the descent come out right is `LastIn`: the boxes inside one are the
  next ones of a deeper level, they end where its size says (`SizeOfIs`), and
  8 bytes or less left of it hide nothing but an empty box (`ShownAtEnd`).
* `OnlyCutIsRefused`: `Spec => []OnlyCutRefused` where `StaleQuiet`: the word
  left over in a padding without room for a `free` is 0 or larger than what can
  follow it in the file, as the type of an earlier `free` is. With a small number
  there the reader would go on at a wrong place behind the moov, which it has
  read by then: `MoovIsWholeOrNone` does not need the premise.

### BoxDump

`TypeCorrect`, `BodiesAreAccepted`, `DumpInStep`, `WholeIsShown`, `CutIsNoticed`
(`BoxDumpProofs`): the five invariants of the run box_dump, without another
premise, for any number of tracks of all kinds with any parameter sets,
references, samples and metadata, any number of entries that the dump reads of
a table, and a cut at any byte. `CutIsNoticed` has two exceptions, both in the code:
a cut in the value that ends the moov, and one in a table that ends it and is
skipped for its length (`TooMany`). They follow from one
inductive invariant (`Dumping`: `Spec => []DumpInv`). Its proof goes in four parts.

* *Lengths*: for each type of box what is written, what the demuxer needs and
  what the dump takes, by the layouts of `BoxLayouts` (`Tight`, `Accepted`). The
  dump takes from a box exactly what is written before the boxes inside it, but
  for a few, each of which the invariant has to know by name.
* *Order*: the writers are concatenations, and a file is a chain of boxes in
  which each may come next to the one before (`MayFollow`, `FileBoxesRun`). The
  relation has what the dump relies on without looking: a `stsd` has one entry, a
  `keyed` list comes right behind the `keys` that say how many there are, and the
  handler read last is the one the list belongs to.
* *Places*: from the sums of the lengths each box begins where the one before
  ends its own bytes, and ends where the last box inside it does (`Laid`).
* *Steps*: `Cursor` says where the dump stands. It is at the beginning of a box;
  each call on the stack reads a box that encloses the next (`Link`), has counted
  what lies before the place of the dump, and has boxes left if and only if that
  place is inside (`Stack`). `Told` says that the boxes before were printed and
  `Remembered` what was kept of the last one. The counter that ends the dump,
  which counts a box once for each call around it, is at least the position
  (`Bytes`), and equal to it up to the moov: that is why the moov is reached in
  every file, and what is behind it perhaps not. A cut can make the dump skip the boxes
  of a sample entry (`NameCut`); it is then at a `stts` that is cut too, and fails
  (`Skipped`). Behind a wide mdat the dump is 8 bytes too far: it either takes the
  boxes of the moov for boxes of the file, one level too high (`lift`), or stops
  in a `meta` it takes for another (`Off`); there only the types, the lengths and
  that a whole file is not refused remain.

`TypeOK` is not inductive without all of this: that no call has read more than
its box has rests on the boxes being enclosed in one another.

### Only model-checked

* All liveness (`CallsReturn`, `Ends`): liveness under fairness and ENABLED are
  beyond the prover. So is induction by the theorems of the library, which take
  an operator as a parameter; where a recursive function had to be reasoned
  about (`Scan`, `DecodingTimes`, the searches of `Demux`), the proof takes the
  least counterexample.

## 8. Not modelled, and simplifications

* `src/mp4.c` are tables of names. `tools/mp4_demux.c` and
  `tools/larry_covery.c` take options, call the library and print; of
  `tools/mp4_mux.c` only what it copies of tracks and configs is modelled, not
  its loop over samples. `tests/` were read for what calls are made.
* The readers of boxes that the muxer never writes: `pasp`, `btrt`, `elst`,
  `uuid`, `hmhd` and the isom tags in reader and dump.
* `BoxDump`: the JSON object, of which only "a line for each box" is kept; an
  item of an `ilst` that is cut before its value, behind which the outcome is
  undefined (phase "undefined"); an `ilst` with items the muxer does not write;
  the name of a handler of 100 bytes or more, longer than the array the dump
  reads it into (`src/mp4_box_to_json.c:720`): `RecordingAssumption` leaves
  such names out.
* `TrackConfig`: a second codec on a track that has one (AVC and HEVC share a
  union whose pointers are then freed as the other's); the string of
  `mp4_generate_avc_decoder_config`; the order of tracks, which `RecoveryLog` has.
* The order in which the caller of a recovery checks, finalizes and removes files.
* Out of memory and failing reads are left out everywhere; a failing `lseek` too.
* The storage UUID, the path handling of the recovery, the copying getters of
  the demuxer, and the contents of samples.
* `RecoveryLog`: every track has a config that its box writer accepts; what
  becomes of the moov otherwise is in `TrackConfig` and `MuxFile`. `tables_size` counts
  records, where the code has an offset: a header of 0 is refused, one behind a
  sync without records is not. Both have 0 records, and either may happen once
  there was a sync (`RecoverStart`).
* `MuxFile`: `mp4_mux_open` is one action. A moov torn by a crash inside its
  write promises nothing by itself; the log does.
* `Demux`: the tracks are those of the file. The muxer leaves a track without a
  sample out of it (`src/mp4_mux.c:864`), so a file is opened when each of
  `Tracks` has one. Decoding times are not negative; the product in the estimate of a
  seek does not overflow 64 bits; an error of input leaves the state unchanged.
* `Metadata`: tracks are in the order of the sort already, so a handle is an
  identifier; a sync is whole (its writes are the subject of `RecoveryLog`).
* `BoxTree`: boxes are multiples of four bytes, and a table has entries of a word.
  A 64-bit size whose high word is not 0 is longer than any file; one whose top
  bit is set, which the code reads as negative, is left out.

## 9. Plan

Done: the core (`RecoveryLog` with proofs), `MuxFile`, `Demux`, `Metadata`,
`TrackConfig`, `BoxTree`, `BoxLayouts` with `BoxDump`, their runs, and the
abstract specifications `DurableRecording` and `Playback`.

What could still be modelled:

1. more than one sample per chunk in the tables the demuxer builds (files of
   other muxers), as functions checked against a reference definition;
2. the UUID check of the recovery, and the order of the caller's own deletions;
3. failed allocations in the muxer's calls, which leave half of a call done.

Every invariant that a passing run checks, and every refinement, has a theorem.
What could be proved beside them: `MuxFile` as an implementation of a file that
has the samples and one moov, which `ReadInv` already says of its states.
