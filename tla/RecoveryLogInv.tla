---------------------------- MODULE RecoveryLogInv ----------------------------
(***************************************************************************)
(* The inductive invariants of RecoveryLog.  TInv holds with every fault   *)
(* and carries TypeOK; PrefixInv holds while writes to the tables file do  *)
(* not fail, and carries the shape of the log; CrashInv holds when only    *)
(* processes and sample writes fail, and carries the safety of recovery.   *)
(***************************************************************************)
EXTENDS RecoveryLog

InMux == {"open", "sync", "tables", "closing"}

-----------------------------------------------------------------------------
(* Type correctness.  A table read back from the log is looked up in the   *)
(* samples of the muxer, so that its type rests on the entries of the log  *)
(* and of the muxer being in bounds.                                       *)

WrittenInBounds ==
  \A h \in Handles, k \in Kinds : written[h][k] <= Count(h, k)

SyncHasTrack == pc = "sync" /\ step \in Kinds => walk # <<>>

(* While a record is open, it is the last of the log, it is a record of    *)
(* the table the sync is at, and its entries are the ones not yet written. *)
OpenIsLast ==
  open =>
    /\ pc = "sync" /\ step \in Kinds /\ log # <<>>
    /\ LET r == log[Len(log)]
       IN /\ r.h = Head(walk) /\ r.kind = step
          /\ r.got < r.number
          /\ r.first + r.got = written[Head(walk)][step] + 1
          /\ r.first + r.number = Count(Head(walk), step) + 1

LogInBounds ==
  \A i \in DOMAIN log :
    /\ log[i].first > 0
    /\ log[i].got <= log[i].number
    /\ log[i].kind \in {"stsz", "stco"} =>
         log[i].first + log[i].got <= Len(samples[log[i].h]) + 1

RecInBounds ==
  \A h \in Handles, k \in {"stsz", "stco"} :
    \A i \in DOMAIN rec[h][k] : rec[h][k][i] <= Len(samples[h])

ReadingInLog == pc = "parse" /\ reading => ri <= Len(log)

TInv ==
  /\ TypeOK
  /\ WrittenInBounds /\ SyncHasTrack /\ OpenIsLast /\ LogInBounds
  /\ RecInBounds /\ ReadingInLog

-----------------------------------------------------------------------------
(* What the trimming makes sure of, whatever the parser read.              *)

TrimmedMatches ==
  pc = "rewrite" /\ ~errorMsg =>
    \A h \in Handles : Len(rec[h]["stsz"]) = Len(rec[h]["stco"])

(* Without a moov behind the data, the file holds nothing but samples. *)
OnlySamples ==
  /\ eof = valid
  /\ pc \in {"parse", "trim"} => rend = eof

TrimmedInFile ==
  pc \in {"rewrite", "done"} /\ ~errorMsg =>
    \A h \in Handles :
      \A i \in DOMAIN rec[h]["stco"] \cap DOMAIN rec[h]["stsz"] :
        End(h, i) <= valid

MovieIsRec == pc = "done" => movie = Moov(rec)

MatchInv  == TInv /\ TrimmedMatches /\ SizesMatchOffsets
IntactInv == TInv /\ OnlySamples /\ TrimmedInFile /\ MovieIsRec

-----------------------------------------------------------------------------
(* What makes a table that is read back a prefix of the table in memory.   *)
(* These hold when no write to the tables file fails, and with a loss of   *)
(* power too, unless the space lost is full of zeros that read as entries. *)

OfTable(r, h, k) == r.h = h /\ r.kind = k
Upto(r) == r.first + r.number
Whole(r) == r.cut = "no" /\ r.got = r.number

(* Only the end of the log may be missing... *)
OnlyLastPartial == \A i \in DOMAIN log : i < Len(log) => Whole(log[i])

(* ...which of a log that is being written is the entries to come... *)
OpenOrWhole ==
  pc \in InMux =>
    \A i \in DOMAIN log : Whole(log[i]) \/ (open /\ i = Len(log))

OpenIsUncut == open => log[Len(log)].cut = "no"

(* ...and nothing that the header covers, while the machine keeps running. *)
CommittedWhole ==
  "power" \notin Faults =>
    /\ tablesSize <= Len(log)
    /\ \A i \in 1 .. tablesSize : Whole(log[i])

(* The records of a table follow on one another. *)
LogChained ==
  \A j \in DOMAIN log :
    /\ \/ log[j].first = 1
       \/ \E i \in 1 .. j - 1 : /\ OfTable(log[i], log[j].h, log[j].kind)
                                /\ Upto(log[i]) = log[j].first
    /\ \A i \in 1 .. j - 1 : OfTable(log[i], log[j].h, log[j].kind) =>
                               Upto(log[i]) <= log[j].first

(* What a table counts as written is what the log has of it. *)
WrittenIsLogged ==
  pc \in InMux =>
    \A h \in Handles, k \in Kinds :
      ~(open /\ h = Head(walk) /\ k = step) =>
        /\ \A i \in DOMAIN log :
             OfTable(log[i], h, k) => Upto(log[i]) <= written[h][k] + 1
        /\ \/ written[h][k] = 0
           \/ \E i \in DOMAIN log :
                OfTable(log[i], h, k) /\ Upto(log[i]) = written[h][k] + 1

RecIsPrefix ==
  \A h \in Handles, k \in Kinds :
    \A i \in DOMAIN rec[h][k] : rec[h][k][i] = i

(* The parser is at a record of the log, or behind the last one. *)
ReaderInLog ==
  pc \in {"parse", "trim"} =>
    /\ ri <= Len(log) + 1
    /\ reading => ri <= Len(log) /\ ri <= tablesSize /\ rj < Cur.number
    /\ ~reading => rj = 0

(* The entries read are those of the records before record ri, and the rj  *)
(* first ones of record ri.                                                *)
RecFollowsLog ==
  pc \in {"parse", "trim"} =>
    \A h \in Handles, k \in Kinds :
      /\ \A i \in 1 .. ri - 1 :
           OfTable(log[i], h, k) => Upto(log[i]) <= Len(rec[h][k]) + 1
      /\ IF reading /\ OfTable(Cur, h, k)
         THEN Len(rec[h][k]) + 1 = Cur.first + rj
         ELSE \/ Len(rec[h][k]) = 0
              \/ \E i \in 1 .. ri - 1 :
                   OfTable(log[i], h, k) /\ Upto(log[i]) = Len(rec[h][k]) + 1

LogShape ==
  /\ OnlyLastPartial /\ OpenOrWhole /\ OpenIsUncut /\ CommittedWhole
  /\ LogChained /\ WrittenIsLogged

RecShape == RecIsPrefix /\ ReaderInLog /\ RecFollowsLog

PrefixInv == TInv /\ LogShape /\ RecShape

-----------------------------------------------------------------------------
(* The writer, while only processes and sample writes fail. *)

(* A reader that counts the tracks gives each the handle it had. *)
TracksInOrder ==
  \A j \in DOMAIN log :
    IF log[j].kind = "trak"
    THEN /\ log[j].number = 1
         /\ \/ log[j].h = 1
            \/ \E i \in 1 .. j - 1 : OfTable(log[i], log[j].h - 1, "trak")
    ELSE \E i \in 1 .. j - 1 : OfTable(log[i], log[j].h, "trak")

Synced(h) ==
  /\ written[h]["trak"] # 0
  /\ written[h]["stsz"] = Len(samples[h])
  /\ written[h]["stco"] = Len(samples[h])

SamplesHaveTracks ==
  \A h \in Handles : h \notin DOMAIN type => samples[h] = <<>>

ListHasTracks ==
  pc \in InMux =>
    /\ \A i \in DOMAIN list : list[i] \in DOMAIN type
    /\ \A h \in DOMAIN type : \E i \in DOMAIN list : list[i] = h

(* The tracks the log does not know come in the order of their handles. *)
UnwrittenInOrder(l) ==
  \A i, j \in DOMAIN l : i < j /\ written[l[i]]["trak"] = 0 => l[i] < l[j]

ListInOrder == pc \in {"open", "sync", "tables"} => UnwrittenInOrder(list)

(* What the sync has left behind is synced. *)
WalkInOrder ==
  pc = "sync" =>
    /\ UnwrittenInOrder(walk)
    /\ \A i \in DOMAIN walk : walk[i] \in DOMAIN type
    /\ \A h \in DOMAIN type : (\E i \in DOMAIN walk : walk[i] = h) \/ Synced(h)
    /\ step = "header" => walk = <<>>

StepInOrder ==
  pc = "sync" /\ step \in Kinds =>
    /\ step = "trak" <=> written[Head(walk)]["trak"] = 0
    /\ step = "stco" => written[Head(walk)]["stsz"] = Len(samples[Head(walk)])

TablesSynced ==
  pc = "tables" => \A h \in DOMAIN type : written[h]["trak"] # 0

WriterInv ==
  /\ TracksInOrder /\ SamplesHaveTracks /\ ListHasTracks /\ ListInOrder
  /\ WalkInOrder /\ StepInOrder /\ TablesSynced

-----------------------------------------------------------------------------
(* What a successful sync promised is in the files. *)

AckedLogged ==
  pc # "finalized" =>
    \A h \in Handles :
      /\ acked[h] <= Len(samples[h])
      /\ acked[h] > 0 =>
           \A k \in {"stsz", "stco"} : \E i \in 1 .. tablesSize :
             OfTable(log[i], h, k) /\ Upto(log[i]) > acked[h]

(* The entries of a table, and the samples, that the log has. *)
LoggedEntries(h, k) ==
  UNION {1 .. Upto(log[i]) - 1 :
           i \in {j \in 1 .. tablesSize : OfTable(log[j], h, k)}}
LoggedSamples(h) == LoggedEntries(h, "stsz") \cap LoggedEntries(h, "stco")

(* The movie that they make. *)
LoggedMovie ==
  [h \in Handles |-> [k \in MoovKinds |->
     IF LoggedSamples(h) = {} THEN <<>>
     ELSE [i \in IF k = "stss" THEN LoggedEntries(h, k) ELSE LoggedSamples(h)
             |-> i]]]

LoggedInFile ==
  pc # "finalized" =>
    \A h \in Handles : \A i \in 1 .. Len(samples[h]) :
      i \in LoggedSamples(h) \/ pc \in InMux =>
        samples[h][i].off + samples[h][i].size <= eof

-----------------------------------------------------------------------------
(* The reader. *)

ReadsOn ==
  pc \in {"parse", "trim"} =>
    /\ ~errorMsg
    /\ ri <= tablesSize + 1
    /\ \A i \in 1 .. ri - 1 : log[i].kind = "trak" => log[i].h <= rcount
    /\ pc = "trim" => ri = tablesSize + 1
    /\ rend = eof

RewritesAcked ==
  pc = "rewrite" =>
    /\ ~errorMsg
    /\ \A h \in Handles : /\ acked[h] <= Len(rec[h]["stsz"])
                          /\ Len(rec[h]["stco"]) = Len(rec[h]["stsz"])

(* Every recovery ends in the movie of the log. *)
RewritesLogged == pc = "rewrite" => Moov(rec) = LoggedMovie

RecoveredIsLogged ==
  recovered # NoMovie /\ pc # "finalized" =>
    pc \notin InMux /\ recovered = LoggedMovie

ReaderInv ==
  ReadsOn /\ RewritesAcked /\ NoAckedLoss /\ RewritesLogged /\ RecoveredIsLogged

CrashInv == PrefixInv /\ WriterInv /\ AckedLogged /\ LoggedInFile /\ ReaderInv
=============================================================================
