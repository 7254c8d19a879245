--------------------------- MODULE MetadataProofs ---------------------------
(***************************************************************************)
(* Proofs about Metadata: what a recovery finds of the metadata in the log *)
(* and what the demuxer shows of them, for any number of tracks, keys,     *)
(* values, calls and syncs.                                                *)
(*                                                                         *)
(* First what calls of the muxer make of a list, and what the records of a *)
(* sync replay as; then the invariant of the muxer and of its log; then    *)
(* the boxes of a moov, read one after the other; then what is shown.      *)
(***************************************************************************)
EXTENDS Metadata, Recursion, FiniteSetTheorems

Owner == {File} \cup Tracks

LEMMA OwnerType ==
  /\ Len(Types) \in Nat /\ Tracks = 1 .. Len(Types)
  /\ File \in Owner /\ File \notin Tracks
  /\ \A t \in Tracks : t \in Owner /\ t \in Nat /\ t # File
BY MetadataAssumption DEF MetadataAssumption, Owner, File, Tracks

-----------------------------------------------------------------------------
(* The list of an owner has no key twice, and with a key its alternate.    *)

Entry(key, value) == [key |-> key, value |-> value]

Distinct(list) ==
  \A i, j \in DOMAIN list : list[i].key = list[j].key => i = j

Paired(list) ==
  \A i \in DOMAIN list : Alternate[list[i].key] \in Keyed(list) \cup {NoKey}

(* list, with more at its end and perhaps another value of key. *)
Grown(list, more, key) ==
  /\ Len(list) <= Len(more)
  /\ \A i \in 1 .. Len(list) :
       /\ more[i].key = list[i].key
       /\ list[i].key # key => more[i] = list[i]

LEMMA EntryType ==
  ASSUME NEW key \in Keys, NEW value \in Values
  PROVE  /\ Entry(key, value) \in Meta
         /\ Entry(key, value).key = key /\ Entry(key, value).value = value
BY DEF Entry, Meta

LEMMA ListType ==
  ASSUME NEW list \in Seq(Meta)
  PROVE  /\ Len(list) \in Nat /\ DOMAIN list = 1 .. Len(list)
         /\ \A i \in 1 .. Len(list) :
              list[i] \in Meta /\ list[i].key \in Keys /\ list[i].value \in Values
<1>1. \A m \in Meta : m.key \in Keys /\ m.value \in Values
  BY DEF Meta
<1>2. Len(list) \in Nat /\ DOMAIN list = 1 .. Len(list)
      /\ \A i \in 1 .. Len(list) : list[i] \in Meta
  OBVIOUS
<1> QED  BY <1>1, <1>2

LEMMA OverrideFacts ==
  ASSUME NEW list \in Seq(Meta), NEW key \in Keys, NEW value \in Values
  PROVE  LET more == Override(list, key, value)
         IN /\ more \in Seq(Meta) /\ Grown(list, more, key)
            /\ Keyed(more) = Keyed(list) \cup {key}
            /\ Entry(key, value) \in AsSet(more)
            /\ Distinct(list) => Distinct(more)
<1> DEFINE e == Entry(key, value)
           n == Len(list)
           more == Override(list, key, value)
<1>1. e \in Meta /\ e.key = key
  BY EntryType
<1>2. n \in Nat /\ DOMAIN list = 1 .. n /\ \A i \in 1 .. n : list[i] \in Meta
  BY ListType
<1>3. CASE key \in Keyed(list)
  <2>1. more = [i \in 1 .. n |-> IF list[i].key = key THEN e ELSE list[i]]
    BY <1>2, <1>3 DEF Override, Entry
  <2> HIDE DEF more, e
  <2>2. more \in Seq(Meta) /\ Len(more) = n /\ DOMAIN more = 1 .. n
        /\ \A i \in 1 .. n : more[i] = IF list[i].key = key THEN e ELSE list[i]
    <3>1. more \in [1 .. n -> Meta]
      BY <1>1, <1>2, <2>1
    <3> HIDE DEF n
    <3> QED  BY <1>2, <2>1, <3>1
  <2>3. \A i \in 1 .. n : more[i].key = list[i].key
    BY <1>1, <2>2
  <2>4. Grown(list, more, key)
    BY <1>2, <2>2, <2>3 DEF Grown
  <2>5. Keyed(more) = Keyed(list)
    BY <1>2, <2>2, <2>3 DEF Keyed
  <2>6. e \in AsSet(more)
    <3>1. PICK i \in 1 .. n : list[i].key = key
      BY <1>2, <1>3 DEF Keyed
    <3> QED  BY <2>2, <3>1 DEF AsSet
  <2>7. Distinct(list) => Distinct(more)
    BY <1>2, <2>2, <2>3 DEF Distinct
  <2> QED  BY <1>3, <2>2, <2>4, <2>5, <2>6, <2>7 DEF more, e
<1>4. CASE key \notin Keyed(list)
  <2>1. more = Append(list, e)
    BY <1>4 DEF Override, Entry
  <2> HIDE DEF more, e
  <2>2. more \in Seq(Meta) /\ Len(more) = n + 1 /\ DOMAIN more = 1 .. n + 1
        /\ more[n + 1] = e /\ \A i \in 1 .. n : more[i] = list[i]
    BY <1>1, <2>1
  <2>3. /\ n + 1 \in 1 .. n + 1
        /\ \A i \in 1 .. n + 1 : i \in 1 .. n \/ i = n + 1
        /\ \A j \in 1 .. n : j \in 1 .. n + 1
    BY <1>2
  <2>4. Grown(list, more, key)
    <3>1. Len(list) <= Len(more)
      BY <1>2, <2>2
    <3> QED  BY <2>2, <3>1 DEF Grown
  <2>5. Keyed(more) = Keyed(list) \cup {key}
    BY <1>1, <1>2, <2>2, <2>3 DEF Keyed
  <2>6. e \in AsSet(more)
    BY <2>2, <2>3 DEF AsSet
  <2>7. Distinct(list) => Distinct(more)
    <3>1. \A i \in 1 .. n : list[i].key # key
      BY <1>2, <1>4 DEF Keyed
    <3> QED  BY <1>1, <1>2, <2>2, <2>3, <3>1 DEF Distinct
  <2> QED  BY <2>2, <2>4, <2>5, <2>6, <2>7 DEF more, e
<1> QED  BY <1>3, <1>4

LEMMA CompleteFacts ==
  ASSUME NEW list \in Seq(Meta), NEW key \in Keys \cup {NoKey}, NEW value \in Values
  PROVE  LET more == Complete(list, key, value)
         IN /\ more \in Seq(Meta) /\ Len(list) <= Len(more)
            /\ \A i \in 1 .. Len(list) : more[i] = list[i]
            /\ Keyed(more) = Keyed(list) \cup ({key} \ {NoKey})
            /\ Distinct(list) => Distinct(more)
<1> DEFINE n == Len(list)
           more == Complete(list, key, value)
<1>1. n \in Nat /\ DOMAIN list = 1 .. n
  BY ListType
<1>2. CASE key \in Keyed(list) \cup {NoKey}
  <2>1. more = list
    BY <1>2 DEF Complete
  <2> QED  BY <1>1, <1>2, <2>1
<1>3. CASE key \notin Keyed(list) \cup {NoKey}
  <2>1. key \in Keys
    BY <1>3
  <2> DEFINE e == Entry(key, value)
  <2>2. e \in Meta /\ e.key = key
    BY <2>1, EntryType
  <2>3. more = Append(list, e)
    BY <1>3 DEF Complete, Entry
  <2> HIDE DEF more, e
  <2>4. more \in Seq(Meta) /\ Len(more) = n + 1 /\ DOMAIN more = 1 .. n + 1
        /\ more[n + 1] = e /\ \A i \in 1 .. n : more[i] = list[i]
    BY <2>2, <2>3
  <2>5. /\ n + 1 \in 1 .. n + 1
        /\ \A i \in 1 .. n + 1 : i \in 1 .. n \/ i = n + 1
        /\ \A j \in 1 .. n : j \in 1 .. n + 1
    BY <1>1
  <2>6. Keyed(more) = Keyed(list) \cup ({key} \ {NoKey})
    BY <1>1, <1>3, <2>2, <2>4, <2>5 DEF Keyed
  <2>7. Distinct(list) => Distinct(more)
    <3>1. \A i \in 1 .. n : list[i].key # key
      BY <1>1, <1>3 DEF Keyed
    <3> QED  BY <1>1, <2>2, <2>4, <2>5, <3>1 DEF Distinct
  <2>8. Len(list) <= Len(more)
    BY <1>1, <2>4
  <2> QED  BY <2>4, <2>6, <2>7, <2>8 DEF more
<1> QED  BY <1>2, <1>3

LEMMA AlternateType ==
  ASSUME NEW key \in Keys
  PROVE  /\ Alternate[key] \in Keys \cup {NoKey} /\ NoKey \notin Keys
         /\ Alternate[key] # NoKey => Alternate[Alternate[key]] = key
BY MetadataAssumption DEF MetadataAssumption

(* What mp4_mux_add_metadata_internal makes of a list. *)
LEMMA AddedFacts ==
  ASSUME NEW list \in Seq(Meta), NEW key \in Keys, NEW value \in Values
  PROVE  /\ Added(list, key, value) \in Seq(Meta)
         /\ Grown(list, Added(list, key, value), key)
         /\ Keyed(Added(list, key, value))
              = Keyed(list) \cup {key} \cup ({Alternate[key]} \ {NoKey})
         /\ Entry(key, value) \in AsSet(Added(list, key, value))
         /\ Distinct(list) => Distinct(Added(list, key, value))
         /\ Paired(list) => Paired(Added(list, key, value))
<1> DEFINE over == Override(list, key, value)
           alt  == Alternate[key]
           more == Complete(over, alt, value)
           e    == Entry(key, value)
<1>1. /\ over \in Seq(Meta) /\ Grown(list, over, key)
      /\ Keyed(over) = Keyed(list) \cup {key} /\ e \in AsSet(over)
      /\ Distinct(list) => Distinct(over)
  BY OverrideFacts
<1>2. alt \in Keys \cup {NoKey} /\ (alt # NoKey => Alternate[alt] = key)
      /\ NoKey \notin Keys
  BY AlternateType
<1> HIDE DEF over, alt
<1>3. /\ more \in Seq(Meta) /\ Len(over) <= Len(more)
      /\ \A i \in 1 .. Len(over) : more[i] = over[i]
      /\ Keyed(more) = Keyed(over) \cup ({alt} \ {NoKey})
      /\ Distinct(over) => Distinct(more)
  BY <1>1, <1>2, CompleteFacts
<1>4. Added(list, key, value) = more
  BY DEF Added, over, alt
<1> HIDE DEF more, e
<1>5. /\ Len(list) \in Nat /\ Len(over) \in Nat /\ Len(more) \in Nat
      /\ DOMAIN list = 1 .. Len(list) /\ DOMAIN over = 1 .. Len(over)
      /\ DOMAIN more = 1 .. Len(more)
  BY <1>1, <1>3, ListType
<1>6. Len(list) <= Len(over) /\ Len(list) <= Len(more)
  BY <1>1, <1>3, <1>5 DEF Grown
<1>7. Grown(list, more, key)
  <2>1. \A i \in 1 .. Len(list) : i \in 1 .. Len(over)
    BY <1>5, <1>6
  <2> QED  BY <1>1, <1>3, <1>6, <2>1 DEF Grown
<1>8. e \in AsSet(more)
  <2>1. PICK i \in 1 .. Len(over) : e = over[i]
    BY <1>1, <1>5 DEF AsSet
  <2>2. i \in 1 .. Len(more)
    BY <1>3, <1>5
  <2> QED  BY <1>3, <1>5, <2>1, <2>2 DEF AsSet
<1>9. ASSUME Paired(list) PROVE Paired(more)
  <2> SUFFICES ASSUME NEW i \in DOMAIN more
               PROVE  Alternate[more[i].key] \in Keyed(more) \cup {NoKey}
    BY DEF Paired
  <2>1. more[i].key \in Keyed(more)
    BY DEF Keyed
  <2>2. CASE more[i].key \in Keyed(list)
    BY <1>1, <1>3, <1>9, <2>2 DEF Paired, Keyed
  <2>3. CASE more[i].key = key
    BY <1>3, <2>3 DEF alt
  <2>4. CASE more[i].key = alt /\ alt # NoKey
    BY <1>1, <1>2, <1>3, <2>4
  <2> QED  BY <1>1, <1>3, <2>1, <2>2, <2>3, <2>4
<1> QED  BY <1>1, <1>3, <1>4, <1>7, <1>8, <1>9 DEF alt, e

LEMMA GrownKeeps ==
  ASSUME NEW list \in Seq(Meta), NEW more \in Seq(Meta), NEW key,
         Grown(list, more, key), NEW meta \in AsSet(list), meta.key # key
  PROVE  meta \in AsSet(more)
<1>1. PICK i \in 1 .. Len(list) : meta = list[i]
  BY ListType DEF AsSet
<1>2. i \in 1 .. Len(more)
  BY <1>1, ListType DEF Grown
<1> QED  BY <1>1, <1>2, ListType DEF AsSet, Grown

(* The same keys, once each: one list has no more than the other. *)
LEMMA SameEntries ==
  ASSUME NEW list \in Seq(Meta), NEW more \in Seq(Meta), Distinct(more),
         Keyed(more) = Keyed(list), AsSet(list) \subseteq AsSet(more)
  PROVE  AsSet(more) = AsSet(list)
<1> SUFFICES ASSUME NEW meta \in AsSet(more) PROVE meta \in AsSet(list)
  OBVIOUS
<1>1. PICK i \in DOMAIN more : meta = more[i]
  BY DEF AsSet
<1>2. PICK j \in DOMAIN list : list[j].key = meta.key
  BY <1>1 DEF Keyed
<1>3. list[j] \in AsSet(list)
  BY DEF AsSet
<1>4. PICK k \in DOMAIN more : list[j] = more[k]
  BY <1>3 DEF AsSet
<1>5. i = k
  BY <1>1, <1>2, <1>4 DEF Distinct
<1> QED  BY <1>1, <1>3, <1>4, <1>5

LEMMA DistinctCount ==
  ASSUME NEW list \in Seq(Meta), Distinct(list)
  PROVE  Cardinality(Keyed(list)) = Len(list)
<1> DEFINE n == Len(list)
           f == [i \in 1 .. n |-> list[i].key]
<1>1. n \in Nat /\ DOMAIN list = 1 .. n
  BY ListType
<1>2. f \in Bijection(1 .. n, Keyed(list))
  BY <1>1 DEF Bijection, Injection, Surjection, Keyed, Distinct, IsInjective
<1>3. IsFiniteSet(1 .. n) /\ Cardinality(1 .. n) = n
  <2> HIDE DEF n
  <2>1. 0 \in Int /\ 1 \in Int
    OBVIOUS
  <2> QED  BY <1>1, FS_Interval
<1> QED  BY <1>2, <1>3, FS_Bijection DEF ExistsBijection

-----------------------------------------------------------------------------
(* The log, record by record.                                              *)

TrakRecord   == [kind : {"trak"}, owner : Tracks, refs : Seq({0} \cup Tracks)]
FilledRecord == [kind : {"samples"}, owner : Tracks]
MetaRecord   == [kind : {"meta"}, owner : Owner, meta : Meta]
CoverRecord  == [kind : {"covr"}, cover : 0 .. MaxCalls]
Record == TrakRecord \cup FilledRecord \cup MetaRecord \cup CoverRecord

LEMMA NothingType ==
  /\ Nothing \in Muxed
  /\ \A o \in Owner : Nothing.metas[o] = <<>>
  /\ \A t \in Tracks : Nothing.refs[t] = <<>>
  /\ Nothing.filled = {} /\ Nothing.cover = 0
<1>1. MaxCalls \in Nat
  BY MetadataAssumption DEF MetadataAssumption
<1>2. <<>> \in Seq(Meta) /\ <<>> \in Seq({0} \cup Tracks) /\ 0 \in 0 .. MaxCalls
  BY <1>1
<1> QED  BY <1>2 DEF Nothing, Muxed, Owner

LEMMA MuxedType ==
  ASSUME NEW m \in Muxed
  PROVE  /\ m.metas \in [Owner -> Seq(Meta)] /\ m.cover \in 0 .. MaxCalls
         /\ m.refs \in [Tracks -> Seq({0} \cup Tracks)]
         /\ m.filled \in SUBSET Tracks
         /\ \A o \in Owner : m.metas[o] \in Seq(Meta)
         /\ \A t \in Tracks : m.refs[t] \in Seq({0} \cup Tracks)
BY DEF Muxed, Owner

LEMMA TrakReplayed ==
  ASSUME NEW m \in Muxed, NEW r \in TrakRecord
  PROVE  /\ Replayed(m, r) = [m EXCEPT !.refs = [@ EXCEPT ![r.owner] = r.refs]]
         /\ Replayed(m, r) \in Muxed
<1>1. r.kind = "trak" /\ r.owner \in Tracks /\ r.refs \in Seq({0} \cup Tracks)
  BY DEF TrakRecord
<1> DEFINE refs == [m.refs EXCEPT ![r.owner] = r.refs]
<1>2. refs \in [Tracks -> Seq({0} \cup Tracks)]
  BY <1>1, MuxedType
<1>3. Replayed(m, r) = [m EXCEPT !.refs = [@ EXCEPT ![r.owner] = r.refs]]
  BY <1>1 DEF Replayed
<1> HIDE DEF refs
<1>4. [m EXCEPT !.refs = refs] \in Muxed
  BY <1>2 DEF Muxed
<1> QED  BY <1>3, <1>4 DEF refs

LEMMA FilledReplayed ==
  ASSUME NEW m \in Muxed, NEW r \in FilledRecord
  PROVE  /\ Replayed(m, r) = [m EXCEPT !.filled = @ \cup {r.owner}]
         /\ Replayed(m, r) \in Muxed
<1>1. r.kind = "samples" /\ r.owner \in Tracks
  BY DEF FilledRecord
<1> DEFINE filled == m.filled \cup {r.owner}
<1>2. filled \in SUBSET Tracks
  BY <1>1, MuxedType
<1>3. Replayed(m, r) = [m EXCEPT !.filled = @ \cup {r.owner}]
  BY <1>1 DEF Replayed
<1> HIDE DEF filled
<1>4. [m EXCEPT !.filled = filled] \in Muxed
  BY <1>2 DEF Muxed
<1> QED  BY <1>3, <1>4 DEF filled

LEMMA CoverReplayed ==
  ASSUME NEW m \in Muxed, NEW r \in CoverRecord
  PROVE  /\ Replayed(m, r) = [m EXCEPT !.cover = r.cover]
         /\ Replayed(m, r) \in Muxed
<1>1. r.kind = "covr" /\ r.cover \in 0 .. MaxCalls
  BY DEF CoverRecord
<1>2. Replayed(m, r) = [m EXCEPT !.cover = r.cover]
  BY <1>1 DEF Replayed
<1>3. [m EXCEPT !.cover = r.cover] \in Muxed
  BY <1>1 DEF Muxed
<1> QED  BY <1>2, <1>3

LEMMA MetaReplayed ==
  ASSUME NEW m \in Muxed, NEW r \in MetaRecord
  PROVE  /\ Replayed(m, r)
              = [m EXCEPT !.metas =
                   [m.metas EXCEPT ![r.owner] =
                      Added(m.metas[r.owner], r.meta.key, r.meta.value)]]
         /\ Replayed(m, r) \in Muxed
<1>1. r.kind = "meta" /\ r.owner \in Owner /\ r.meta \in Meta
      /\ r.meta.key \in Keys /\ r.meta.value \in Values
  BY DEF MetaRecord, Meta
<1> DEFINE list  == Added(m.metas[r.owner], r.meta.key, r.meta.value)
           metas == [m.metas EXCEPT ![r.owner] = list]
<1>2. list \in Seq(Meta)
  BY <1>1, MuxedType, AddedFacts
<1>3. Replayed(m, r) = [m EXCEPT !.metas = metas]
  BY <1>1 DEF Replayed
<1> HIDE DEF list
<1>4. metas \in [Owner -> Seq(Meta)]
  BY <1>1, <1>2, MuxedType
<1> HIDE DEF metas
<1>5. [m EXCEPT !.metas = metas] \in Muxed
  BY <1>4 DEF Muxed, Owner
<1> QED  BY <1>3, <1>5 DEF list, metas

ReplayStep == [p \in Muxed \X Record |-> Replayed(p[1], p[2])]

LEMMA ReplayStepType ==
  /\ ReplayStep \in Steps(Muxed, Record)
  /\ \A m \in Muxed, r \in Record : ReplayStep[<<m, r>>] = Replayed(m, r)
<1>1. ASSUME NEW m \in Muxed, NEW r \in Record PROVE Replayed(m, r) \in Muxed
  BY TrakReplayed, FilledReplayed, CoverReplayed, MetaReplayed DEF Record
<1> QED  BY <1>1 DEF ReplayStep, Steps

LEMMA ReplayFolds ==
  ASSUME NEW records \in Lists(Record)
  PROVE  Replay(records) = Folded(Muxed, Nothing, ReplayStep, records)
<1> DEFINE n == Len(records)
           Next1(g) == [i \in 0 .. n |-> IF i = 0 THEN Nothing
                                         ELSE Replayed(g[i - 1], records[i])]
           R == CHOOSE g : g = Next1(g)
<1>1. n \in Nat /\ \A i \in 1 .. n : records[i] \in Record
  BY DEF Lists
<1>2. Replay(records) = R[n]
  BY DEF Replay
<1>3. PICK f : GoesOver(f, Muxed, Nothing, ReplayStep, records)
               /\ Folded(Muxed, Nothing, ReplayStep, records) = f[n]
  BY NothingType, ReplayStepType, FoldedRuns
<1>4. ASSUME NEW i \in 1 .. n PROVE f[i] = Replayed(f[i - 1], records[i])
  <2>1. i - 1 \in 0 .. n
    BY <1>1
  <2>2. f[i - 1] \in Muxed
    BY <1>3, <2>1 DEF GoesOver
  <2> QED  BY <1>1, <1>3, <2>2, ReplayStepType DEF GoesOver, Goes
<1>5. f = Next1(f)
  <2>1. f \in [0 .. n -> Muxed] /\ f[0] = Nothing
    BY <1>3 DEF GoesOver, Goes
  <2>2. ASSUME NEW i \in 0 .. n
        PROVE  f[i] = IF i = 0 THEN Nothing ELSE Replayed(f[i - 1], records[i])
    <3>1. i # 0 => i \in 1 .. n
      BY <1>1
    <3> QED  BY <1>4, <2>1, <3>1
  <2> QED  BY <2>1, <2>2
<1>6. R = Next1(R)
  <2> HIDE DEF Next1
  <2> QED  BY <1>5
<1> HIDE DEF R
<1> DEFINE P == {i \in 0 .. n : R[i] = f[i]}
<1>7. 0 \in P
  BY <1>1, <1>3, <1>6 DEF GoesOver, Goes
<1>8. ASSUME NEW i \in 1 .. n, i - 1 \in P PROVE i \in P
  <2>1. i \in 0 .. n /\ i # 0
    BY <1>1
  <2>2. R[i] = Replayed(R[i - 1], records[i])
    BY <1>6, <2>1
  <2> QED  BY <1>4, <1>8, <2>1, <2>2
<1>9. \A i \in 0 .. n : i \in P
  <2> HIDE DEF P
  <2> QED  BY <1>1, <1>7, <1>8, Induction
<1>10. n \in 0 .. n
  BY <1>1
<1> QED  BY <1>2, <1>3, <1>9, <1>10

LEMMA ReplayType ==
  ASSUME NEW records \in Lists(Record) PROVE Replay(records) \in Muxed
<1>1. Folded(Muxed, Nothing, ReplayStep, records) \in Muxed
  BY NothingType, ReplayStepType, FoldedType
<1> QED  BY <1>1, ReplayFolds

LEMMA ReplayEmpty == <<>> \in Lists(Record) /\ Replay(<<>>) = Nothing
<1>1. <<>> \in Lists(Record)
  BY DEF Lists
<1>2. Folded(Muxed, Nothing, ReplayStep, <<>>) = Nothing
  BY NothingType, ReplayStepType, FoldedEmpty
<1> QED  BY <1>1, <1>2, ReplayFolds

LEMMA ReplayAppend ==
  ASSUME NEW records \in Lists(Record), NEW r \in Record
  PROVE  /\ Append(records, r) \in Lists(Record)
         /\ Replay(Append(records, r)) = Replayed(Replay(records), r)
<1> DEFINE F == Folded(Muxed, Nothing, ReplayStep, records)
           G == Folded(Muxed, Nothing, ReplayStep, Append(records, r))
<1>1. Append(records, r) \in Lists(Record)
  BY DEF Lists
<1>2. G = ReplayStep[<<F, r>>]
  BY NothingType, ReplayStepType, FoldedAppend
<1>3. F = Replay(records) /\ G = Replay(Append(records, r))
  BY <1>1, ReplayFolds
<1>4. F \in Muxed
  BY NothingType, ReplayStepType, FoldedType
<1>5. ReplayStep[<<F, r>>] = Replayed(F, r)
  BY <1>4, ReplayStepType
<1> QED  BY <1>1, <1>2, <1>3, <1>5

LEMMA MetaAppended ==
  ASSUME NEW list \in Lists(Record), NEW o \in Owner, NEW meta \in Meta
  PROVE  LET r == [kind |-> "meta", owner |-> o, meta |-> meta]
             B == Replay(list)
             E == Replay(Append(list, r))
         IN /\ Append(list, r) \in Lists(Record) /\ E \in Muxed
            /\ E.refs = B.refs /\ E.cover = B.cover /\ E.filled = B.filled
            /\ E.metas[o] = Added(B.metas[o], meta.key, meta.value)
            /\ \A p \in Owner : p # o => E.metas[p] = B.metas[p]
<1> DEFINE r == [kind |-> "meta", owner |-> o, meta |-> meta]
           B == Replay(list)
           E == Replay(Append(list, r))
           list2 == Added(B.metas[o], meta.key, meta.value)
<1>1. r \in MetaRecord /\ r.owner = o /\ r.meta = meta
  BY DEF MetaRecord
<1>2. r \in Record
  BY <1>1 DEF Record
<1>3. B \in Muxed
  BY ReplayType
<1>4. Append(list, r) \in Lists(Record) /\ E = Replayed(B, r)
  BY <1>2, ReplayAppend
<1> HIDE DEF r, B, E
<1>5. /\ E = [B EXCEPT !.metas = [B.metas EXCEPT ![o] = list2]]
      /\ E \in Muxed
  BY <1>1, <1>3, <1>4, MetaReplayed
<1>6. B.metas \in [Owner -> Seq(Meta)]
  BY <1>3, MuxedType
<1> HIDE DEF list2
<1> DEFINE metas == [B.metas EXCEPT ![o] = list2]
<1>7. metas[o] = list2 /\ \A p \in Owner : p # o => metas[p] = B.metas[p]
  BY <1>6
<1> HIDE DEF metas
<1>8. /\ E.metas = metas /\ E.refs = B.refs /\ E.cover = B.cover
      /\ E.filled = B.filled
  BY <1>3, <1>5 DEF Muxed, metas
<1> QED  BY <1>4, <1>5, <1>7, <1>8 DEF r, B, E, list2

(* What the first n records of a list, from behind its item s, do.         *)
ListRecords(o, list, s, n) ==
  [i \in 1 .. n |-> [kind |-> "meta", owner |-> o, meta |-> list[s + i]]]

Others(B, E, o) ==
  /\ E.refs = B.refs /\ E.cover = B.cover /\ E.filled = B.filled
  /\ \A p \in Owner : p # o => E.metas[p] = B.metas[p]

Took(B, E, o, list, s, n) ==
  /\ E \in Muxed /\ Others(B, E, o)
  /\ Distinct(E.metas[o])
  /\ Keyed(E.metas[o]) \subseteq Keyed(list)
  /\ Keyed(B.metas[o]) \subseteq Keyed(E.metas[o])
  /\ \A i \in s + 1 .. s + n : list[i] \in AsSet(E.metas[o])
  /\ \A meta \in AsSet(B.metas[o]) :
       (\A i \in s + 1 .. s + n : list[i].key # meta.key)
         => meta \in AsSet(E.metas[o])

LEMMA TookOne ==
  ASSUME NEW B \in Muxed, NEW D, NEW E \in Muxed, NEW o \in Owner,
         NEW list \in Seq(Meta), Distinct(list), Paired(list),
         NEW s \in Nat, NEW n \in Nat \ {0}, s + n <= Len(list),
         Took(B, D, o, list, s, n - 1), Others(D, E, o),
         E.metas[o] = Added(D.metas[o], list[s + n].key, list[s + n].value)
  PROVE  Took(B, E, o, list, s, n)
<1> DEFINE old  == D.metas[o]
           new  == E.metas[o]
           item == list[s + n]
<1>1. /\ s + n \in 1 .. Len(list) /\ DOMAIN list = 1 .. Len(list)
      /\ item \in Meta /\ item.key \in Keys /\ item.value \in Values
  BY ListType
<1>2. D \in Muxed /\ old \in Seq(Meta)
  BY MuxedType DEF Took
<1>3. Others(B, E, o)
  BY DEF Took, Others
<1>4. item = Entry(item.key, item.value)
  <2> HIDE DEF item
  <2> QED  BY <1>1 DEF Entry, Meta
<1> HIDE DEF old, item
<1>5. /\ new \in Seq(Meta) /\ Grown(old, new, item.key)
      /\ Keyed(new) = Keyed(old) \cup {item.key}
                        \cup ({Alternate[item.key]} \ {NoKey})
      /\ item \in AsSet(new)
      /\ Distinct(old) => Distinct(new)
  BY <1>1, <1>2, <1>4, AddedFacts DEF old, item
<1>6. item.key \in Keyed(list) /\ Alternate[item.key] \in Keyed(list) \cup {NoKey}
  BY <1>1 DEF Paired, Keyed, item
<1>7. /\ Distinct(old) /\ Keyed(old) \subseteq Keyed(list)
      /\ Keyed(B.metas[o]) \subseteq Keyed(old)
  BY DEF Took, old
<1>8. ASSUME NEW i \in s + 1 .. s + n PROVE list[i] \in AsSet(new)
  <2>1. CASE i = s + n
    BY <1>5, <2>1 DEF item
  <2>2. CASE i # s + n
    <3>1. i \in s + 1 .. s + (n - 1) /\ i \in 1 .. Len(list)
      BY <2>2
    <3>2. list[i] \in AsSet(old)
      BY <3>1 DEF Took, old
    <3>3. list[i].key # item.key
      BY <1>1, <2>2, <3>1 DEF Distinct, item
    <3> QED  BY <1>2, <1>5, <3>2, <3>3, GrownKeeps
  <2> QED  BY <2>1, <2>2
<1>9. ASSUME NEW meta \in AsSet(B.metas[o]),
             \A i \in s + 1 .. s + n : list[i].key # meta.key
      PROVE  meta \in AsSet(new)
  <2>1. \A i \in s + 1 .. s + (n - 1) : i \in s + 1 .. s + n
    OBVIOUS
  <2>2. meta \in AsSet(old)
    BY <1>9, <2>1 DEF Took, old
  <2>3. s + n \in s + 1 .. s + n
    OBVIOUS
  <2>4. meta.key # item.key
    BY <1>9, <2>3 DEF item
  <2> QED  BY <1>2, <1>5, <2>2, <2>4, GrownKeeps
<1> QED  BY <1>3, <1>5, <1>6, <1>7, <1>8, <1>9 DEF Took

LEMMA ListReplayed ==
  ASSUME NEW base \in Lists(Record), NEW o \in Owner,
         NEW list \in Seq(Meta), Distinct(list), Paired(list),
         NEW s \in Nat, NEW n \in Nat, s + n <= Len(list),
         Distinct(Replay(base).metas[o]),
         Keyed(Replay(base).metas[o]) \subseteq Keyed(list)
  PROVE  /\ ListRecords(o, list, s, n) \in Lists(Record)
         /\ base \o ListRecords(o, list, s, n) \in Lists(Record)
         /\ Took(Replay(base), Replay(base \o ListRecords(o, list, s, n)),
                 o, list, s, n)
<1> DEFINE B == Replay(base)
           recs(k) == ListRecords(o, list, s, k)
           P == {k \in 0 .. n : Took(B, Replay(base \o recs(k)), o, list, s, k)}
<1>1. ASSUME NEW k \in 0 .. n
      PROVE  recs(k) \in Lists(Record) /\ base \o recs(k) \in Lists(Record)
  <2>1. ASSUME NEW i \in 1 .. k
        PROVE  [kind |-> "meta", owner |-> o, meta |-> list[s + i]] \in Record
    <3>1. s + i \in 1 .. Len(list)
      OBVIOUS
    <3>2. list[s + i] \in Meta
      BY <3>1, ListType
    <3> QED  BY <3>2 DEF Record, MetaRecord
  <2>2. recs(k) \in [1 .. k -> Record]
    BY <2>1 DEF ListRecords
  <2>3. recs(k) \in Seq(Record)
    <3> HIDE DEF recs
    <3> QED  BY <2>2
  <2> HIDE DEF recs
  <2> QED  BY <2>3 DEF Lists
<1>2. B \in Muxed
  BY ReplayType
<1>3. 0 \in P
  <2>1. recs(0) = <<>>
    BY DEF ListRecords
  <2>2. base \o <<>> = base
    BY DEF Lists
  <2>3. Took(B, B, o, list, s, 0)
    BY <1>2 DEF Took, Others
  <2>4. base \o recs(0) = base
    BY <2>1, <2>2
  <2>5. Took(B, Replay(base \o recs(0)), o, list, s, 0)
    BY <2>3, <2>4
  <2>6. 0 \in 0 .. n
    OBVIOUS
  <2> HIDE DEF recs, B
  <2> QED  BY <2>5, <2>6
<1>4. ASSUME NEW k \in 1 .. n, k - 1 \in P PROVE k \in P
  <2> DEFINE meta == list[s + k]
             r == [kind |-> "meta", owner |-> o, meta |-> meta]
             a == recs(k - 1)
             b == recs(k)
             D == Replay(base \o a)
             E == Replay(base \o b)
  <2>1. k - 1 \in 0 .. n /\ k \in 0 .. n /\ s + k \in 1 .. Len(list) /\ k \in Nat \ {0}
    OBVIOUS
  <2>2. meta \in Meta
    BY <2>1, ListType
  <2>3. a \in Lists(Record) /\ base \o a \in Lists(Record)
        /\ b \in Lists(Record) /\ base \o b \in Lists(Record)
    BY <1>1, <2>1
  <2>4. b = Append(a, r)
    <3>1. a = [i \in 1 .. k - 1 |-> [kind |-> "meta", owner |-> o, meta |-> list[s + i]]]
          /\ b = [i \in 1 .. k |-> [kind |-> "meta", owner |-> o, meta |-> list[s + i]]]
      BY DEF ListRecords
    <3>2. Len(a) = k - 1 /\ \A i \in 1 .. k - 1 : a[i] = b[i]
      <4> HIDE DEF a, b
      <4> QED  BY <2>1, <3>1
    <3>3. Len(b) = k /\ b[k] = r
      <4> HIDE DEF a, b
      <4> QED  BY <2>1, <3>1
    <3> HIDE DEF a, b, r
    <3> QED  BY <2>1, <2>3, <3>2, <3>3 DEF Lists
  <2>5. r \in Record
    <3> HIDE DEF meta
    <3> QED  BY <2>2 DEF Record, MetaRecord
  <2>6. base \o b = Append(base \o a, r)
    <3> HIDE DEF a, b, r
    <3> QED  BY <2>3, <2>4, <2>5 DEF Lists
  <2> HIDE DEF a, b, meta, recs
  <2>7. /\ E \in Muxed /\ Others(D, E, o)
        /\ E.metas[o] = Added(D.metas[o], meta.key, meta.value)
    BY <2>2, <2>3, <2>6, MetaAppended DEF Others
  <2>8. Took(B, D, o, list, s, k - 1)
    BY <1>4 DEF a, recs
  <2> HIDE DEF D, E, B
  <2>9. s + k <= Len(list)
    OBVIOUS
  <2>10. Took(B, E, o, list, s, k)
    BY <1>2, <2>1, <2>7, <2>8, <2>9, TookOne DEF meta
  <2> QED  BY <2>1, <2>10 DEF E, b
<1>5. \A k \in 0 .. n : k \in P
  <2> HIDE DEF P
  <2> QED  BY <1>3, <1>4, Induction
<1>6. n \in 0 .. n
  OBVIOUS
<1>7. n \in P
  BY <1>5, <1>6
<1> HIDE DEF recs, B
<1> QED  BY <1>1, <1>6, <1>7 DEF recs, B

-----------------------------------------------------------------------------
(* What a mp4_mux_sync adds to the log.                                    *)

(* Those of the list that mp4_mux_sync_meta has written.                   *)
Skipped(o) == IF written[o] = 0 THEN 0 ELSE written[o] - 1

(* The keys of which the log may have another value.                       *)
Overridden(o) == IF o = File THEN stale ELSE {}

HasFirst(L, o, n) ==
  \A i \in 1 .. n :
    /\ mux.metas[o][i].key \in Keyed(L.metas[o])
    /\ \/ mux.metas[o][i].key \in Overridden(o)
       \/ mux.metas[o][i] \in AsSet(L.metas[o])

HasSome(L, o) ==
  /\ Distinct(L.metas[o]) /\ Keyed(L.metas[o]) \subseteq Keyed(mux.metas[o])
  /\ Skipped(o) <= Len(mux.metas[o]) /\ HasFirst(L, o, Skipped(o))

HasAll(L, o) ==
  /\ Distinct(L.metas[o]) /\ Keyed(L.metas[o]) = Keyed(mux.metas[o])
  /\ HasFirst(L, o, Len(mux.metas[o]))

GoodLists ==
  /\ mux \in Muxed /\ written \in [Owner -> Nat]
  /\ \A o \in Owner : Distinct(mux.metas[o]) /\ Paired(mux.metas[o])

LEMMA MetaRecordsReplayed ==
  ASSUME GoodLists, NEW base \in Lists(Record), NEW o \in Owner,
         HasSome(Replay(base), o)
  PROVE  /\ MetaRecords(o) \in Lists(Record)
         /\ base \o MetaRecords(o) \in Lists(Record)
         /\ Replay(base \o MetaRecords(o)) \in Muxed
         /\ Others(Replay(base), Replay(base \o MetaRecords(o)), o)
         /\ HasAll(Replay(base \o MetaRecords(o)), o)
<1> DEFINE list == mux.metas[o]
           s == Skipped(o)
           n == Len(list) - s
           B == Replay(base)
           E == Replay(base \o MetaRecords(o))
<1>1. list \in Seq(Meta) /\ Distinct(list) /\ Paired(list)
  BY MuxedType DEF GoodLists
<1>2. Len(list) \in Nat /\ DOMAIN list = 1 .. Len(list)
  BY <1>1, ListType
<1>3. s \in Nat /\ s <= Len(list)
  <2>1. written[o] \in Nat
    BY DEF GoodLists
  <2> QED  BY <2>1 DEF HasSome, Skipped
<1>4. n \in Nat /\ s + n = Len(list)
  <2> HIDE DEF list, s
  <2> QED  BY <1>2, <1>3
<1>5. MetaRecords(o) = ListRecords(o, list, s, n)
  BY DEF MetaRecords, ListRecords, Skipped
<1>6. Distinct(B.metas[o]) /\ Keyed(B.metas[o]) \subseteq Keyed(list)
  BY DEF HasSome
<1> HIDE DEF list, s, n
<1>7. /\ MetaRecords(o) \in Lists(Record) /\ base \o MetaRecords(o) \in Lists(Record)
      /\ Took(B, E, o, list, s, n)
  <2>1. s + n <= Len(list)
    BY <1>2, <1>4
  <2> QED  BY <1>1, <1>3, <1>4, <1>5, <1>6, <2>1, ListReplayed
<1> HIDE DEF B, E
<1>8. /\ E \in Muxed /\ Others(B, E, o) /\ Distinct(E.metas[o])
      /\ Keyed(E.metas[o]) \subseteq Keyed(list)
      /\ Keyed(B.metas[o]) \subseteq Keyed(E.metas[o])
      /\ \A i \in s + 1 .. Len(list) : list[i] \in AsSet(E.metas[o])
      /\ \A meta \in AsSet(B.metas[o]) :
           (\A i \in s + 1 .. Len(list) : list[i].key # meta.key)
              => meta \in AsSet(E.metas[o])
  BY <1>4, <1>7 DEF Took
<1>9. ASSUME NEW i \in 1 .. Len(list)
      PROVE  /\ list[i].key \in Keyed(E.metas[o])
             /\ list[i].key \in Overridden(o) \/ list[i] \in AsSet(E.metas[o])
  <2>1. CASE i \in s + 1 .. Len(list)
    <3>1. list[i] \in AsSet(E.metas[o])
      BY <1>8, <2>1
    <3>2. list[i].key \in Keyed(E.metas[o])
      BY <3>1 DEF AsSet, Keyed
    <3> QED  BY <3>1, <3>2
  <2>2. CASE i \notin s + 1 .. Len(list)
    <3>1. i \in 1 .. s
      BY <1>2, <1>3, <2>2
    <3>2. /\ list[i].key \in Keyed(B.metas[o])
          /\ list[i].key \in Overridden(o) \/ list[i] \in AsSet(B.metas[o])
      BY <3>1 DEF HasSome, HasFirst, list, s, B
    <3>3. \A j \in s + 1 .. Len(list) : list[j].key # list[i].key
      <4>1. \A j \in s + 1 .. Len(list) : j \in 1 .. Len(list) /\ j # i
        BY <1>2, <1>3, <3>1
      <4> QED  BY <1>1, <1>2, <4>1 DEF Distinct
    <3> QED  BY <1>8, <3>2, <3>3
  <2> QED  BY <2>1, <2>2
<1>10. Keyed(list) \subseteq Keyed(E.metas[o])
  BY <1>2, <1>9 DEF Keyed
<1>11. HasAll(E, o)
  BY <1>8, <1>9, <1>10 DEF HasAll, HasFirst, list
<1> QED  BY <1>7, <1>8, <1>11 DEF B, E

LEMMA LoggedRefsType ==
  ASSUME NEW refs \in Seq({0} \cup Tracks)
  PROVE  LoggedRefs(refs) \in Seq({0} \cup Tracks)
<1>1. Len(refs) \in Nat /\ DOMAIN refs = 1 .. Len(refs)
      /\ \A i \in 1 .. Len(refs) : refs[i] \in {0} \cup Tracks
  OBVIOUS
<1>2. LoggedRefs(refs) \in [1 .. Len(refs) -> {0} \cup Tracks]
  BY <1>1 DEF LoggedRefs
<1> QED  BY <1>1, <1>2

(* The record of a track. *)
LEMMA TrakAppended ==
  ASSUME GoodLists, NEW base \in Lists(Record), NEW t \in Tracks
  PROVE  LET B == Replay(base)
             E == Replay(Append(base, TrackRecord(t)))
         IN /\ TrackRecord(t) \in Record
            /\ Append(base, TrackRecord(t)) \in Lists(Record) /\ E \in Muxed
            /\ E.metas = B.metas /\ E.cover = B.cover /\ E.filled = B.filled
            /\ E.refs[t] = LoggedRefs(mux.refs[t])
            /\ \A u \in Tracks : u # t => E.refs[u] = B.refs[u]
<1> DEFINE r == TrackRecord(t)
           B == Replay(base)
           E == Replay(Append(base, r))
           logged == LoggedRefs(mux.refs[t])
           refs == [B.refs EXCEPT ![t] = logged]
<1>1. logged \in Seq({0} \cup Tracks)
  BY MuxedType, LoggedRefsType DEF GoodLists
<1>2. r \in TrakRecord /\ r.owner = t /\ r.refs = logged
  <2> HIDE DEF logged
  <2> QED  BY <1>1 DEF TrackRecord, TrakRecord, logged
<1>3. r \in Record
  BY <1>2 DEF Record
<1>4. B \in Muxed
  BY ReplayType
<1>5. Append(base, r) \in Lists(Record) /\ E = Replayed(B, r)
  BY <1>3, ReplayAppend
<1> HIDE DEF r, B, E, logged
<1>6. E = [B EXCEPT !.refs = refs] /\ E \in Muxed
  BY <1>2, <1>4, <1>5, TrakReplayed
<1>7. refs[t] = logged /\ \A u \in Tracks : u # t => refs[u] = B.refs[u]
  BY <1>4, MuxedType
<1> HIDE DEF refs
<1>8. /\ E.refs = refs /\ E.metas = B.metas /\ E.cover = B.cover
      /\ E.filled = B.filled
  BY <1>4, <1>6 DEF Muxed
<1> QED  BY <1>3, <1>5, <1>6, <1>7, <1>8 DEF r, B, E, logged

LEMMA FilledAppended ==
  ASSUME NEW base \in Lists(Record), NEW t \in Tracks
  PROVE  LET r == [kind |-> "samples", owner |-> t]
             B == Replay(base)
             E == Replay(Append(base, r))
         IN /\ r \in Record /\ Append(base, r) \in Lists(Record) /\ E \in Muxed
            /\ E.metas = B.metas /\ E.cover = B.cover /\ E.refs = B.refs
            /\ E.filled = B.filled \cup {t}
<1> DEFINE r == [kind |-> "samples", owner |-> t]
           B == Replay(base)
           E == Replay(Append(base, r))
<1>1. r \in FilledRecord /\ r.owner = t
  BY DEF FilledRecord
<1>2. r \in Record
  BY <1>1 DEF Record
<1>3. B \in Muxed
  BY ReplayType
<1>4. Append(base, r) \in Lists(Record) /\ E = Replayed(B, r)
  BY <1>2, ReplayAppend
<1> HIDE DEF r, B, E
<1>5. E = [B EXCEPT !.filled = @ \cup {t}] /\ E \in Muxed
  BY <1>1, <1>3, <1>4, FilledReplayed
<1>6. /\ E.metas = B.metas /\ E.cover = B.cover /\ E.refs = B.refs
      /\ E.filled = B.filled \cup {t}
  BY <1>3, <1>5 DEF Muxed
<1> QED  BY <1>2, <1>4, <1>5, <1>6 DEF r, B, E

LEMMA CoverAppended ==
  ASSUME NEW base \in Lists(Record), NEW cover \in 0 .. MaxCalls
  PROVE  LET r == [kind |-> "covr", cover |-> cover]
             B == Replay(base)
             E == Replay(Append(base, r))
         IN /\ r \in Record /\ Append(base, r) \in Lists(Record) /\ E \in Muxed
            /\ E.metas = B.metas /\ E.filled = B.filled /\ E.refs = B.refs
            /\ E.cover = cover
<1> DEFINE r == [kind |-> "covr", cover |-> cover]
           B == Replay(base)
           E == Replay(Append(base, r))
<1>1. r \in CoverRecord /\ r.cover = cover
  BY DEF CoverRecord
<1>2. r \in Record
  BY <1>1 DEF Record
<1>3. B \in Muxed
  BY ReplayType
<1>4. Append(base, r) \in Lists(Record) /\ E = Replayed(B, r)
  BY <1>2, ReplayAppend
<1> HIDE DEF r, B, E
<1>5. E = [B EXCEPT !.cover = cover] /\ E \in Muxed
  BY <1>1, <1>3, <1>4, CoverReplayed
<1>6. /\ E.metas = B.metas /\ E.filled = B.filled /\ E.refs = B.refs
      /\ E.cover = cover
  BY <1>3, <1>5 DEF Muxed
<1> QED  BY <1>2, <1>4, <1>5, <1>6 DEF r, B, E

(* Lists in parts. *)
LEMMA ListsJoin ==
  ASSUME NEW T, NEW a \in Lists(T), NEW b \in Lists(T), NEW c \in Lists(T)
  PROVE  a \o b \in Lists(T) /\ (a \o b) \o c = a \o (b \o c)
BY DEF Lists

LEMMA ListsOne ==
  ASSUME NEW T, NEW a \in Lists(T), NEW x \in T
  PROVE  <<x>> \in Lists(T) /\ a \o <<x>> = Append(a, x) /\ a \o <<>> = a
         /\ <<>> \o a = a /\ <<>> \in Lists(T)
BY DEF Lists

Inserts(a, b, c, x) == a \o (b \o (<<x>> \o c)) = Append(a \o b, x) \o c

LEMMA ListsInsert ==
  ASSUME NEW T, NEW a \in Lists(T), NEW b \in Lists(T), NEW c \in Lists(T),
         NEW x \in T
  PROVE  Inserts(a, b, c, x)
<1> DEFINE one == <<x>>
           ab  == a \o b
           bc  == one \o c
<1>1. one \in Lists(T) /\ ab \in Lists(T) /\ a \in Lists(T) /\ b \in Lists(T)
      /\ c \in Lists(T)
  BY ListsJoin, ListsOne
<1>2. ab \o one = Append(ab, x)
  BY <1>1, ListsOne
<1> HIDE DEF one
<1>3. bc \in Lists(T)
  BY <1>1, ListsJoin
<1> HIDE DEF ab
<1>4. (ab \o one) \o c = ab \o (one \o c)
  BY <1>1 DEF Lists
<1> HIDE DEF bc
<1>5. (a \o b) \o bc = a \o (b \o bc)
  BY <1>1, <1>3 DEF Lists
<1>6. (ab \o one) \o c = ab \o bc
  BY <1>4 DEF bc
<1>7. ab \o bc = a \o (b \o bc)
  BY <1>5 DEF ab
<1>8. a \o (b \o bc) = Append(ab, x) \o c
  BY <1>2, <1>6, <1>7
<1> QED  BY <1>8 DEF ab, bc, one, Inserts

(* All of a track. *)
TrackTook(B, E, t) ==
  /\ E \in Muxed /\ E.cover = B.cover
  /\ E.filled = B.filled \cup ({t} \cap mux.filled)
  /\ E.refs[t] = LoggedRefs(mux.refs[t])
  /\ \A u \in Tracks : u # t => E.refs[u] = B.refs[u]
  /\ \A p \in Owner : p # t => E.metas[p] = B.metas[p]
  /\ IF t \in mux.filled THEN HasAll(E, t) ELSE E.metas[t] = B.metas[t]

LEMMA TrackReplayed ==
  ASSUME GoodLists, NEW base \in Lists(Record), NEW t \in Tracks,
         HasSome(Replay(base), t),
         t \notin unlogged => Replay(base).refs[t] = LoggedRefs(mux.refs[t])
  PROVE  /\ TrackRecords(t) \in Lists(Record)
         /\ TrackTook(Replay(base), Replay(base \o TrackRecords(t)), t)
<1> DEFINE B == Replay(base)
           trak == IF t \in unlogged THEN <<TrackRecord(t)>> ELSE <<>>
           r == [kind |-> "samples", owner |-> t]
           with == base \o trak
           C == Replay(with)
           D == Replay(Append(with, r))
           E == Replay(base \o TrackRecords(t))
<1>1. t \in Owner /\ B \in Muxed
  BY OwnerType, ReplayType
<1>2. /\ trak \in Lists(Record) /\ with \in Lists(Record) /\ C \in Muxed
      /\ C.metas = B.metas /\ C.cover = B.cover /\ C.filled = B.filled
      /\ C.refs[t] = LoggedRefs(mux.refs[t])
      /\ \A u \in Tracks : u # t => C.refs[u] = B.refs[u]
  <2>1. CASE t \in unlogged
    <3>1. TrackRecord(t) \in Record /\ trak = <<TrackRecord(t)>>
      BY <2>1, TrakAppended
    <3>2. trak \in Lists(Record) /\ with = Append(base, TrackRecord(t))
      <4> HIDE DEF trak
      <4> QED  BY <3>1, ListsOne
    <3> HIDE DEF with, trak
    <3> QED  BY <3>2, TrakAppended
  <2>2. CASE t \notin unlogged
    <3>1. trak = <<>>
      BY <2>2
    <3>2. trak \in Lists(Record) /\ with = base
      <4>1. <<>> \in Lists(Record) /\ base \o <<>> = base
        BY DEF Lists
      <4> QED  BY <3>1, <4>1
    <3> HIDE DEF with, trak
    <3> QED  BY <1>1, <2>2, <3>2
  <2> QED  BY <2>1, <2>2
<1>3. CASE t \notin mux.filled
  <2>1. TrackRecords(t) = trak \o <<>>
    BY <1>3 DEF TrackRecords
  <2> HIDE DEF trak
  <2>2. TrackRecords(t) = trak
    BY <1>2, <2>1 DEF Lists
  <2>3. E = C
    BY <2>2
  <2> HIDE DEF B, C, E, with
  <2> QED  BY <1>2, <1>3, <2>2, <2>3 DEF TrackTook, B, E
<1>4. CASE t \in mux.filled
  <2> DEFINE metas == MetaRecords(t)
  <2>1. TrackRecords(t) = trak \o (<<r>> \o metas)
    BY <1>4 DEF TrackRecords
  <2> HIDE DEF trak
  <2>2. /\ r \in Record /\ Append(with, r) \in Lists(Record) /\ D \in Muxed
        /\ D.metas = C.metas /\ D.cover = C.cover /\ D.refs = C.refs
        /\ D.filled = C.filled \cup {t}
    <3> HIDE DEF with
    <3> QED  BY <1>2, FilledAppended
  <2>3. HasSome(D, t)
    BY <1>2, <2>2 DEF HasSome, HasFirst
  <2> DEFINE F == Replay(Append(with, r) \o metas)
  <2>4. /\ metas \in Lists(Record) /\ F \in Muxed /\ Others(D, F, t) /\ HasAll(F, t)
    <3> HIDE DEF with, r
    <3> QED  BY <1>1, <2>2, <2>3, MetaRecordsReplayed
  <2> HIDE DEF metas, r
  <2>5. <<r>> \in Lists(Record) /\ <<r>> \o metas \in Lists(Record)
    BY <2>2, <2>4, ListsOne, ListsJoin
  <2>6. TrackRecords(t) \in Lists(Record)
    BY <1>2, <2>1, <2>5, ListsJoin
  <2>7. base \o TrackRecords(t) = Append(with, r) \o metas
    <3>1. /\ base \in Lists(Record) /\ trak \in Lists(Record)
          /\ metas \in Lists(Record)
      BY <1>2, <2>4
    <3>2. Inserts(base, trak, metas, r)
      BY <2>2, <3>1, ListsInsert
    <3> QED  BY <2>1, <3>2 DEF Inserts
  <2>8. E = F
    BY <2>7
  <2> HIDE DEF B, C, D, E, F, with
  <2> QED  BY <1>2, <1>4, <2>2, <2>4, <2>6, <2>8 DEF TrackTook, Others, B, E
<1> QED  BY <1>3, <1>4

Joins(a, b, c) == a \o (b \o c) = (a \o b) \o c

LEMMA ListsJoins ==
  ASSUME NEW T, NEW a \in Lists(T), NEW b \in Lists(T), NEW c \in Lists(T)
  PROVE  Joins(a, b, c)
BY DEF Lists, Joins

(* The first k tracks. *)
Seqs == [t \in Tracks |-> TrackRecords(t)]
Upto(k) == log \o FlattenSeq(SubSeq(Seqs, 1, k))

SomeTook(B, E, k) ==
  /\ E \in Muxed /\ E.cover = B.cover
  /\ E.filled = B.filled \cup {t \in mux.filled : t <= k}
  /\ \A t \in Tracks :
       E.refs[t] = IF t <= k THEN LoggedRefs(mux.refs[t]) ELSE B.refs[t]
  /\ \A t \in Tracks : t \in mux.filled /\ t <= k => HasAll(E, t)
  /\ \A o \in Owner : ~(o \in mux.filled /\ o <= k) => E.metas[o] = B.metas[o]

(* What the log has between two calls, beside what a synced muxer had. *)
LogFollows(B) ==
  /\ \A o \in Owner : HasSome(B, o)
  /\ \A t \in Tracks : t \notin unlogged => B.refs[t] = LoggedRefs(mux.refs[t])

LEMMA SomeTookNone ==
  ASSUME GoodLists, NEW B \in Muxed PROVE SomeTook(B, B, 0)
<1>1. \A t \in Tracks : ~(t <= 0)
  BY OwnerType
<1>2. mux.filled \subseteq Tracks
  BY MuxedType DEF GoodLists
<1>3. \A o \in Owner : ~(o \in mux.filled /\ o <= 0)
  BY <1>1, <1>2
<1> QED  BY <1>1, <1>2, <1>3 DEF SomeTook

LEMMA SomeTookNext ==
  ASSUME GoodLists, NEW B \in Muxed, NEW D, NEW E, NEW k \in Tracks,
         SomeTook(B, D, k - 1), TrackTook(D, E, k)
  PROVE  SomeTook(B, E, k)
<1>1. /\ \A t \in Tracks : t <= k <=> t <= k - 1 \/ t = k
      /\ \A t \in Tracks : t <= k - 1 => t # k
      /\ ~(k <= k - 1) /\ k \in Int
  BY OwnerType
<1>2. mux.filled \subseteq Tracks
  BY MuxedType DEF GoodLists
<1>3. E \in Muxed /\ E.cover = B.cover
  BY DEF SomeTook, TrackTook
<1>4. E.filled = B.filled \cup {t \in mux.filled : t <= k}
  <2>1. {t \in mux.filled : t <= k}
          = {t \in mux.filled : t <= k - 1} \cup ({k} \cap mux.filled)
    BY <1>1, <1>2
  <2> QED  BY <2>1 DEF SomeTook, TrackTook
<1>5. ASSUME NEW t \in Tracks
      PROVE  E.refs[t] = IF t <= k THEN LoggedRefs(mux.refs[t]) ELSE B.refs[t]
  BY <1>1 DEF SomeTook, TrackTook
<1>6. ASSUME NEW t \in Tracks, t \in mux.filled, t <= k PROVE HasAll(E, t)
  <2>1. CASE t = k
    BY <1>6, <2>1 DEF TrackTook
  <2>2. CASE t # k
    <3>1. HasAll(D, t) /\ E.metas[t] = D.metas[t]
      BY <1>1, <1>6, <2>2, OwnerType DEF SomeTook, TrackTook
    <3> QED  BY <3>1 DEF HasAll, HasFirst
  <2> QED  BY <2>1, <2>2
<1>7. ASSUME NEW o \in Owner, ~(o \in mux.filled /\ o <= k)
      PROVE  E.metas[o] = B.metas[o]
  <2>1. ~(o \in mux.filled /\ o <= k - 1)
    BY <1>1, <1>2, <1>7
  <2>2. D.metas[o] = B.metas[o]
    BY <2>1 DEF SomeTook
  <2>3. o = k => k \notin mux.filled
    BY <1>1, <1>7
  <2> QED  BY <2>2, <2>3 DEF TrackTook
<1> HIDE DEF SomeTook, TrackTook
<1> QED  BY <1>3, <1>4, <1>5, <1>6, <1>7 DEF SomeTook

LEMMA UptoReplayed ==
  ASSUME GoodLists, log \in Lists(Record), LogFollows(Replay(log))
  PROVE  \A k \in 0 .. Len(Types) :
           Upto(k) \in Lists(Record) /\ SomeTook(Replay(log), Replay(Upto(k)), k)
<1> DEFINE n == Len(Types)
           B == Replay(log)
           P == {k \in 0 .. n : Upto(k) \in Lists(Record)
                                /\ SomeTook(B, Replay(Upto(k)), k)}
<1>1. n \in Nat /\ Tracks = 1 .. n /\ B \in Muxed
  BY OwnerType, ReplayType
<1>2. ASSUME NEW t \in Tracks PROVE TrackRecords(t) \in Lists(Record)
  BY OwnerType, TrackReplayed DEF LogFollows
<1>3. Seqs \in Lists(Lists(Record)) /\ Len(Seqs) = n
      /\ \A t \in Tracks : Seqs[t] = TrackRecords(t)
  <2> DEFINE R == Lists(Record)
  <2>1. Seqs \in [1 .. n -> R]
    BY <1>1, <1>2 DEF Seqs
  <2> HIDE DEF R, n
  <2>2. Seqs \in Seq(R) /\ Len(Seqs) = n
    BY <1>1, <2>1
  <2>3. Seqs \in Lists(R)
    BY <2>2 DEF Lists
  <2> QED  BY <2>2, <2>3 DEF Seqs, R
<1>4. 0 \in P
  <2>1. SubSeq(Seqs, 1, 0) = <<>>
    BY <1>3, FlattenFirst
  <2>2. FlattenSeq(SubSeq(Seqs, 1, 0)) = <<>>
    BY <2>1, FlattenEmpty
  <2>3. log \o <<>> = log
    BY DEF Lists
  <2>4. Upto(0) = log
    BY <2>2, <2>3 DEF Upto
  <2> HIDE DEF B
  <2>5. SomeTook(B, B, 0) /\ 0 \in 0 .. n
    BY <1>1, SomeTookNone
  <2> QED  BY <2>4, <2>5 DEF B
<1>5. ASSUME NEW k \in 1 .. n, k - 1 \in P PROVE k \in P
  <2> DEFINE L == Upto(k - 1)
             F == FlattenSeq(SubSeq(Seqs, 1, k - 1))
  <2>1. L \in Lists(Record) /\ SomeTook(B, Replay(L), k - 1)
    BY <1>5
  <2>2. F \in Lists(Record) /\ FlattenSeq(SubSeq(Seqs, 1, k)) = F \o TrackRecords(k)
    <3>1. SubSeq(Seqs, 1, k - 1) \in Lists(Lists(Record))
      BY <1>3, FlattenUpto
    <3>2. FlattenSeq(SubSeq(Seqs, 1, k)) = F \o Seqs[k]
      BY <1>3, FlattenUpto
    <3>3. F \in Lists(Record)
      BY <3>1, FlattenType
    <3> QED  BY <1>1, <1>3, <3>2, <3>3
  <2>3. Upto(k) = L \o TrackRecords(k)
    <3> HIDE DEF F
    <3>1. TrackRecords(k) \in Lists(Record) /\ log \in Lists(Record)
      BY <1>1, <1>2
    <3>2. Joins(log, F, TrackRecords(k))
      BY <2>2, <3>1, ListsJoins
    <3>3. log \o (F \o TrackRecords(k)) = (log \o F) \o TrackRecords(k)
      BY <3>2 DEF Joins
    <3>4. L = log \o F /\ Upto(k) = log \o FlattenSeq(SubSeq(Seqs, 1, k))
      BY DEF Upto, F
    <3> HIDE DEF L
    <3> QED  BY <2>2, <3>3, <3>4
  <2> HIDE DEF L, F, P, B
  <2>5. /\ HasSome(Replay(L), k)
        /\ k \notin unlogged => Replay(L).refs[k] = LoggedRefs(mux.refs[k])
    <3>1. ~(k <= k - 1) /\ k \in Tracks /\ k \in Owner
      BY <1>1, OwnerType
    <3>2. Replay(L).metas[k] = B.metas[k] /\ Replay(L).refs[k] = B.refs[k]
      BY <2>1, <3>1 DEF SomeTook
    <3>3. HasSome(B, k) /\ (k \notin unlogged => B.refs[k] = LoggedRefs(mux.refs[k]))
      BY <3>1 DEF LogFollows, B
    <3> QED  BY <3>2, <3>3 DEF HasSome, HasFirst
  <2>6. TrackTook(Replay(L), Replay(L \o TrackRecords(k)), k)
    BY <1>1, <2>1, <2>5, TrackReplayed
  <2>7. Upto(k) \in Lists(Record)
    <3>1. TrackRecords(k) \in Lists(Record)
      BY <1>1, <1>2
    <3> QED  BY <2>1, <2>3, <3>1, ListsJoin
  <2>8. SomeTook(B, Replay(Upto(k)), k)
    BY <1>1, <2>1, <2>3, <2>6, SomeTookNext
  <2>9. k \in 0 .. n
    BY <1>1
  <2> QED  BY <2>7, <2>8, <2>9 DEF P
<1>6. \A k \in 0 .. n : k \in P
  <2> HIDE DEF P, n
  <2> QED  BY <1>1, <1>4, <1>5, Induction
<1> QED  BY <1>6

(* All of a sync. *)
CoverRecords ==
  IF mux.cover # 0 /\ ~thumb THEN <<[kind |-> "covr", cover |-> mux.cover]>> ELSE <<>>

Caught(B, E) ==
  /\ E \in Muxed /\ E.cover = mux.cover /\ E.filled = mux.filled
  /\ \A t \in Tracks : E.refs[t] = LoggedRefs(mux.refs[t])
  /\ \A o \in Owner : IF o \in {File} \cup mux.filled THEN HasAll(E, o)
                      ELSE E.metas[o] = B.metas[o]

LEMMA SyncReplayed ==
  ASSUME GoodLists, log \in Lists(Record), LogFollows(Replay(log)),
         Replay(log).filled \subseteq mux.filled,
         thumb \/ mux.cover = 0 => Replay(log).cover = mux.cover
  PROVE  LET more == log \o FlattenSeq(Seqs) \o MetaRecords(File) \o CoverRecords
         IN more \in Lists(Record) /\ Caught(Replay(log), Replay(more))
<1> DEFINE n == Len(Types)
           B == Replay(log)
           tracks == log \o FlattenSeq(Seqs)
           C == Replay(tracks)
           file == tracks \o MetaRecords(File)
           D == Replay(file)
           more == file \o CoverRecords
           E == Replay(more)
<1>1. B \in Muxed /\ mux \in Muxed /\ mux.filled \subseteq Tracks
  BY ReplayType, MuxedType DEF GoodLists
<1>2. tracks \in Lists(Record) /\ SomeTook(B, C, n)
  <2>1. Upto(n) = tracks
    <3>1. n \in Nat /\ Seqs \in [1 .. n -> {TrackRecords(t) : t \in Tracks}]
      BY OwnerType DEF Seqs
    <3>2. Seqs \in Seq({TrackRecords(t) : t \in Tracks}) /\ Len(Seqs) = n
      <4> DEFINE R == {TrackRecords(t) : t \in Tracks}
      <4> HIDE DEF R, n
      <4> QED  BY <3>1
    <3>3. SubSeq(Seqs, 1, n) = Seqs
      <4> DEFINE R == {TrackRecords(t) : t \in Tracks}
      <4> HIDE DEF R, n
      <4> QED  BY <3>2
    <3> QED  BY <3>3 DEF Upto
  <2>2. n \in 0 .. n
    BY OwnerType
  <2> HIDE DEF tracks, B, n
  <2>3. Upto(n) \in Lists(Record) /\ SomeTook(B, Replay(Upto(n)), n)
    BY <2>2, UptoReplayed DEF B, n
  <2> QED  BY <2>1, <2>3 DEF C
<1>3. /\ C \in Muxed /\ C.cover = B.cover /\ C.filled = mux.filled
      /\ \A t \in Tracks : C.refs[t] = LoggedRefs(mux.refs[t])
      /\ \A t \in mux.filled : HasAll(C, t)
      /\ \A o \in Owner : o \notin mux.filled => C.metas[o] = B.metas[o]
  <2>1. \A t \in Tracks : t <= n
    BY OwnerType
  <2> HIDE DEF B, C, n
  <2> QED  BY <1>1, <1>2, <2>1 DEF SomeTook, B
<1>4. HasSome(C, File)
  <2>1. HasSome(B, File) /\ C.metas[File] = B.metas[File]
    BY <1>1, <1>3, OwnerType DEF LogFollows
  <2> QED  BY <2>1 DEF HasSome, HasFirst
<1>5. file \in Lists(Record) /\ D \in Muxed /\ Others(C, D, File) /\ HasAll(D, File)
  <2> HIDE DEF tracks
  <2> QED  BY <1>2, <1>4, OwnerType, MetaRecordsReplayed
<1>6. /\ more \in Lists(Record) /\ E \in Muxed /\ E.metas = D.metas
      /\ E.filled = D.filled /\ E.refs = D.refs /\ E.cover = mux.cover
  <2>1. CASE mux.cover # 0 /\ ~thumb
    <3> DEFINE r == [kind |-> "covr", cover |-> mux.cover]
    <3>1. mux.cover \in 0 .. MaxCalls
      BY <1>1, MuxedType
    <3>2. /\ r \in Record /\ Append(file, r) \in Lists(Record)
          /\ Replay(Append(file, r)) \in Muxed
          /\ Replay(Append(file, r)).metas = D.metas
          /\ Replay(Append(file, r)).filled = D.filled
          /\ Replay(Append(file, r)).refs = D.refs
          /\ Replay(Append(file, r)).cover = mux.cover
      <4> HIDE DEF file
      <4> QED  BY <1>5, <3>1, CoverAppended
    <3>3. CoverRecords = <<r>>
      BY <2>1 DEF CoverRecords
    <3> HIDE DEF r, file
    <3>4. more = Append(file, r)
      <4>1. file \o <<r>> = Append(file, r)
        BY <1>5, <3>2, ListsOne
      <4> QED  BY <3>3, <4>1
    <3> QED  BY <3>2, <3>4
  <2>2. CASE ~(mux.cover # 0 /\ ~thumb)
    <3>1. CoverRecords = <<>>
      BY <2>2 DEF CoverRecords
    <3>2. more = file
      <4> HIDE DEF file
      <4>1. file \o <<>> = file
        BY <1>5 DEF Lists
      <4> QED  BY <3>1, <4>1
    <3>3. B.cover = mux.cover
      BY <2>2
    <3> HIDE DEF more, file, B, C, D
    <3> QED  BY <1>3, <1>5, <3>2, <3>3 DEF Others, D
  <2> QED  BY <2>1, <2>2
<1>7. ASSUME NEW o \in Owner
      PROVE  IF o \in {File} \cup mux.filled THEN HasAll(E, o)
             ELSE E.metas[o] = B.metas[o]
  <2> HIDE DEF B, C, D, E
  <2>1. CASE o = File
    BY <1>5, <1>6, <2>1 DEF HasAll, HasFirst
  <2>2. CASE o # File
    <3>1. E.metas[o] = C.metas[o]
      BY <1>5, <1>6, <2>2 DEF Others
    <3> QED  BY <1>3, <2>2, <3>1 DEF HasAll, HasFirst
  <2> QED  BY <2>1, <2>2
<1> HIDE DEF B, C, D, E, more
<1>8. Caught(B, E)
  BY <1>3, <1>5, <1>6, <1>7 DEF Caught, Others
<1> QED  BY <1>6, <1>8 DEF B, E, more

-----------------------------------------------------------------------------
(***************************************************************************)
(* The invariant.  LogInv says that what can be replayed of the log is     *)
(* what the muxer had when it was synced; for that MuxInv says what the    *)
(* log has of the muxer between two syncs, so that the next finds it.      *)
(***************************************************************************)
AsSynced(L) ==
  /\ L.filled = synced.filled /\ L.cover = synced.cover
  /\ \A t \in Tracks : L.refs[t] = LoggedRefs(synced.refs[t])
  /\ \A t \in synced.filled : AsSet(L.metas[t]) = AsSet(synced.metas[t])
  /\ Keyed(L.metas[File]) = Keyed(synced.metas[File])
  /\ \A meta \in AsSet(synced.metas[File]) :
       meta.key \notin outdated => meta \in AsSet(L.metas[File])
  /\ \A o \in Owner : Distinct(L.metas[o])

TypeInv ==
  /\ phase \in Phases /\ mux \in Muxed /\ synced \in Muxed
  /\ calls \in 0 .. MaxCalls /\ written \in [Owner -> Nat]
  /\ unlogged \in SUBSET Tracks /\ thumb \in BOOLEAN /\ recovered \in BOOLEAN
  /\ stale \in SUBSET Keys /\ outdated \in SUBSET Keys
  /\ log \in Lists(Record)
  /\ \A o \in Owner : Distinct(mux.metas[o])

MuxInv ==
  phase = "mux" =>
    /\ \A o \in Owner : Paired(mux.metas[o])
    /\ mux.cover <= calls
    /\ LogFollows(Replay(log))
    /\ Replay(log).filled \subseteq mux.filled
    /\ thumb \/ mux.cover = 0 => Replay(log).cover = mux.cover

LogInv == phase \in {"mux", "dead"} => AsSynced(Replay(log)) /\ ~recovered

RecInv ==
  /\ phase = "recovered" => recovered /\ AsSynced(mux)
  /\ recovered => /\ mux.filled = synced.filled
                  /\ \A t \in Tracks : mux.refs[t] = LoggedRefs(synced.refs[t])
  /\ phase \in {"closed", "open", "refused", "failed"} => recovered \/ synced = mux
  /\ phase = "failed" => ~Writable(mux)
  /\ phase \in {"closed", "open", "refused"} => Writable(mux)

Inv == TypeInv /\ MuxInv /\ LogInv /\ RecInv

LEMMA LoggedNone == LoggedRefs(<<>>) = <<>>
BY DEF LoggedRefs

LEMMA NothingHas ==
  /\ AsSet(<<>>) = {} /\ Keyed(<<>>) = {} /\ Distinct(<<>>) /\ Paired(<<>>)
BY DEF AsSet, Keyed, Distinct, Paired

LEMMA Starts == Init => Inv
<1> SUFFICES ASSUME Init PROVE Inv
  OBVIOUS
<1> USE DEF Init
<1>1. Replay(log) = Nothing /\ log \in Lists(Record)
  BY ReplayEmpty
<1>2. MaxCalls \in Nat
  BY MetadataAssumption DEF MetadataAssumption
<1>3. Unwritten \in [Owner -> Nat] /\ \A o \in Owner : Unwritten[o] = 0
  BY DEF Unwritten, Owner
<1>4. TypeInv
  <2>1. \A o \in Owner : Distinct(Nothing.metas[o])
    BY NothingType, NothingHas
  <2>2. 0 \in 0 .. MaxCalls /\ phase \in Phases
    BY <1>2 DEF Phases
  <2>3. mux \in Muxed /\ synced \in Muxed /\ \A o \in Owner : Distinct(mux.metas[o])
    BY <2>1, NothingType
  <2>4. calls \in 0 .. MaxCalls /\ written \in [Owner -> Nat]
    BY <1>3, <2>2
  <2>5. /\ unlogged \in SUBSET Tracks /\ thumb \in BOOLEAN /\ recovered \in BOOLEAN
        /\ stale \in SUBSET Keys /\ outdated \in SUBSET Keys
    OBVIOUS
  <2> QED  BY <1>1, <2>2, <2>3, <2>4, <2>5 DEF TypeInv
<1>5. AsSynced(Nothing)
  <2>1. File \in Owner /\ \A t \in Tracks : t \in Owner
    BY OwnerType
  <2> QED  BY <2>1, NothingType, NothingHas, LoggedNone DEF AsSynced
<1>6. MuxInv
  <2>1. ASSUME NEW o \in Owner PROVE HasSome(Nothing, o) /\ Paired(mux.metas[o])
    <3>1. Skipped(o) = 0 /\ Len(<<>>) = 0
      BY <1>3 DEF Skipped
    <3> QED  BY <3>1, NothingType, NothingHas DEF HasSome, HasFirst
  <2> QED  BY <1>1, <1>2, <2>1, NothingType, LoggedNone DEF MuxInv, LogFollows
<1> QED  BY <1>1, <1>4, <1>5, <1>6 DEF Inv, LogInv, RecInv

LEMMA WhenMuxing ==
  ASSUME Inv, phase = "mux"
  PROVE  /\ TypeInv /\ GoodLists /\ LogFollows(Replay(log))
         /\ \A o \in Owner : Paired(mux.metas[o])
         /\ mux.cover <= calls /\ Replay(log).filled \subseteq mux.filled
         /\ thumb \/ mux.cover = 0 => Replay(log).cover = mux.cover
         /\ AsSynced(Replay(log)) /\ recovered = FALSE
BY DEF Inv, TypeInv, MuxInv, LogInv, GoodLists

(* The calls but those of metadata leave what the log has of them alone. *)
LEMMA SomeKept ==
  ASSUME NEW L, NEW o \in Owner, HasSome(L, o), mux'.metas[o] = mux.metas[o],
         written'[o] = written[o], stale \subseteq stale'
  PROVE  HasSome(L, o)'
BY DEF HasSome, HasFirst, Skipped, Overridden

(* What a call that adds something needs to keep. *)
LEMMA MuxingKept ==
  ASSUME Inv, phase = "mux", UNCHANGED <<phase, log, synced, outdated, recovered>>,
         TypeInv', \A o \in Owner : Paired(mux'.metas[o]), mux'.cover <= calls',
         \A o \in Owner : HasSome(Replay(log), o)',
         \A t \in Tracks : t \notin unlogged' =>
           t \notin unlogged /\ mux'.refs[t] = mux.refs[t],
         mux.filled \subseteq mux'.filled,
         thumb' \/ mux'.cover = 0 =>
           (thumb \/ mux.cover = 0) /\ mux'.cover = mux.cover
  PROVE  Inv'
<1>1. /\ LogFollows(Replay(log)) /\ Replay(log).filled \subseteq mux.filled
      /\ thumb \/ mux.cover = 0 => Replay(log).cover = mux.cover
      /\ AsSynced(Replay(log)) /\ recovered = FALSE
  BY WhenMuxing
<1> DEFINE L == Replay(log)
<1>2. Replay(log') = L
  OBVIOUS
<1> HIDE DEF L
<1>3. LogFollows(L)'
  BY <1>1, <1>2 DEF LogFollows, L
<1>4. AsSynced(L)'
  BY <1>1, <1>2 DEF AsSynced, L
<1>5. MuxInv'
  BY <1>1, <1>2, <1>3 DEF MuxInv, L
<1>6. LogInv' /\ RecInv'
  BY <1>1, <1>2, <1>4 DEF LogInv, RecInv, L
<1> QED  BY <1>5, <1>6 DEF Inv

LEMMA MuxChanged ==
  ASSUME NEW m \in Muxed
  PROVE  /\ \A metas \in [Owner -> Seq(Meta)] :
              LET n == [m EXCEPT !.metas = metas]
              IN n \in Muxed /\ n.metas = metas /\ n.cover = m.cover
                 /\ n.refs = m.refs /\ n.filled = m.filled
         /\ \A cover \in 0 .. MaxCalls :
              LET n == [m EXCEPT !.cover = cover]
              IN n \in Muxed /\ n.metas = m.metas /\ n.cover = cover
                 /\ n.refs = m.refs /\ n.filled = m.filled
         /\ \A refs \in [Tracks -> Seq({0} \cup Tracks)] :
              LET n == [m EXCEPT !.refs = refs]
              IN n \in Muxed /\ n.metas = m.metas /\ n.cover = m.cover
                 /\ n.refs = refs /\ n.filled = m.filled
         /\ \A filled \in SUBSET Tracks :
              LET n == [m EXCEPT !.filled = filled]
              IN n \in Muxed /\ n.metas = m.metas /\ n.cover = m.cover
                 /\ n.refs = m.refs /\ n.filled = filled
BY DEF Muxed, Owner

LEMMA SomeAdded ==
  ASSUME Inv, phase = "mux", log' = log,
         NEW o \in Owner, NEW key \in Keys, NEW value \in Values,
         mux'.metas[o] = Added(mux.metas[o], key, value),
         written'[o] = IF o # File /\ key \in Keyed(mux.metas[o]) THEN 0
                       ELSE written[o],
         stale' = IF o = File /\ key \in Keyed(synced.metas[File])
                  THEN stale \cup {key} ELSE stale
  PROVE  HasSome(Replay(log), o)'
<1> DEFINE L == Replay(log)
           list == mux.metas[o]
           more == Added(list, key, value)
           own == L.metas[o]
<1>1. /\ HasSome(L, o) /\ GoodLists
      /\ Keyed(L.metas[File]) = Keyed(synced.metas[File])
  BY WhenMuxing DEF LogFollows, AsSynced
<1>2. list \in Seq(Meta) /\ written[o] \in Nat
  BY <1>1, MuxedType DEF GoodLists
<1>3. /\ more \in Seq(Meta) /\ Grown(list, more, key)
      /\ Keyed(list) \subseteq Keyed(more)
  BY <1>2, AddedFacts
<1>4. /\ Len(list) \in Nat /\ Len(more) \in Nat /\ Len(list) <= Len(more)
      /\ DOMAIN list = 1 .. Len(list)
  BY <1>2, <1>3, ListType DEF Grown
<1> DEFINE s == Skipped(o)
           z == IF o # File /\ key \in Keyed(list) THEN 0 ELSE s
<1>5. s \in Nat /\ s <= Len(list) /\ Skipped(o)' = z
  BY <1>1, <1>2 DEF HasSome, Skipped
<1>6. z \in Nat /\ z <= Len(more)
  BY <1>4, <1>5
<1>7. ASSUME NEW i \in 1 .. z
      PROVE  /\ more[i].key \in Keyed(own)
             /\ more[i].key \in Overridden(o)' \/ more[i] \in AsSet(own)
  <2>1. z = s /\ i \in 1 .. s /\ i \in 1 .. Len(list)
    BY <1>4, <1>5, <1>7
  <2>2. list[i].key \in Keyed(own)
        /\ (list[i].key \in Overridden(o) \/ list[i] \in AsSet(own))
    BY <1>1, <2>1 DEF HasSome, HasFirst
  <2>3. more[i].key = list[i].key /\ (list[i].key # key => more[i] = list[i])
    BY <1>3, <2>1 DEF Grown
  <2>4. CASE list[i].key = key
    <3>1. key \in Keyed(list)
      BY <1>4, <2>1, <2>4 DEF Keyed
    <3>2. o = File
      BY <1>5, <1>7, <2>1, <3>1
    <3>3. key \in stale'
      BY <1>1, <2>2, <2>4, <3>2
    <3> QED  BY <2>2, <2>3, <2>4, <3>2, <3>3 DEF Overridden
  <2>5. CASE list[i].key # key
    <3>1. Overridden(o) \subseteq Overridden(o)'
      BY DEF Overridden
    <3> QED  BY <2>2, <2>3, <2>5, <3>1
  <2> QED  BY <2>4, <2>5
<1>8. Distinct(own) /\ Keyed(own) \subseteq Keyed(more)
  BY <1>1, <1>3 DEF HasSome
<1>9. PICK R : R = L
  OBVIOUS
<1>10. Replay(log)' = R
  BY <1>9
<1> HIDE DEF L
<1>11. HasSome(R, o)'
  BY <1>5, <1>6, <1>7, <1>8, <1>9 DEF HasSome, HasFirst
<1> QED  BY <1>10, <1>11

LEMMA MetadataAdded ==
  ASSUME Inv, NEW o \in Owners, NEW key \in Keys, NEW value \in Values,
         AddMetadata(o, key, value)
  PROVE  Inv'
<1> DEFINE more == Added(mux.metas[o], key, value)
           metas == [mux.metas EXCEPT ![o] = more]
<1>1. o \in Owner /\ phase = "mux" /\ TypeInv /\ GoodLists
  BY WhenMuxing, MetadataAssumption DEF AddMetadata, MetadataAssumption, Owner
<1>2. mux.metas \in [Owner -> Seq(Meta)] /\ mux.metas[o] \in Seq(Meta)
  BY <1>1, MuxedType DEF TypeInv
<1>3. /\ more \in Seq(Meta) /\ (Distinct(mux.metas[o]) => Distinct(more))
      /\ Paired(mux.metas[o]) => Paired(more)
  BY <1>2, AddedFacts
<1> HIDE DEF more
<1>4. metas \in [Owner -> Seq(Meta)] /\ metas[o] = more
      /\ \A p \in Owner : p # o => metas[p] = mux.metas[p]
  BY <1>1, <1>2, <1>3
<1>5. mux' = [mux EXCEPT !.metas = metas]
  BY DEF AddMetadata, more
<1> HIDE DEF metas
<1>6. /\ mux' \in Muxed /\ mux'.metas = metas /\ mux'.cover = mux.cover
      /\ mux'.refs = mux.refs /\ mux'.filled = mux.filled
  BY <1>1, <1>4, <1>5, MuxChanged DEF TypeInv
<1>7. /\ calls \in Nat /\ calls' = calls + 1 /\ calls' \in 0 .. MaxCalls
      /\ mux.cover \in Nat /\ mux.cover <= calls
  <2>1. calls \in 0 .. MaxCalls /\ mux.cover \in 0 .. MaxCalls /\ MaxCalls \in Nat
    BY <1>1, MuxedType, MetadataAssumption DEF TypeInv, MetadataAssumption
  <2>2. calls < MaxCalls /\ calls' = calls + 1
    BY DEF AddMetadata
  <2> QED  BY <1>1, <2>1, <2>2, WhenMuxing
<1>8. /\ written' \in [Owner -> Nat]
      /\ written'[o] = IF o # File /\ key \in Keyed(mux.metas[o]) THEN 0
                       ELSE written[o]
      /\ \A p \in Owner : p # o => written'[p] = written[p]
  BY <1>1 DEF AddMetadata, TypeInv
<1>9. /\ stale' = IF o = File /\ key \in Keyed(synced.metas[File])
                  THEN stale \cup {key} ELSE stale
      /\ UNCHANGED <<phase, log, unlogged, thumb, synced, outdated, recovered>>
  BY DEF AddMetadata, fileVars
<1>10. stale' \in SUBSET Keys /\ stale \subseteq stale'
  BY <1>1, <1>9 DEF TypeInv
<1>11. \A p \in Owner : Distinct(mux'.metas[p]) /\ Paired(mux'.metas[p])
  BY <1>1, <1>3, <1>4, <1>6 DEF GoodLists
<1>12. TypeInv'
  BY <1>1, <1>6, <1>7, <1>8, <1>9, <1>10, <1>11 DEF TypeInv
<1>13. ASSUME NEW p \in Owner PROVE HasSome(Replay(log), p)'
  <2>1. CASE p = o
    <3>1. HasSome(Replay(log), o)'
      BY <1>1, <1>4, <1>6, <1>8, <1>9, SomeAdded DEF more
    <3> QED  BY <2>1, <3>1
  <2>2. CASE p # o
    <3>1. PICK L : L = Replay(log)
      OBVIOUS
    <3>2. HasSome(L, p) /\ Replay(log)' = L
      BY <1>1, <1>9, <3>1, WhenMuxing DEF LogFollows
    <3>3. HasSome(L, p)'
      BY <1>4, <1>6, <1>8, <1>10, <2>2, <3>2, SomeKept
    <3> QED  BY <3>2, <3>3
  <2> QED  BY <2>1, <2>2
<1> QED  BY <1>1, <1>6, <1>7, <1>9, <1>11, <1>12, <1>13, MuxingKept

(* Calls that leave the metadata alone. *)
LEMMA MetasLeft ==
  ASSUME Inv, phase = "mux", UNCHANGED <<log, written, stale>>,
         mux'.metas = mux.metas
  PROVE  /\ \A o \in Owner : HasSome(Replay(log), o)'
         /\ \A o \in Owner : Distinct(mux'.metas[o]) /\ Paired(mux'.metas[o])
<1>1. ASSUME NEW o \in Owner PROVE HasSome(Replay(log), o)'
  <2>1. PICK L : L = Replay(log)
    OBVIOUS
  <2>2. HasSome(L, o) /\ Replay(log)' = L
    BY <2>1, WhenMuxing DEF LogFollows
  <2>3. HasSome(L, o)'
    BY <2>2, SomeKept
  <2> QED  BY <2>2, <2>3
<1>2. \A o \in Owner : Distinct(mux'.metas[o]) /\ Paired(mux'.metas[o])
  BY WhenMuxing DEF GoodLists
<1> QED  BY <1>1, <1>2

LEMMA Counted ==
  ASSUME TypeInv, calls < MaxCalls, calls' = calls + 1, mux.cover <= calls
  PROVE  /\ calls' \in 0 .. MaxCalls /\ mux.cover <= calls'
         /\ mux.cover + 1 <= calls' /\ mux.cover + 1 \in 0 .. MaxCalls
         /\ mux.cover + 1 # 0
<1>1. calls \in 0 .. MaxCalls /\ mux.cover \in 0 .. MaxCalls /\ MaxCalls \in Nat
  BY MuxedType, MetadataAssumption DEF TypeInv, MetadataAssumption
<1> QED  BY <1>1

LEMMA CoverSet == ASSUME Inv, SetCover PROVE Inv'
<1>1. phase = "mux" /\ TypeInv /\ mux.cover <= calls
  BY WhenMuxing DEF SetCover
<1>2. /\ calls' \in 0 .. MaxCalls /\ mux.cover + 1 <= calls'
      /\ mux.cover + 1 \in 0 .. MaxCalls /\ mux.cover + 1 # 0
  BY <1>1, Counted DEF SetCover
<1>3. PICK cover \in 0 .. MaxCalls : cover = mux.cover + 1
  BY <1>2
<1>4. mux' = [mux EXCEPT !.cover = cover]
  BY <1>3 DEF SetCover
<1>5. /\ mux' \in Muxed /\ mux'.metas = mux.metas /\ mux'.cover = cover
      /\ mux'.refs = mux.refs /\ mux'.filled = mux.filled
  BY <1>1, <1>4, MuxChanged DEF TypeInv
<1>6. /\ UNCHANGED <<phase, log, written, unlogged, synced, outdated, stale, recovered>>
      /\ thumb' = FALSE
  BY DEF SetCover, fileVars
<1>7. /\ \A o \in Owner : HasSome(Replay(log), o)'
      /\ \A o \in Owner : Distinct(mux'.metas[o]) /\ Paired(mux'.metas[o])
  BY <1>1, <1>5, <1>6, MetasLeft
<1>8. TypeInv'
  BY <1>1, <1>2, <1>5, <1>6, <1>7 DEF TypeInv
<1>9. mux'.cover <= calls' /\ mux'.cover # 0
  BY <1>2, <1>3, <1>5
<1> QED  BY <1>1, <1>5, <1>6, <1>7, <1>8, <1>9, MuxingKept

LEMMA RefAdded ==
  ASSUME Inv, NEW t \in Tracks, NEW u \in Tracks, AddRef(t, u) PROVE Inv'
<1> DEFINE refs == [mux.refs EXCEPT ![t] = Append(@, u)]
<1>1. phase = "mux" /\ TypeInv /\ mux.cover <= calls
  BY WhenMuxing DEF AddRef
<1>2. calls' \in 0 .. MaxCalls /\ mux.cover <= calls'
  BY <1>1, Counted DEF AddRef
<1>3. mux.refs \in [Tracks -> Seq({0} \cup Tracks)]
  BY <1>1, MuxedType DEF TypeInv
<1>4. Append(mux.refs[t], u) \in Seq({0} \cup Tracks)
  BY <1>3
<1>5. /\ refs \in [Tracks -> Seq({0} \cup Tracks)]
      /\ \A v \in Tracks : v # t => refs[v] = mux.refs[v]
  BY <1>3, <1>4
<1>6. mux' = [mux EXCEPT !.refs = refs]
  BY DEF AddRef
<1> HIDE DEF refs
<1>7. /\ mux' \in Muxed /\ mux'.metas = mux.metas /\ mux'.cover = mux.cover
      /\ mux'.refs = refs /\ mux'.filled = mux.filled
  BY <1>1, <1>5, <1>6, MuxChanged DEF TypeInv
<1>8. /\ UNCHANGED <<phase, log, written, thumb, synced, outdated, stale, recovered>>
      /\ unlogged' = unlogged \cup {t}
  BY DEF AddRef, fileVars
<1>9. /\ \A o \in Owner : HasSome(Replay(log), o)'
      /\ \A o \in Owner : Distinct(mux'.metas[o]) /\ Paired(mux'.metas[o])
  BY <1>1, <1>7, <1>8, MetasLeft
<1>10. TypeInv'
  BY <1>1, <1>2, <1>7, <1>8, <1>9 DEF TypeInv
<1>11. \A v \in Tracks : v \notin unlogged' =>
         v \notin unlogged /\ mux'.refs[v] = mux.refs[v]
  BY <1>5, <1>7, <1>8
<1> QED  BY <1>1, <1>2, <1>7, <1>8, <1>9, <1>10, <1>11, MuxingKept

LEMMA TrackFilled == ASSUME Inv, NEW t \in Tracks, Fill(t) PROVE Inv'
<1> DEFINE filled == mux.filled \cup {t}
<1>1. phase = "mux" /\ TypeInv /\ mux.cover <= calls
  BY WhenMuxing DEF Fill
<1>2. calls' \in 0 .. MaxCalls /\ mux.cover <= calls'
  BY <1>1, Counted DEF Fill
<1>3. filled \in SUBSET Tracks
  BY <1>1, MuxedType DEF TypeInv
<1>4. mux' = [mux EXCEPT !.filled = filled] /\ mux.filled \subseteq filled
  BY DEF Fill
<1> HIDE DEF filled
<1>5. /\ mux' \in Muxed /\ mux'.metas = mux.metas /\ mux'.cover = mux.cover
      /\ mux'.refs = mux.refs /\ mux'.filled = filled
  BY <1>1, <1>3, <1>4, MuxChanged DEF TypeInv
<1>6. UNCHANGED <<phase, log, written, unlogged, thumb, synced, outdated, stale, recovered>>
  BY DEF Fill, logVars, fileVars
<1>7. /\ \A o \in Owner : HasSome(Replay(log), o)'
      /\ \A o \in Owner : Distinct(mux'.metas[o]) /\ Paired(mux'.metas[o])
  BY <1>1, <1>5, <1>6, MetasLeft
<1>8. TypeInv'
  BY <1>1, <1>2, <1>5, <1>6, <1>7 DEF TypeInv
<1> QED  BY <1>1, <1>2, <1>4, <1>5, <1>6, <1>7, <1>8, MuxingKept

LEMMA CaughtSynced ==
  ASSUME GoodLists, stale' = stale, NEW B, NEW E, Caught(B, E),
         \A o \in Owner : Distinct(B.metas[o]), synced' = mux, outdated' = stale
  PROVE  AsSynced(E)'
<1>1. E \in Muxed /\ mux \in Muxed /\ mux.filled \subseteq Tracks
  BY MuxedType DEF Caught, GoodLists
<1>2. ASSUME NEW o \in {File} \cup mux.filled
      PROVE  /\ o \in Owner /\ Distinct(E.metas[o])
             /\ Keyed(E.metas[o]) = Keyed(mux.metas[o])
             /\ E.metas[o] \in Seq(Meta) /\ mux.metas[o] \in Seq(Meta)
             /\ \A meta \in AsSet(mux.metas[o]) :
                  meta.key \notin Overridden(o) => meta \in AsSet(E.metas[o])
  <2>1. o \in Owner
    BY <1>1, <1>2, OwnerType
  <2>2. HasAll(E, o) /\ E.metas[o] \in Seq(Meta) /\ mux.metas[o] \in Seq(Meta)
    BY <1>1, <1>2, <2>1, MuxedType DEF Caught
  <2>3. ASSUME NEW meta \in AsSet(mux.metas[o]), meta.key \notin Overridden(o)
        PROVE  meta \in AsSet(E.metas[o])
    <3>1. PICK i \in 1 .. Len(mux.metas[o]) : meta = mux.metas[o][i]
      BY <2>2, ListType DEF AsSet
    <3> QED  BY <2>2, <2>3, <3>1 DEF HasAll, HasFirst
  <2> QED  BY <2>1, <2>2, <2>3 DEF HasAll
<1>3. ASSUME NEW t \in mux.filled PROVE AsSet(E.metas[t]) = AsSet(mux.metas[t])
  <2>1. Overridden(t) = {}
    BY <1>1, OwnerType DEF Overridden
  <2>2. AsSet(mux.metas[t]) \subseteq AsSet(E.metas[t])
    BY <1>2, <2>1
  <2> QED  BY <1>2, <2>2, SameEntries
<1>4. /\ Keyed(E.metas[File]) = Keyed(mux.metas[File])
      /\ \A meta \in AsSet(mux.metas[File]) :
           meta.key \notin stale => meta \in AsSet(E.metas[File])
  BY <1>2 DEF Overridden
<1>5. \A o \in Owner : Distinct(E.metas[o])
  BY <1>2 DEF Caught
<1>6. /\ E.filled = mux.filled /\ E.cover = mux.cover
      /\ \A t \in Tracks : E.refs[t] = LoggedRefs(mux.refs[t])
  BY DEF Caught
<1> QED  BY <1>3, <1>4, <1>5, <1>6 DEF AsSynced

LEMMA CaughtSome ==
  ASSUME GoodLists, stale' = stale, mux' = mux, NEW B, NEW E, Caught(B, E),
         NEW o \in Owner, HasSome(B, o),
         written'[o] = IF o \in {File} \cup mux.filled THEN Len(mux.metas[o]) + 1
                       ELSE written[o]
  PROVE  HasSome(E, o)'
<1>1. CASE o \in {File} \cup mux.filled
  <2>1. HasAll(E, o)
    BY <1>1 DEF Caught
  <2>2. Len(mux.metas[o]) \in Nat
    BY MuxedType, ListType DEF GoodLists
  <2>3. Skipped(o)' = Len(mux.metas[o])
    BY <1>1, <2>2 DEF Skipped
  <2> QED  BY <2>1, <2>2, <2>3 DEF HasSome, HasAll, HasFirst, Overridden
<1>2. CASE o \notin {File} \cup mux.filled
  <2>1. E.metas[o] = B.metas[o] /\ Skipped(o)' = Skipped(o)
    BY <1>2 DEF Caught, Skipped
  <2> QED  BY <2>1 DEF HasSome, HasFirst, Overridden
<1> QED  BY <1>1, <1>2

LEMMA SyncDone == ASSUME Inv, Sync PROVE Inv'
<1>1. /\ phase = "mux" /\ TypeInv /\ GoodLists /\ LogFollows(Replay(log))
      /\ \A o \in Owner : Paired(mux.metas[o])
      /\ mux.cover <= calls /\ Replay(log).filled \subseteq mux.filled
      /\ thumb \/ mux.cover = 0 => Replay(log).cover = mux.cover
      /\ AsSynced(Replay(log)) /\ recovered = FALSE
  BY WhenMuxing DEF Sync
<1>2. log' = log \o FlattenSeq(Seqs) \o MetaRecords(File) \o CoverRecords
  BY DEF Sync, Seqs, CoverRecords
<1>3. PICK B : B = Replay(log)
  OBVIOUS
<1>4. log' \in Lists(Record) /\ Caught(B, Replay(log'))
  BY <1>1, <1>2, <1>3, SyncReplayed DEF TypeInv
<1>5. PICK E : E = Replay(log')
  OBVIOUS
<1>6. Replay(log)' = E /\ Caught(B, E)
  BY <1>4, <1>5
<1>7. /\ UNCHANGED <<phase, mux, calls, stale, recovered>>
      /\ unlogged' = {} /\ thumb' = (thumb \/ mux.cover # 0)
      /\ synced' = mux /\ outdated' = stale
  BY DEF Sync, fileVars
<1>8. written' \in [Owner -> Nat] /\
      \A o \in Owner :
        written'[o] = IF o \in {File} \cup mux.filled THEN Len(mux.metas[o]) + 1
                      ELSE written[o]
  <2>1. \A o \in Owner : Len(mux.metas[o]) + 1 \in Nat
    BY <1>1, MuxedType, ListType DEF TypeInv
  <2>2. written \in [Owner -> Nat]
    BY <1>1 DEF TypeInv
  <2>3. written' = [o \in DOMAIN written |->
                      IF o \in {File} \cup mux.filled
                      THEN Len(mux.metas[o]) + 1 ELSE written[o]]
    BY DEF Sync
  <2> QED  BY <2>1, <2>2, <2>3
<1>9. TypeInv'
  BY <1>1, <1>4, <1>7, <1>8 DEF TypeInv
<1>10. \A o \in Owner : Distinct(B.metas[o]) /\ HasSome(B, o)
  BY <1>1, <1>3 DEF LogFollows, HasSome
<1>11. AsSynced(E)'
  BY <1>1, <1>6, <1>7, <1>10, CaughtSynced
<1>12. \A o \in Owner : HasSome(E, o)'
  BY <1>1, <1>6, <1>7, <1>8, <1>10, CaughtSome
<1>13. LogFollows(E)'
  BY <1>6, <1>7, <1>12 DEF LogFollows, Caught
<1>14. MuxInv'
  BY <1>1, <1>6, <1>7, <1>13 DEF MuxInv, Caught
<1>15. LogInv'
  BY <1>1, <1>6, <1>7, <1>11 DEF LogInv
<1>16. RecInv'
  BY <1>1, <1>7 DEF RecInv
<1> QED  BY <1>9, <1>14, <1>15, <1>16 DEF Inv

-----------------------------------------------------------------------------
(* After the muxer. *)

LEMMA Crashed == ASSUME Inv, Crash PROVE Inv'
<1>1. phase = "mux" /\ TypeInv /\ AsSynced(Replay(log)) /\ recovered = FALSE
  BY WhenMuxing DEF Crash
<1>2. PICK L : L = Replay(log)
  OBVIOUS
<1>3. /\ phase' = "dead" /\ mux' = Nothing /\ calls' = 0 /\ written' = Unwritten
      /\ unlogged' = Tracks /\ thumb' = FALSE /\ stale' = {}
      /\ UNCHANGED <<log, synced, outdated, recovered>>
  BY DEF Crash, Forget, fileVars
<1>4. Unwritten \in [Owner -> Nat] /\ 0 \in 0 .. MaxCalls
  BY MetadataAssumption DEF MetadataAssumption, Unwritten, Owner
<1>5. \A o \in Owner : Distinct(Nothing.metas[o])
  BY NothingType, NothingHas
<1>6. TypeInv'
  <2>1. phase' \in Phases /\ mux' \in Muxed
    BY <1>3, NothingType DEF Phases
  <2> QED  BY <1>1, <1>3, <1>4, <1>5, <2>1 DEF TypeInv
<1>7. Replay(log)' = L
  BY <1>2, <1>3
<1>8. AsSynced(L)'
  BY <1>1, <1>2, <1>3 DEF AsSynced
<1> QED  BY <1>1, <1>3, <1>6, <1>7, <1>8 DEF Inv, MuxInv, LogInv, RecInv

LEMMA RecoveryDone == ASSUME Inv, Recover PROVE Inv'
<1>1. phase = "dead" /\ TypeInv /\ AsSynced(Replay(log))
  BY DEF Recover, Inv, LogInv
<1>2. PICK L : L = Replay(log)
  OBVIOUS
<1>3. /\ phase' = "recovered" /\ recovered' = TRUE /\ mux' = L
      /\ UNCHANGED <<calls, log, written, unlogged, thumb, synced, outdated, stale>>
  BY <1>2 DEF Recover, logVars
<1>4. L \in Muxed
  BY <1>1, <1>2, ReplayType DEF TypeInv
<1>5. AsSynced(L)'
  BY <1>1, <1>2, <1>3 DEF AsSynced
<1>6. \A o \in Owner : Distinct(L.metas[o])
  BY <1>1, <1>2 DEF AsSynced
<1>7. TypeInv'
  BY <1>1, <1>3, <1>4, <1>6 DEF TypeInv, Phases
<1>8. AsSynced(mux)'
  BY <1>3, <1>5 DEF AsSynced
<1>9. L.filled = synced.filled /\ \A t \in Tracks : L.refs[t] = LoggedRefs(synced.refs[t])
  BY <1>1, <1>2 DEF AsSynced
<1> QED  BY <1>3, <1>7, <1>8, <1>9 DEF Inv, MuxInv, LogInv, RecInv

LEMMA CloseDone == ASSUME Inv, Close PROVE Inv'
<1>1. /\ phase \in {"mux", "recovered"} /\ TypeInv /\ LogInv /\ RecInv
      /\ recovered <=> phase = "recovered"
  BY DEF Close, Inv, LogInv, RecInv
<1>2. /\ phase' = IF Writable(mux) THEN "closed" ELSE "failed"
      /\ log' = <<>> /\ calls' = 0 /\ written' = Unwritten
      /\ unlogged' = Tracks /\ thumb' = FALSE /\ stale' = {} /\ outdated' = {}
      /\ synced' = IF recovered THEN synced ELSE mux
      /\ UNCHANGED <<mux, recovered>>
  BY DEF Close, Forget
<1>3. Unwritten \in [Owner -> Nat] /\ 0 \in 0 .. MaxCalls
  BY MetadataAssumption DEF MetadataAssumption, Unwritten, Owner
<1>4. TypeInv'
  <2>1. phase' \in Phases /\ <<>> \in Lists(Record)
    BY <1>2, ReplayEmpty DEF Phases
  <2> QED  BY <1>1, <1>2, <1>3, <2>1 DEF TypeInv
<1>5. RecInv'
  BY <1>1, <1>2 DEF RecInv, Writable
<1> QED  BY <1>2, <1>4, <1>5 DEF Inv, MuxInv, LogInv

LEMMA Opened == ASSUME Inv, Open PROVE Inv'
<1>1. /\ phase = "closed" /\ phase' \in {"open", "refused"}
      /\ UNCHANGED <<mux, calls, log, written, unlogged, thumb, synced, outdated,
                     stale, recovered>>
  BY DEF Open, logVars
<1>2. TypeInv'
  BY <1>1 DEF Inv, TypeInv, Phases
<1>3. RecInv'
  BY <1>1 DEF Inv, RecInv, Writable
<1> QED  BY <1>1, <1>2, <1>3 DEF Inv, MuxInv, LogInv

LEMMA Idle == ASSUME Inv, UNCHANGED vars PROVE Inv'
<1>1. UNCHANGED <<phase, mux, calls, log, written, unlogged, thumb, recovered,
                  synced, stale, outdated>>
  BY DEF vars
<1>2. PICK L : L = Replay(log)
  OBVIOUS
<1>3. Replay(log)' = L
  BY <1>1, <1>2
<1>4. TypeInv' /\ RecInv'
  BY <1>1 DEF Inv, TypeInv, RecInv, AsSynced, Writable
<1>5. LogInv'
  BY <1>1, <1>2, <1>3 DEF Inv, LogInv, AsSynced
<1>6. MuxInv'
  <2>1. SUFFICES ASSUME phase = "mux" PROVE MuxInv'
    BY <1>1 DEF MuxInv
  <2>2. \A o \in Owner : HasSome(L, o)'
    BY <1>1, <1>2, <1>3, <2>1, MetasLeft
  <2> QED  BY <1>1, <1>2, <1>3, <2>2 DEF Inv, MuxInv, LogFollows
<1> QED  BY <1>4, <1>5, <1>6 DEF Inv

(* Between calls of the muxer, after a crash and after a recovery, the log *)
(* replays as what the muxer had at its last mp4_mux_sync.                 *)
THEOREM Inductive == Spec => []Inv
<1>1. ASSUME Inv, [Next]_vars PROVE Inv'
  BY <1>1, MetadataAdded, CoverSet, RefAdded, TrackFilled, SyncDone, Crashed,
     RecoveryDone, CloseDone, Opened, Idle DEF Next
<1> QED  BY <1>1, Starts, PTL DEF Spec

(* A list that mp4_mux_add_file_metadata or mp4_mux_add_track_metadata     *)
(* build has no key twice, and mp4_mux_sync never counts more of it as     *)
(* logged than it has.                                                     *)
THEOREM TypeCorrect == Spec => []TypeOK
<1>1. ASSUME Inv PROVE TypeOK
  <2>1. TypeInv
    BY <1>1 DEF Inv
  <2>2. DOMAIN mux.metas = Owner /\ \A o \in Owner : mux.metas[o] \in Seq(Meta)
    BY <2>1, MuxedType DEF TypeInv
  <2>3. \A o \in Owner : Cardinality(Keyed(mux.metas[o])) = Len(mux.metas[o])
    BY <2>1, <2>2, DistinctCount DEF TypeInv
  <2>4. ASSUME NEW o \in Owner, phase = "mux"
        PROVE  written[o] \in 0 .. Len(mux.metas[o]) + 1
    <3>1. HasSome(Replay(log), o)
      BY <1>1, <2>4, WhenMuxing DEF LogFollows
    <3>2. Skipped(o) <= Len(mux.metas[o]) /\ Len(mux.metas[o]) \in Nat
          /\ written[o] \in Nat
      BY <2>1, <2>2, <3>1, ListType DEF HasSome, TypeInv
    <3> QED  BY <3>2 DEF Skipped
  <2> QED  BY <2>1, <2>2, <2>3, <2>4 DEF TypeInv, TypeOK
<1> QED  BY <1>1, Inductive, PTL

(* mp4_recovery_recover_file has what the last mp4_mux_sync logged: of the *)
(* tracks all metadata, of the file all keys and the values that were not  *)
(* overridden after a sync; and it fails only where the muxer would have,  *)
(* or where a track has several references.                                *)
THEOREM RecoveredAsSynced == Spec => []Recovered
<1>1. ASSUME Inv PROVE Recovered
  <2>1. TypeInv /\ RecInv
    BY <1>1 DEF Inv
  <2>2. ASSUME phase = "failed", recovered, Writable(synced)
        PROVE  \E t \in synced.filled : Len(synced.refs[t]) > 1
    <3>1. /\ mux.filled = synced.filled /\ ~Writable(mux)
          /\ \A t \in Tracks : mux.refs[t] = LoggedRefs(synced.refs[t])
      BY <2>1, <2>2 DEF RecInv
    <3>2. PICK t \in synced.filled : \E i \in DOMAIN mux.refs[t] :
            ~(/\ mux.refs[t][i] \in Tracks
              /\ Types[t] = "metadata" \/ Types[mux.refs[t][i]] = "chapters")
      BY <3>1 DEF Writable
    <3>3. /\ t \in Tracks /\ synced.refs[t] \in Seq({0} \cup Tracks)
          /\ mux.refs[t] = LoggedRefs(synced.refs[t])
      BY <2>1, <3>1, MuxedType DEF TypeInv
    <3>4. mux.refs[t] # synced.refs[t]
      BY <2>2, <3>2 DEF Writable
    <3>5. ~(Len(synced.refs[t]) > 1) => LoggedRefs(synced.refs[t]) = synced.refs[t]
      <4> DEFINE refs == synced.refs[t]
      <4> HIDE DEF refs
      <4>1. refs \in Seq({0} \cup Tracks)
        BY <3>3 DEF refs
      <4>2. Len(refs) \in Nat /\ DOMAIN refs = 1 .. Len(refs)
            /\ refs = [i \in 1 .. Len(refs) |-> refs[i]]
        BY <4>1
      <4>3. ASSUME ~(Len(refs) > 1), NEW i \in 1 .. Len(refs)
            PROVE  4 * (i - 1) < Len(refs)
        BY <4>2, <4>3
      <4>4. ~(Len(refs) > 1) => LoggedRefs(refs) = refs
        BY <4>2, <4>3 DEF LoggedRefs
      <4> QED  BY <4>4 DEF refs
    <3> QED  BY <3>3, <3>4, <3>5
  <2>3. ASSUME phase = "recovered"
        PROVE  /\ mux.filled = synced.filled /\ mux.cover = synced.cover
               /\ \A t \in mux.filled : AsSet(mux.metas[t]) = AsSet(synced.metas[t])
               /\ Keyed(mux.metas[File]) = Keyed(synced.metas[File])
               /\ \A meta \in AsSet(synced.metas[File]) :
                    meta.key \notin outdated => meta \in AsSet(mux.metas[File])
    BY <2>1, <2>3 DEF RecInv, AsSynced
  <2> QED  BY <2>2, <2>3 DEF Recovered
<1> QED  BY <1>1, Inductive, PTL

-----------------------------------------------------------------------------
(* The moov, box by box.                                                   *)

Boxed == [key : Keys, value : Values \cup {NoValue}]

ReadState == [refused : BOOLEAN, found : SUBSET Tracks, ids : [Tracks -> Seq(Nat)],
              metas : [Owner -> Seq(Boxed)], udta : Seq(Meta),
              location : Seq(Meta), cover : 0 .. MaxCalls]

TrakBox == [box : {"trak"}, owner : Tracks,
            type : {"video", "audio", "metadata", "chapters"}]
TrefBox == [box : {"tref"}, owner : Tracks, words : Seq(Nat)]
KeysBox == [box : {"keys"}, owner : Owner, list : Seq(Boxed)]
DataBox == [box : {"data"}, owner : Owner, at : Nat, value : Values]
IlstBox == [box : {"ilst"}]
TagBox  == [box : {"tag"}, key : Keys, value : Values]
XyzBox  == [box : {"xyz"}, key : Keys, value : Values]
CovrBox == [box : {"covr"}, cover : 0 .. MaxCalls]
Box == TrakBox \cup TrefBox \cup KeysBox \cup DataBox \cup IlstBox \cup TagBox
       \cup XyzBox \cup CovrBox

Ids(words) ==
  SubSeq(words, 3, IF Len(words) < MaxTrackRefs + 2 THEN Len(words)
                   ELSE MaxTrackRefs + 2)

LEMMA ReadFields ==
  ASSUME NEW R \in ReadState
  PROVE  /\ R.refused \in BOOLEAN /\ R.found \in SUBSET Tracks
         /\ R.ids \in [Tracks -> Seq(Nat)] /\ R.metas \in [Owner -> Seq(Boxed)]
         /\ R.udta \in Seq(Meta) /\ R.location \in Seq(Meta)
         /\ R.cover \in 0 .. MaxCalls
BY DEF ReadState

LEMMA UnreadType ==
  /\ Unread \in ReadState /\ Unread.refused = FALSE /\ Unread.found = {}
  /\ \A t \in Tracks : Unread.ids[t] = <<>>
  /\ \A o \in Owner : Unread.metas[o] = <<>>
  /\ Unread.udta = <<>> /\ Unread.location = <<>>
<1>1. 0 \in 0 .. MaxCalls
  BY MetadataAssumption DEF MetadataAssumption
<1>2. /\ [t \in Tracks |-> <<>>] \in [Tracks -> Seq(Nat)]
      /\ [o \in Owner |-> <<>>] \in [Owner -> Seq(Boxed)]
      /\ <<>> \in Seq(Meta)
  OBVIOUS
<1>3. Unread = [refused |-> FALSE, found |-> {}, ids |-> [t \in Tracks |-> <<>>],
                metas |-> [o \in Owner |-> <<>>],
                udta |-> <<>>, location |-> <<>>, cover |-> 0]
  BY DEF Unread, Owner
<1> QED  BY <1>1, <1>2, <1>3 DEF ReadState

(* Once refused a file stays so. *)
LEMMA RefusedRead ==
  ASSUME NEW R \in ReadState, NEW b,
         R.refused \/ (b.box \in {"data", "tag"} /\ b.value = Empty)
  PROVE  ReadBox(R, b) \in ReadState /\ ReadBox(R, b).refused
<1>1. ReadBox(R, b) = [R EXCEPT !.refused = TRUE]
  BY DEF ReadBox
<1> QED  BY <1>1 DEF ReadState

LEMMA TrakRead ==
  ASSUME NEW R \in ReadState, NEW b \in TrakBox
  PROVE  LET E == ReadBox(R, b)
         IN /\ E \in ReadState /\ (E.refused <=> R.refused)
            /\ ~E.refused => /\ E.found = R.found \cup {b.owner} /\ E.ids = R.ids
                             /\ E.metas = R.metas /\ E.udta = R.udta
                             /\ E.location = R.location
<1> DEFINE found == R.found \cup {b.owner}
           E == ReadBox(R, b)
<1>1. b.box = "trak" /\ b.owner \in Tracks
  BY DEF TrakBox
<1>2. CASE R.refused
  BY <1>2, RefusedRead
<1>3. CASE ~R.refused
  <2>1. E = [R EXCEPT !.found = found]
    BY <1>1, <1>3 DEF ReadBox
  <2>2. found \in SUBSET Tracks
    BY <1>1, ReadFields
  <2> HIDE DEF E, found
  <2>3. /\ E \in ReadState /\ E.found = found /\ E.refused = FALSE
        /\ E.ids = R.ids /\ E.metas = R.metas /\ E.udta = R.udta
        /\ E.location = R.location
    BY <1>3, <2>1, <2>2 DEF ReadState
  <2> QED  BY <1>3, <2>3 DEF E, found
<1> QED  BY <1>2, <1>3

LEMMA TrefRead ==
  ASSUME NEW R \in ReadState, NEW b \in TrefBox
  PROVE  LET E == ReadBox(R, b)
         IN /\ E \in ReadState /\ (E.refused <=> R.refused)
            /\ ~E.refused => /\ E.ids = [R.ids EXCEPT ![b.owner] = Ids(b.words)]
                             /\ E.found = R.found /\ E.metas = R.metas
                             /\ E.udta = R.udta /\ E.location = R.location
<1> DEFINE ids == [R.ids EXCEPT ![b.owner] = Ids(b.words)]
           E == ReadBox(R, b)
<1>1. b.box = "tref" /\ b.owner \in Tracks /\ b.words \in Seq(Nat)
  BY DEF TrefBox
<1>2. CASE R.refused
  BY <1>2, RefusedRead
<1>3. CASE ~R.refused
  <2>1. E = [R EXCEPT !.ids = ids]
    BY <1>1, <1>3 DEF ReadBox, Ids
  <2>2. Ids(b.words) \in Seq(Nat)
    <3> DEFINE words == b.words
               upto == IF Len(words) < MaxTrackRefs + 2 THEN Len(words)
                       ELSE MaxTrackRefs + 2
    <3>1. words \in Seq(Nat) /\ Len(words) \in Nat /\ upto \in Nat
          /\ upto <= Len(words)
      BY <1>1 DEF MaxTrackRefs
    <3> HIDE DEF words, upto
    <3>2. SubSeq(words, 3, upto) \in Seq(Nat)
      BY <3>1
    <3> QED  BY <3>2 DEF Ids, words, upto
  <2>3. ids \in [Tracks -> Seq(Nat)]
    BY <1>1, <2>2, ReadFields
  <2> HIDE DEF E, ids
  <2>4. /\ E \in ReadState /\ E.found = R.found /\ E.refused = FALSE
        /\ E.ids = ids /\ E.metas = R.metas /\ E.udta = R.udta
        /\ E.location = R.location
    BY <1>3, <2>1, <2>3 DEF ReadState
  <2> QED  BY <1>3, <2>4 DEF E, ids
<1> QED  BY <1>2, <1>3

LEMMA KeysRead ==
  ASSUME NEW R \in ReadState, NEW b \in KeysBox
  PROVE  LET E == ReadBox(R, b)
         IN /\ E \in ReadState /\ (E.refused <=> R.refused)
            /\ ~E.refused => /\ E.metas = [R.metas EXCEPT ![b.owner] = b.list]
                             /\ E.found = R.found /\ E.ids = R.ids
                             /\ E.udta = R.udta /\ E.location = R.location
<1> DEFINE metas == [R.metas EXCEPT ![b.owner] = b.list]
           E == ReadBox(R, b)
<1>1. b.box = "keys" /\ b.owner \in Owner /\ b.list \in Seq(Boxed)
  BY DEF KeysBox
<1>2. CASE R.refused
  BY <1>2, RefusedRead
<1>3. CASE ~R.refused
  <2>1. E = [R EXCEPT !.metas = metas]
    BY <1>1, <1>3 DEF ReadBox
  <2>2. metas \in [Owner -> Seq(Boxed)]
    BY <1>1, ReadFields
  <2> HIDE DEF E, metas
  <2>3. /\ E \in ReadState /\ E.found = R.found /\ E.refused = FALSE
        /\ E.ids = R.ids /\ E.metas = metas /\ E.udta = R.udta
        /\ E.location = R.location
    BY <1>3, <2>1, <2>2 DEF ReadState
  <2> QED  BY <1>3, <2>3 DEF E, metas
<1> QED  BY <1>2, <1>3

(* The value of the key at a place. *)
Valued(list, at, value) ==
  IF at \in DOMAIN list THEN [list EXCEPT ![at] = [@ EXCEPT !.value = value]] ELSE list

LEMMA ValuedType ==
  ASSUME NEW list \in Seq(Boxed), NEW at, NEW value \in Values
  PROVE  /\ Valued(list, at, value) \in Seq(Boxed)
         /\ Valued(list, at, value) = [list EXCEPT ![at] = [@ EXCEPT !.value = value]]
<1>1. ASSUME at \in DOMAIN list PROVE [list[at] EXCEPT !.value = value] \in Boxed
  <2>1. list[at] \in Boxed
    BY <1>1
  <2> QED  BY <2>1 DEF Boxed
<1>2. CASE at \in DOMAIN list
  <2>1. PICK e \in Boxed : e = [list[at] EXCEPT !.value = value]
    BY <1>1, <1>2
  <2>2. Valued(list, at, value) = [list EXCEPT ![at] = e]
    BY <1>2, <2>1 DEF Valued
  <2>3. [list EXCEPT ![at] = e] \in Seq(Boxed)
    BY <1>2
  <2> QED  BY <1>2, <2>2, <2>3 DEF Valued
<1>3. CASE at \notin DOMAIN list
  <2>1. list = [list EXCEPT ![at] = [@ EXCEPT !.value = value]]
    BY <1>3
  <2> QED  BY <1>3, <2>1 DEF Valued
<1> QED  BY <1>2, <1>3

LEMMA DataRead ==
  ASSUME NEW R \in ReadState, NEW b \in DataBox
  PROVE  LET E == ReadBox(R, b)
         IN /\ E \in ReadState /\ (E.refused <=> R.refused \/ b.value = Empty)
            /\ ~E.refused =>
                 /\ E.metas = [R.metas EXCEPT ![b.owner] =
                                 Valued(R.metas[b.owner], b.at, b.value)]
                 /\ E.found = R.found /\ E.ids = R.ids
                 /\ E.udta = R.udta /\ E.location = R.location
<1> DEFINE list == Valued(R.metas[b.owner], b.at, b.value)
           metas == [R.metas EXCEPT ![b.owner] = list]
           E == ReadBox(R, b)
<1>1. b.box = "data" /\ b.owner \in Owner /\ b.value \in Values
  BY DEF DataBox
<1>2. CASE R.refused \/ b.value = Empty
  BY <1>1, <1>2, RefusedRead
<1>3. CASE ~(R.refused \/ b.value = Empty)
  <2>1. R.metas[b.owner] \in Seq(Boxed)
    BY <1>1, ReadFields
  <2>2. list \in Seq(Boxed)
        /\ list = [R.metas[b.owner] EXCEPT ![b.at] = [@ EXCEPT !.value = b.value]]
    BY <1>1, <2>1, ValuedType
  <2>3. E = [R EXCEPT !.metas[b.owner][b.at].value = b.value]
    BY <1>1, <1>3 DEF ReadBox
  <2>4. E = [R EXCEPT !.metas = metas]
    <3> HIDE DEF E, list
    <3> QED  BY <2>2, <2>3
  <2> HIDE DEF list
  <2>5. metas \in [Owner -> Seq(Boxed)]
    BY <1>1, <2>2, ReadFields
  <2> HIDE DEF E, metas
  <2>6. /\ E \in ReadState /\ E.found = R.found /\ E.refused = FALSE
        /\ E.ids = R.ids /\ E.metas = metas /\ E.udta = R.udta
        /\ E.location = R.location
    BY <1>3, <2>4, <2>5 DEF ReadState
  <2> QED  BY <1>3, <2>6 DEF E, metas, list
<1> QED  BY <1>2, <1>3

LEMMA UdtaRead ==
  ASSUME NEW R \in ReadState, NEW b \in IlstBox \cup TagBox
  PROVE  LET E == ReadBox(R, b)
         IN /\ E \in ReadState
            /\ E.refused <=> R.refused \/ (b.box = "tag" /\ b.value = Empty)
            /\ ~E.refused =>
                 /\ E.udta = IF b.box = "ilst" THEN <<>>
                             ELSE IF b.key \in Tags
                                  THEN Append(R.udta, Entry(b.key, b.value))
                                  ELSE R.udta
                 /\ E.found = R.found /\ E.ids = R.ids
                 /\ E.metas = R.metas /\ E.location = R.location
<1> DEFINE udta == IF b.box = "ilst" THEN <<>>
                   ELSE IF b.key \in Tags THEN Append(R.udta, Entry(b.key, b.value))
                        ELSE R.udta
           E == ReadBox(R, b)
<1>1. /\ b.box \in {"ilst", "tag"}
      /\ b.box = "tag" => b.key \in Keys /\ b.value \in Values
  BY DEF IlstBox, TagBox
<1>2. CASE R.refused \/ (b.box = "tag" /\ b.value = Empty)
  BY <1>1, <1>2, RefusedRead
<1>3. CASE ~(R.refused \/ (b.box = "tag" /\ b.value = Empty))
  <2>1. E = [R EXCEPT !.udta = udta]
    <3>1. CASE b.box = "ilst"
      BY <1>3, <3>1 DEF ReadBox
    <3>2. CASE b.box = "tag" /\ b.key \in Tags
      BY <1>3, <3>2 DEF ReadBox, Entry
    <3>3. CASE b.box = "tag" /\ b.key \notin Tags
      <4>1. E = R
        BY <1>3, <3>3 DEF ReadBox
      <4>2. R = [R EXCEPT !.udta = R.udta]
        BY DEF ReadState
      <4> QED  BY <3>3, <4>1, <4>2
    <3> QED  BY <1>1, <3>1, <3>2, <3>3
  <2>2. udta \in Seq(Meta)
    BY <1>1, EntryType, ReadFields
  <2> HIDE DEF E, udta
  <2>3. /\ E \in ReadState /\ E.found = R.found /\ E.refused = FALSE
        /\ E.ids = R.ids /\ E.metas = R.metas /\ E.udta = udta
        /\ E.location = R.location
    BY <1>3, <2>1, <2>2 DEF ReadState
  <2> QED  BY <1>3, <2>3 DEF E, udta
<1> QED  BY <1>2, <1>3

LEMMA XyzRead ==
  ASSUME NEW R \in ReadState, NEW b \in XyzBox
  PROVE  LET E == ReadBox(R, b)
         IN /\ E \in ReadState /\ (E.refused <=> R.refused)
            /\ ~E.refused => /\ E.location = <<Entry(b.key, b.value)>>
                             /\ E.found = R.found /\ E.ids = R.ids
                             /\ E.metas = R.metas /\ E.udta = R.udta
<1> DEFINE E == ReadBox(R, b)
           location == <<Entry(b.key, b.value)>>
<1>1. b.box = "xyz" /\ b.key \in Keys /\ b.value \in Values
  BY DEF XyzBox
<1>2. CASE R.refused
  BY <1>2, RefusedRead
<1>3. CASE ~R.refused
  <2>1. E = [R EXCEPT !.location = location]
    BY <1>1, <1>3 DEF ReadBox, Entry
  <2>2. location \in Seq(Meta)
    BY <1>1, EntryType
  <2> HIDE DEF E, location
  <2>3. /\ E \in ReadState /\ E.found = R.found /\ E.refused = FALSE
        /\ E.ids = R.ids /\ E.metas = R.metas /\ E.udta = R.udta
        /\ E.location = location
    BY <1>3, <2>1, <2>2 DEF ReadState
  <2> QED  BY <1>3, <2>3 DEF E, location
<1> QED  BY <1>2, <1>3

LEMMA CovrRead ==
  ASSUME NEW R \in ReadState, NEW b \in CovrBox
  PROVE  LET E == ReadBox(R, b)
         IN /\ E \in ReadState /\ (E.refused <=> R.refused)
            /\ ~E.refused => /\ E.location = R.location
                             /\ E.found = R.found /\ E.ids = R.ids
                             /\ E.metas = R.metas /\ E.udta = R.udta
<1> DEFINE E == ReadBox(R, b)
<1>1. b.box = "covr" /\ b.cover \in 0 .. MaxCalls
  BY DEF CovrBox
<1>2. CASE R.refused
  BY <1>2, RefusedRead
<1>3. CASE ~R.refused
  <2>1. E = [R EXCEPT !.cover = b.cover]
    BY <1>1, <1>3 DEF ReadBox
  <2> HIDE DEF E
  <2>2. /\ E \in ReadState /\ E.found = R.found /\ E.refused = FALSE
        /\ E.ids = R.ids /\ E.metas = R.metas /\ E.udta = R.udta
        /\ E.location = R.location
    BY <1>1, <1>3, <2>1 DEF ReadState
  <2> QED  BY <1>3, <2>2 DEF E
<1> QED  BY <1>2, <1>3

ReadStep == [p \in ReadState \X Box |-> ReadBox(p[1], p[2])]

LEMMA ReadStepType ==
  /\ ReadStep \in Steps(ReadState, Box)
  /\ \A R \in ReadState, b \in Box :
       ReadStep[<<R, b>>] = ReadBox(R, b) /\ ReadBox(R, b) \in ReadState
<1>1. ASSUME NEW R \in ReadState, NEW b \in Box PROVE ReadBox(R, b) \in ReadState
  BY TrakRead, TrefRead, KeysRead, DataRead, UdtaRead, XyzRead, CovrRead DEF Box
<1> QED  BY <1>1 DEF ReadStep, Steps

(* Going on from a state. *)
Read(R, boxes) == Folded(ReadState, R, ReadStep, boxes)

LEMMA ReadingFolds ==
  ASSUME NEW boxes \in Lists(Box)
  PROVE  Reading(boxes) = Read(Unread, boxes)
<1> DEFINE n == Len(boxes)
           Next1(g) == [i \in 0 .. n |-> IF i = 0 THEN Unread
                                         ELSE ReadBox(g[i - 1], boxes[i])]
           R == CHOOSE g : g = Next1(g)
<1>1. n \in Nat /\ \A i \in 1 .. n : boxes[i] \in Box
  BY DEF Lists
<1>2. Reading(boxes) = R[n]
  BY DEF Reading
<1>3. PICK f : GoesOver(f, ReadState, Unread, ReadStep, boxes)
               /\ Folded(ReadState, Unread, ReadStep, boxes) = f[n]
  BY UnreadType, ReadStepType, FoldedRuns
<1>4. ASSUME NEW i \in 1 .. n PROVE f[i] = ReadBox(f[i - 1], boxes[i])
  <2>1. i - 1 \in 0 .. n
    BY <1>1
  <2>2. f[i - 1] \in ReadState
    BY <1>3, <2>1 DEF GoesOver
  <2> QED  BY <1>1, <1>3, <2>2, ReadStepType DEF GoesOver, Goes
<1>5. f = Next1(f)
  <2>1. f \in [0 .. n -> ReadState] /\ f[0] = Unread
    BY <1>3 DEF GoesOver, Goes
  <2>2. ASSUME NEW i \in 0 .. n
        PROVE  f[i] = IF i = 0 THEN Unread ELSE ReadBox(f[i - 1], boxes[i])
    <3>1. i # 0 => i \in 1 .. n
      BY <1>1
    <3> QED  BY <1>4, <2>1, <3>1
  <2> QED  BY <2>1, <2>2
<1>6. R = Next1(R)
  <2> HIDE DEF Next1
  <2> QED  BY <1>5
<1> HIDE DEF R
<1> DEFINE P == {i \in 0 .. n : R[i] = f[i]}
<1>7. 0 \in P
  BY <1>1, <1>3, <1>6 DEF GoesOver, Goes
<1>8. ASSUME NEW i \in 1 .. n, i - 1 \in P PROVE i \in P
  <2>1. i \in 0 .. n /\ i # 0
    BY <1>1
  <2>2. R[i] = ReadBox(R[i - 1], boxes[i])
    BY <1>6, <2>1
  <2> QED  BY <1>4, <1>8, <2>1, <2>2
<1>9. \A i \in 0 .. n : i \in P
  <2> HIDE DEF P
  <2> QED  BY <1>1, <1>7, <1>8, Induction
<1>10. n \in 0 .. n
  BY <1>1
<1> QED  BY <1>2, <1>3, <1>9, <1>10 DEF Read

LEMMA ReadType ==
  ASSUME NEW R \in ReadState, NEW boxes \in Lists(Box)
  PROVE  Read(R, boxes) \in ReadState
BY FoldedType, ReadStepType DEF Read

LEMMA ReadNone ==
  ASSUME NEW R \in ReadState PROVE Read(R, <<>>) = R
BY FoldedEmpty, ReadStepType DEF Read

LEMMA ReadOne ==
  ASSUME NEW R \in ReadState, NEW b \in Box
  PROVE  Read(R, <<b>>) = ReadBox(R, b)
<1>1. Folded(ReadState, R, ReadStep, <<b>>) = ReadStep[<<R, b>>]
  BY FoldedOne, ReadStepType
<1> QED  BY <1>1, ReadStepType DEF Read

LEMMA ReadJoin ==
  ASSUME NEW R \in ReadState, NEW a \in Lists(Box), NEW b \in Lists(Box)
  PROVE  a \o b \in Lists(Box) /\ Read(R, a \o b) = Read(Read(R, a), b)
<1>1. a \o b \in Lists(Box)
  BY DEF Lists
<1> QED  BY <1>1, FoldedJoin, ReadStepType DEF Read

LEMMA ReadRuns ==
  ASSUME NEW R \in ReadState, NEW boxes \in Lists(Box)
  PROVE  \E f \in [0 .. Len(boxes) -> ReadState] :
           /\ f[0] = R /\ f[Len(boxes)] = Read(R, boxes)
           /\ \A i \in 1 .. Len(boxes) : f[i] = ReadBox(f[i - 1], boxes[i])
<1>1. PICK f : GoesOver(f, ReadState, R, ReadStep, boxes)
               /\ Folded(ReadState, R, ReadStep, boxes) = f[Len(boxes)]
  BY ReadStepType, FoldedRuns
<1>2. Len(boxes) \in Nat /\ \A i \in 1 .. Len(boxes) : boxes[i] \in Box
  BY DEF Lists
<1>3. ASSUME NEW i \in 1 .. Len(boxes) PROVE f[i] = ReadBox(f[i - 1], boxes[i])
  <2>1. i - 1 \in 0 .. Len(boxes)
    BY <1>2
  <2>2. f[i - 1] \in ReadState
    BY <1>1, <2>1 DEF GoesOver
  <2> QED  BY <1>1, <1>2, <2>2, ReadStepType DEF GoesOver, Goes
<1> QED  BY <1>1, <1>3 DEF GoesOver, Goes, Read

-----------------------------------------------------------------------------
(* What is written of a list.                                              *)

LEMMA OnlyFacts ==
  ASSUME NEW T, NEW list \in Seq(T), NEW metas
  PROVE  /\ Only(list, metas) \in Seq(T)
         /\ AsSet(Only(list, metas)) = AsSet(list) \cap metas
<1> DEFINE n == Len(list)
           seqs == [i \in DOMAIN list |->
                      IF list[i] \in metas THEN <<list[i]>> ELSE <<>>]
           R == Lists(T)
<1>1. n \in Nat /\ DOMAIN list = 1 .. n /\ \A i \in 1 .. n : list[i] \in T
  OBVIOUS
<1>2. ASSUME NEW i \in 1 .. n
      PROVE  (IF list[i] \in metas THEN <<list[i]>> ELSE <<>>) \in R
  BY <1>1 DEF Lists
<1>3. seqs \in [1 .. n -> R]
  <2> HIDE DEF R
  <2> QED  BY <1>1, <1>2
<1>4. seqs \in Lists(R) /\ Len(seqs) = n
  <2> HIDE DEF R, seqs, n
  <2>1. seqs \in Seq(R) /\ Len(seqs) = n
    BY <1>1, <1>3
  <2> QED  BY <2>1 DEF Lists
<1> DEFINE only == FlattenSeq(seqs)
<1>5. Only(list, metas) = only
  BY DEF Only
<1>6. only \in Lists(T)
  <2> HIDE DEF seqs
  <2> QED  BY <1>4, FlattenType
<1>7. /\ \A k \in 1 .. Len(only) :
           \E i \in 1 .. n : \E j \in 1 .. Len(seqs[i]) : only[k] = seqs[i][j]
      /\ \A i \in 1 .. n : \A j \in 1 .. Len(seqs[i]) :
           \E k \in 1 .. Len(only) : only[k] = seqs[i][j]
  <2>1. PICK parts : parts = seqs
    OBVIOUS
  <2>2. parts \in Lists(Lists(T)) /\ Len(parts) = n /\ only = FlattenSeq(parts)
    BY <1>4, <2>1
  <2> HIDE DEF seqs, n, only
  <2>3. /\ \A k \in 1 .. Len(FlattenSeq(parts)) :
             \E i \in 1 .. Len(parts) : \E j \in 1 .. Len(parts[i]) :
               FlattenSeq(parts)[k] = parts[i][j]
        /\ \A i \in 1 .. Len(parts) : \A j \in 1 .. Len(parts[i]) :
             \E k \in 1 .. Len(FlattenSeq(parts)) :
               FlattenSeq(parts)[k] = parts[i][j]
    BY <2>2, FlattenItems
  <2> QED  BY <2>1, <2>2, <2>3
<1> HIDE DEF only
<1>8. DOMAIN only = 1 .. Len(only)
  BY <1>6 DEF Lists
<1>9. ASSUME NEW i \in 1 .. n
      PROVE  IF list[i] \in metas THEN Len(seqs[i]) = 1 /\ seqs[i][1] = list[i]
             ELSE Len(seqs[i]) = 0
  BY <1>1
<1> HIDE DEF seqs, n
<1>10. ASSUME NEW x \in AsSet(only) PROVE x \in AsSet(list) \cap metas
  <2>1. PICK k \in 1 .. Len(only) : x = only[k]
    BY <1>8 DEF AsSet
  <2>2. PICK i \in 1 .. n : \E j \in 1 .. Len(seqs[i]) : only[k] = seqs[i][j]
    BY <1>7
  <2>3. PICK j \in 1 .. Len(seqs[i]) : only[k] = seqs[i][j]
    BY <2>2
  <2>4. list[i] \in metas
    BY <1>9, <2>3
  <2>5. j = 1
    BY <1>9, <2>3, <2>4
  <2> QED  BY <1>1, <1>9, <2>1, <2>3, <2>4, <2>5 DEF AsSet
<1>11. ASSUME NEW x \in AsSet(list) \cap metas PROVE x \in AsSet(only)
  <2>1. PICK i \in 1 .. n : x = list[i]
    BY <1>1 DEF AsSet
  <2>2. 1 \in 1 .. Len(seqs[i]) /\ seqs[i][1] = x
    BY <1>9, <2>1
  <2>3. PICK k \in 1 .. Len(only) : only[k] = x
    BY <1>7, <2>2
  <2> QED  BY <1>8, <2>3 DEF AsSet
<1> QED  BY <1>5, <1>6, <1>10, <1>11 DEF Lists

LEMMA KeptFacts ==
  ASSUME NEW list \in Seq(Meta), NEW storage
  PROVE  /\ Kept(list, storage) \in Seq(Meta)
         /\ \A meta : meta \in AsSet(Kept(list, storage))
                        <=> meta \in AsSet(list) /\ Storage(meta.key) = storage
BY OnlyFacts DEF Kept

-----------------------------------------------------------------------------
(* The boxes of a list, and what they leave alone.                         *)

Refuses(R, E, metas) ==
  /\ R.refused => E.refused
  /\ E.refused => R.refused \/ \E meta \in metas : meta.value = Empty

OnlyMetas(R, E, o) ==
  /\ E.found = R.found /\ E.ids = R.ids /\ E.udta = R.udta
  /\ E.location = R.location
  /\ \A p \in Owner : p # o => E.metas[p] = R.metas[p]

OnlyUdta(R, E) ==
  /\ E.found = R.found /\ E.ids = R.ids /\ E.metas = R.metas
  /\ E.location = R.location

OnlyLocation(R, E) ==
  /\ E.found = R.found /\ E.ids = R.ids /\ E.metas = R.metas
  /\ E.udta = R.udta

LEMMA MetaEntry ==
  ASSUME NEW meta \in Meta
  PROVE  /\ meta.key \in Keys /\ meta.value \in Values
         /\ meta = Entry(meta.key, meta.value)
         /\ meta \in Boxed /\ Entry(meta.key, NoValue) \in Boxed
         /\ [Entry(meta.key, NoValue) EXCEPT !.value = meta.value] = meta
BY DEF Meta, Entry, Boxed

(* The keys of a list, and the values of its first i. *)
Part(list, i) ==
  [j \in 1 .. Len(list) |-> IF j <= i THEN list[j] ELSE Entry(list[j].key, NoValue)]

LEMMA PartFacts ==
  ASSUME NEW list \in Seq(Meta)
  PROVE  /\ Part(list, 0) \in Seq(Boxed) /\ Part(list, Len(list)) = list
         /\ \A i \in 1 .. Len(list) :
              Valued(Part(list, i - 1), i, list[i].value) = Part(list, i)
<1> DEFINE n == Len(list)
<1>1. n \in Nat /\ DOMAIN list = 1 .. n /\ \A i \in 1 .. n : list[i] \in Meta
  BY ListType
<1> HIDE DEF n
<1>2. Part(list, 0) \in Seq(Boxed)
  <2>1. \A i \in 1 .. n : Part(list, 0)[i] \in Boxed
    BY <1>1, MetaEntry DEF Part, n
  <2>2. Part(list, 0) \in [1 .. n -> Boxed]
    BY <2>1 DEF Part, n
  <2> QED  BY <1>1, <2>2
<1>3. Part(list, n) = list
  <2>1. \A i \in 1 .. n : i <= n
    BY <1>1
  <2>2. list = [j \in 1 .. n |-> list[j]]
    BY <1>1
  <2> QED  BY <2>1, <2>2 DEF Part, n
<1>4. ASSUME NEW i \in 1 .. n
      PROVE  Valued(Part(list, i - 1), i, list[i].value) = Part(list, i)
  <2> DEFINE part == Part(list, i - 1)
  <2>1. /\ DOMAIN part = 1 .. n /\ part[i] = Entry(list[i].key, NoValue)
        /\ \A j \in 1 .. n : j # i => part[j] = Part(list, i)[j]
        /\ Part(list, i)[i] = list[i] /\ DOMAIN Part(list, i) = 1 .. n
    <3>1. /\ ~(i <= i - 1) /\ i <= i
          /\ \A j \in 1 .. n : j # i => (j <= i - 1 <=> j <= i)
      BY <1>1
    <3> QED  BY <3>1 DEF Part, n
  <2>2. [part[i] EXCEPT !.value = list[i].value] = list[i]
    BY <1>1, <2>1, MetaEntry
  <2>3. PICK e : e = [part[i] EXCEPT !.value = list[i].value]
    OBVIOUS
  <2>4. Valued(part, i, list[i].value) = [part EXCEPT ![i] = e]
    BY <2>1, <2>3 DEF Valued
  <2> HIDE DEF part
  <2>5. \A j \in 1 .. n : [part EXCEPT ![i] = e][j] = Part(list, i)[j]
    BY <2>1, <2>2, <2>3
  <2>6. Part(list, i) = [j \in 1 .. n |-> Part(list, i)[j]]
    BY DEF Part, n
  <2>7. [part EXCEPT ![i] = e] = [j \in 1 .. n |-> [part EXCEPT ![i] = e][j]]
    BY <2>1
  <2> QED  BY <2>4, <2>5, <2>6, <2>7 DEF part
<1> QED  BY <1>2, <1>3, <1>4 DEF n

DataBoxes(o, list) ==
  [i \in DOMAIN list |->
     [box |-> "data", owner |-> o, at |-> i, value |-> list[i].value]]

LEMMA DataReads ==
  ASSUME NEW R \in ReadState, NEW o \in Owner, NEW list \in Seq(Meta),
         ~R.refused => R.metas[o] = Part(list, 0)
  PROVE  LET E == Read(R, DataBoxes(o, list))
         IN /\ DataBoxes(o, list) \in Lists(Box) /\ E \in ReadState
            /\ Refuses(R, E, AsSet(list))
            /\ ~E.refused => E.metas[o] = list /\ OnlyMetas(R, E, o)
<1> DEFINE n == Len(list)
           boxes == DataBoxes(o, list)
           b(i) == [box |-> "data", owner |-> o, at |-> i, value |-> list[i].value]
           E == Read(R, boxes)
<1>1. n \in Nat /\ DOMAIN list = 1 .. n
      /\ \A i \in 1 .. n : list[i] \in Meta /\ list[i].value \in Values
  BY ListType
<1>2. ASSUME NEW i \in 1 .. n PROVE b(i) \in DataBox /\ b(i) \in Box
  <2>1. i \in Nat
    BY <1>1
  <2> QED  BY <1>1, <2>1 DEF DataBox, Box
<1>3. boxes \in Lists(Box) /\ Len(boxes) = n /\ \A i \in 1 .. n : boxes[i] = b(i)
  <2>1. boxes = [i \in 1 .. n |-> b(i)]
    BY <1>1 DEF DataBoxes
  <2> HIDE DEF b
  <2>2. boxes \in [1 .. n -> Box] /\ \A i \in 1 .. n : boxes[i] = b(i)
    BY <1>2, <2>1
  <2> HIDE DEF boxes, n
  <2>3. boxes \in Seq(Box) /\ Len(boxes) = n
    BY <1>1, <2>2
  <2> QED  BY <2>2, <2>3 DEF Lists
<1> HIDE DEF boxes
<1>4. PICK f \in [0 .. n -> ReadState] :
        /\ f[0] = R /\ f[n] = E
        /\ \A i \in 1 .. n : f[i] = ReadBox(f[i - 1], boxes[i])
  <2> HIDE DEF n
  <2> QED  BY <1>3, ReadRuns
<1> DEFINE D(i) == /\ Refuses(R, f[i], {list[j] : j \in 1 .. i})
                   /\ ~f[i].refused =>
                        f[i].metas[o] = Part(list, i) /\ OnlyMetas(R, f[i], o)
           P == {i \in 0 .. n : D(i)}
<1>5. 0 \in P
  <2>1. 0 \in 0 .. n
    BY <1>1
  <2> QED  BY <1>4, <2>1 DEF Refuses, OnlyMetas
<1>6. ASSUME NEW i \in 1 .. n, i - 1 \in P PROVE i \in P
  <2> DEFINE S == f[i - 1]
             G == f[i]
  <2>1. i \in 0 .. n /\ i - 1 \in 0 .. n /\ i \in Nat
        /\ {list[j] : j \in 1 .. i} = {list[j] : j \in 1 .. i - 1} \cup {list[i]}
    BY <1>1
  <2>2. S \in ReadState /\ D(i - 1) /\ G = ReadBox(S, boxes[i])
    BY <1>4, <1>6, <2>1
  <2>3. PICK x \in DataBox : /\ x = boxes[i] /\ x.owner = o /\ x.at = i
                             /\ x.value = list[i].value
    BY <1>2, <1>3
  <2> HIDE DEF b, D
  <2>4. /\ (G.refused <=> S.refused \/ list[i].value = Empty)
        /\ ~G.refused =>
             /\ G.metas = [S.metas EXCEPT ![o] =
                             Valued(S.metas[o], i, list[i].value)]
             /\ G.found = S.found /\ G.ids = S.ids
             /\ G.udta = S.udta /\ G.location = S.location
    <3> HIDE DEF S, G
    <3>1. G = ReadBox(S, x)
      BY <2>2, <2>3
    <3>2. /\ (ReadBox(S, x).refused <=> S.refused \/ x.value = Empty)
          /\ ~ReadBox(S, x).refused =>
               /\ ReadBox(S, x).metas = [S.metas EXCEPT ![x.owner] =
                                           Valued(S.metas[x.owner], x.at, x.value)]
               /\ ReadBox(S, x).found = S.found /\ ReadBox(S, x).ids = S.ids
               /\ ReadBox(S, x).udta = S.udta
               /\ ReadBox(S, x).location = S.location
      BY <2>2, DataRead
    <3> QED  BY <2>3, <3>1, <3>2
  <2>5. /\ Refuses(R, S, {list[j] : j \in 1 .. i - 1})
        /\ ~S.refused => S.metas[o] = Part(list, i - 1) /\ OnlyMetas(R, S, o)
    BY <2>2 DEF D
  <2>6. S.metas \in [Owner -> Seq(Boxed)]
    BY <2>2, ReadFields
  <2>7. Valued(Part(list, i - 1), i, list[i].value) = Part(list, i)
    BY PartFacts
  <2> HIDE DEF S, G
  <2>8. Refuses(R, G, {list[j] : j \in 1 .. i})
    BY <2>1, <2>4, <2>5 DEF Refuses
  <2>9. ~G.refused => G.metas[o] = Part(list, i) /\ OnlyMetas(R, G, o)
    BY <2>4, <2>5, <2>6, <2>7 DEF OnlyMetas
  <2> QED  BY <2>1, <2>8, <2>9 DEF D, G
<1>7. \A i \in 0 .. n : i \in P
  <2> HIDE DEF P
  <2> QED  BY <1>1, <1>5, <1>6, Induction
<1>8. n \in P
  <2> HIDE DEF P
  <2> QED  BY <1>1, <1>7
<1>9. D(n) /\ {list[j] : j \in 1 .. n} = AsSet(list)
  BY <1>1, <1>8 DEF AsSet
<1>10. Part(list, n) = list
  BY PartFacts
<1>11. E \in ReadState
  BY <1>3, ReadType
<1> QED  BY <1>3, <1>4, <1>9, <1>10, <1>11 DEF boxes

LEMMA MetaBoxesRead ==
  ASSUME NEW R \in ReadState, NEW o \in Owner, mux \in Muxed
  PROVE  LET E == Read(R, MetaBoxes(o))
             list == Kept(mux.metas[o], "meta")
         IN /\ MetaBoxes(o) \in Lists(Box) /\ E \in ReadState
            /\ Refuses(R, E, AsSet(list))
            /\ ~E.refused =>
                 /\ E.metas[o] = IF list = <<>> THEN R.metas[o] ELSE list
                 /\ OnlyMetas(R, E, o)
<1> DEFINE list == Kept(mux.metas[o], "meta")
           keys == [box |-> "keys", owner |-> o, list |-> Part(list, 0)]
           data == DataBoxes(o, list)
           E == Read(R, MetaBoxes(o))
<1>1. list \in Seq(Meta)
  BY MuxedType, KeptFacts
<1>2. CASE list = <<>>
  <2>1. MetaBoxes(o) = <<>>
    BY <1>2 DEF MetaBoxes
  <2>2. E = R /\ <<>> \in Lists(Box)
    BY <2>1, ReadNone DEF Lists
  <2> HIDE DEF E, list
  <2> QED  BY <1>2, <2>1, <2>2 DEF Refuses, OnlyMetas, E, list
<1>3. CASE list # <<>>
  <2>1. MetaBoxes(o) = <<keys>> \o data
    <3>1. Part(list, 0) = [i \in DOMAIN list |-> [key |-> list[i].key, value |-> NoValue]]
      <4>1. DOMAIN list = 1 .. Len(list) /\ \A i \in 1 .. Len(list) : ~(i <= 0)
        BY <1>1, ListType
      <4> HIDE DEF list
      <4> QED  BY <4>1 DEF Part, Entry
    <3> QED  BY <1>3, <3>1 DEF MetaBoxes, DataBoxes
  <2> HIDE DEF list
  <2>2. keys \in KeysBox /\ keys.owner = o /\ keys.list = Part(list, 0)
    BY <1>1, PartFacts DEF KeysBox
  <2>3. keys \in Box /\ <<keys>> \in Lists(Box)
    <3> HIDE DEF keys
    <3> QED  BY <2>2 DEF Box, Lists
  <2> DEFINE D == Read(R, <<keys>>)
  <2> HIDE DEF keys
  <2>4. D = ReadBox(R, keys)
    BY <2>3, ReadOne
  <2>5. /\ D \in ReadState /\ (D.refused <=> R.refused)
        /\ ~D.refused => /\ D.metas = [R.metas EXCEPT ![o] = Part(list, 0)]
                         /\ D.found = R.found /\ D.ids = R.ids
                         /\ D.udta = R.udta /\ D.location = R.location
    BY <2>2, <2>4, KeysRead
  <2> HIDE DEF D
  <2>6. ~D.refused => D.metas[o] = Part(list, 0) /\ OnlyMetas(R, D, o)
    BY <2>5, ReadFields DEF OnlyMetas
  <2> DEFINE F == Read(D, data)
  <2>7. /\ data \in Lists(Box) /\ F \in ReadState /\ Refuses(D, F, AsSet(list))
        /\ ~F.refused => F.metas[o] = list /\ OnlyMetas(D, F, o)
    BY <1>1, <2>5, <2>6, DataReads
  <2> HIDE DEF data
  <2>8. MetaBoxes(o) \in Lists(Box) /\ E = F
    BY <2>1, <2>3, <2>7, ReadJoin DEF D
  <2> HIDE DEF F, E
  <2>9. Refuses(R, E, AsSet(list))
    BY <2>5, <2>7, <2>8 DEF Refuses
  <2>10. ~E.refused => E.metas[o] = list /\ OnlyMetas(R, E, o)
    <3>1. ~E.refused => ~D.refused
      BY <2>7, <2>8 DEF Refuses
    <3> QED  BY <2>6, <2>7, <2>8, <3>1 DEF OnlyMetas
  <2> QED  BY <1>3, <2>7, <2>8, <2>9, <2>10 DEF E, list
<1> QED  BY <1>2, <1>3

LEMMA SetAppend ==
  ASSUME NEW list \in Seq(Meta), NEW meta \in Meta
  PROVE  AsSet(Append(list, meta)) = AsSet(list) \cup {meta}
<1> DEFINE more == Append(list, meta)
           n == Len(list)
<1>1. /\ n \in Nat /\ DOMAIN list = 1 .. n /\ DOMAIN more = 1 .. n + 1
      /\ more[n + 1] = meta /\ \A i \in 1 .. n : more[i] = list[i]
  OBVIOUS
<1>2. \A i : i \in 1 .. n + 1 <=> i \in 1 .. n \/ i = n + 1
  BY <1>1
<1> HIDE DEF more, n
<1> QED  BY <1>1, <1>2 DEF AsSet, more

TagBoxes(list) ==
  [i \in DOMAIN list |->
     [box |-> "tag", key |-> list[i].key, value |-> list[i].value]]

Known(metas) == {meta \in metas : meta.key \in Tags}

LEMMA TagsRead ==
  ASSUME NEW R \in ReadState, NEW list \in Seq(Meta), ~R.refused => R.udta = <<>>
  PROVE  LET E == Read(R, TagBoxes(list))
         IN /\ TagBoxes(list) \in Lists(Box) /\ E \in ReadState
            /\ Refuses(R, E, AsSet(list))
            /\ ~E.refused => /\ AsSet(E.udta) = Known(AsSet(list))
                             /\ OnlyUdta(R, E)
<1> DEFINE n == Len(list)
           boxes == TagBoxes(list)
           b(i) == [box |-> "tag", key |-> list[i].key, value |-> list[i].value]
           E == Read(R, boxes)
           first(i) == {list[j] : j \in 1 .. i}
<1>1. n \in Nat /\ DOMAIN list = 1 .. n
      /\ \A i \in 1 .. n :
           list[i] \in Meta /\ list[i].value \in Values /\ list[i].key \in Keys
  BY ListType
<1>2. ASSUME NEW i \in 1 .. n PROVE b(i) \in TagBox /\ b(i) \in Box
  BY <1>1 DEF TagBox, Box
<1>3. boxes \in Lists(Box) /\ Len(boxes) = n /\ \A i \in 1 .. n : boxes[i] = b(i)
  <2>1. boxes = [i \in 1 .. n |-> b(i)]
    BY <1>1 DEF TagBoxes
  <2> HIDE DEF b
  <2>2. boxes \in [1 .. n -> Box] /\ \A i \in 1 .. n : boxes[i] = b(i)
    BY <1>2, <2>1
  <2> HIDE DEF boxes, n
  <2>3. boxes \in Seq(Box) /\ Len(boxes) = n
    BY <1>1, <2>2
  <2> QED  BY <2>2, <2>3 DEF Lists
<1> HIDE DEF boxes
<1>4. PICK f \in [0 .. n -> ReadState] :
        /\ f[0] = R /\ f[n] = E
        /\ \A i \in 1 .. n : f[i] = ReadBox(f[i - 1], boxes[i])
  <2> HIDE DEF n
  <2> QED  BY <1>3, ReadRuns
<1> DEFINE D(i) == /\ Refuses(R, f[i], first(i))
                   /\ ~f[i].refused =>
                        AsSet(f[i].udta) = Known(first(i)) /\ OnlyUdta(R, f[i])
           P == {i \in 0 .. n : D(i)}
<1>5. 0 \in P
  <2>1. 0 \in 0 .. n /\ first(0) = {}
    BY <1>1
  <2>2. AsSet(<<>>) = {} /\ Known({}) = {}
    BY NothingHas DEF Known
  <2> HIDE DEF first
  <2> QED  BY <1>4, <2>1, <2>2 DEF Refuses, OnlyUdta
<1>6. ASSUME NEW i \in 1 .. n, i - 1 \in P PROVE i \in P
  <2> DEFINE S == f[i - 1]
             G == f[i]
  <2>1. /\ i \in 0 .. n /\ i - 1 \in 0 .. n /\ i \in Nat
        /\ first(i) = first(i - 1) \cup {list[i]}
    BY <1>1
  <2>2. S \in ReadState /\ D(i - 1) /\ G = ReadBox(S, boxes[i])
    BY <1>4, <1>6, <2>1
  <2>3. PICK x \in TagBox : /\ x = boxes[i] /\ x.box = "tag"
                            /\ x.key = list[i].key /\ x.value = list[i].value
    BY <1>2, <1>3
  <2> HIDE DEF b, D, first
  <2>4. /\ (G.refused <=> S.refused \/ list[i].value = Empty)
        /\ ~G.refused =>
             /\ G.udta = IF list[i].key \in Tags
                         THEN Append(S.udta, Entry(list[i].key, list[i].value))
                         ELSE S.udta
             /\ G.found = S.found /\ G.ids = S.ids
             /\ G.metas = S.metas /\ G.location = S.location
    <3> HIDE DEF S, G
    <3>1. G = ReadBox(S, x)
      BY <2>2, <2>3
    <3>2. /\ ReadBox(S, x).refused <=> S.refused \/ (x.box = "tag" /\ x.value = Empty)
          /\ ~ReadBox(S, x).refused =>
               /\ ReadBox(S, x).udta =
                    IF x.box = "ilst" THEN <<>>
                    ELSE IF x.key \in Tags
                         THEN Append(S.udta, Entry(x.key, x.value))
                         ELSE S.udta
               /\ ReadBox(S, x).found = S.found /\ ReadBox(S, x).ids = S.ids
               /\ ReadBox(S, x).metas = S.metas
               /\ ReadBox(S, x).location = S.location
      BY <2>2, UdtaRead
    <3> QED  BY <2>3, <3>1, <3>2
  <2>5. /\ Refuses(R, S, first(i - 1))
        /\ ~S.refused => AsSet(S.udta) = Known(first(i - 1)) /\ OnlyUdta(R, S)
    BY <2>2 DEF D
  <2>6. S.udta \in Seq(Meta) /\ list[i] \in Meta
        /\ Entry(list[i].key, list[i].value) = list[i]
    BY <1>1, <2>2, ReadFields, MetaEntry
  <2> HIDE DEF S, G
  <2>7. Refuses(R, G, first(i))
    BY <2>1, <2>4, <2>5 DEF Refuses
  <2>8. AsSet(Append(S.udta, list[i])) = AsSet(S.udta) \cup {list[i]}
    BY <2>6, SetAppend
  <2>9. ~G.refused => AsSet(G.udta) = Known(first(i)) /\ OnlyUdta(R, G)
    BY <2>1, <2>4, <2>5, <2>6, <2>8 DEF OnlyUdta, Known
  <2> QED  BY <2>1, <2>7, <2>9 DEF D, G
<1>7. \A i \in 0 .. n : i \in P
  <2> HIDE DEF P
  <2> QED  BY <1>1, <1>5, <1>6, Induction
<1>8. n \in P
  <2> HIDE DEF P
  <2> QED  BY <1>1, <1>7
<1>9. D(n) /\ first(n) = AsSet(list)
  BY <1>1, <1>8 DEF AsSet
<1>10. E \in ReadState
  BY <1>3, ReadType
<1> HIDE DEF first
<1> QED  BY <1>3, <1>4, <1>9, <1>10 DEF boxes

(* The cover, or none. *)
LEMMA CoverRead ==
  ASSUME NEW R \in ReadState, mux \in Muxed, NEW boxes,
         boxes = <<>> \/ boxes = <<[box |-> "covr", cover |-> mux.cover]>>
  PROVE  /\ boxes \in Lists(Box) /\ Read(R, boxes) \in ReadState
         /\ (Read(R, boxes).refused <=> R.refused)
         /\ ~Read(R, boxes).refused =>
              OnlyUdta(R, Read(R, boxes)) /\ Read(R, boxes).udta = R.udta
<1>1. CASE boxes = <<>>
  BY <1>1, ReadNone DEF Lists, OnlyUdta
<1>2. CASE boxes # <<>>
  <2>1. PICK b : b = [box |-> "covr", cover |-> mux.cover]
    OBVIOUS
  <2>2. b \in CovrBox /\ b.box = "covr" /\ boxes = <<b>>
    BY <1>2, <2>1, MuxedType DEF CovrBox
  <2>3. b \in Box /\ <<b>> \in Lists(Box)
    BY <2>2 DEF Box, Lists
  <2>4. Read(R, boxes) = ReadBox(R, b)
    BY <2>2, <2>3, ReadOne
  <2>5. /\ ReadBox(R, b) \in ReadState /\ (ReadBox(R, b).refused <=> R.refused)
        /\ ~ReadBox(R, b).refused =>
             /\ ReadBox(R, b).found = R.found /\ ReadBox(R, b).ids = R.ids
             /\ ReadBox(R, b).metas = R.metas /\ ReadBox(R, b).udta = R.udta
             /\ ReadBox(R, b).location = R.location
    BY <2>2, CovrRead
  <2> QED  BY <2>2, <2>3, <2>4, <2>5 DEF OnlyUdta
<1> QED  BY <1>1, <1>2

LEMMA UdtaBoxesRead ==
  ASSUME NEW R \in ReadState, NEW o \in Owner, mux \in Muxed
  PROVE  LET E == Read(R, UdtaBoxes(o))
             list == Kept(mux.metas[o], "udta")
         IN /\ UdtaBoxes(o) \in Lists(Box) /\ E \in ReadState
            /\ Refuses(R, E, AsSet(list))
            /\ ~E.refused =>
                 /\ OnlyUdta(R, E)
                 /\ IF list = <<>> THEN E.udta = R.udta
                    ELSE AsSet(E.udta) = Known(AsSet(list))
<1> DEFINE list == Kept(mux.metas[o], "udta")
           tags == TagBoxes(list)
           cover == IF o = File /\ mux.cover # 0
                    THEN <<[box |-> "covr", cover |-> mux.cover]>> ELSE <<>>
           E == Read(R, UdtaBoxes(o))
<1>1. list \in Seq(Meta)
  BY MuxedType, KeptFacts
<1>2. CASE list = <<>>
  <2>1. UdtaBoxes(o) = <<>>
    BY <1>2 DEF UdtaBoxes
  <2>2. E = R /\ <<>> \in Lists(Box)
    BY <2>1, ReadNone DEF Lists
  <2> HIDE DEF E, list
  <2> QED  BY <1>2, <2>1, <2>2 DEF Refuses, OnlyUdta, E, list
<1>3. CASE list # <<>>
  <2>1. PICK ilst : ilst = [box |-> "ilst"]
    OBVIOUS
  <2>2. UdtaBoxes(o) = (<<ilst>> \o tags) \o cover
    BY <1>3, <2>1 DEF UdtaBoxes, TagBoxes
  <2>3. ilst \in IlstBox /\ ilst \in Box /\ ilst.box = "ilst"
    BY <2>1 DEF IlstBox, Box
  <2>4. <<ilst>> \in Lists(Box)
    BY <2>3 DEF Lists
  <2> HIDE DEF list
  <2> DEFINE D == Read(R, <<ilst>>)
  <2>5. D = ReadBox(R, ilst)
    BY <2>3, ReadOne
  <2>6. /\ D \in ReadState /\ (D.refused <=> R.refused)
        /\ ~D.refused => OnlyUdta(R, D) /\ D.udta = <<>>
    <3> HIDE DEF D
    <3> QED  BY <2>3, <2>5, UdtaRead DEF OnlyUdta
  <2> HIDE DEF D
  <2> DEFINE F == Read(D, tags)
  <2>7. /\ tags \in Lists(Box) /\ F \in ReadState /\ Refuses(D, F, AsSet(list))
        /\ ~F.refused => AsSet(F.udta) = Known(AsSet(list)) /\ OnlyUdta(D, F)
    BY <1>1, <2>6, TagsRead
  <2>8. cover = <<>> \/ cover = <<[box |-> "covr", cover |-> mux.cover]>>
    OBVIOUS
  <2> HIDE DEF tags, cover
  <2>9. <<ilst>> \o tags \in Lists(Box) /\ Read(R, <<ilst>> \o tags) = F
    BY <2>4, <2>7, ReadJoin DEF D
  <2> HIDE DEF F
  <2> DEFINE G == Read(F, cover)
  <2>10. /\ cover \in Lists(Box) /\ G \in ReadState /\ (G.refused <=> F.refused)
         /\ ~G.refused => OnlyUdta(F, G) /\ G.udta = F.udta
    BY <2>7, <2>8, CoverRead
  <2> DEFINE begin == <<ilst>> \o tags
  <2>11. begin \o cover \in Lists(Box) /\ Read(R, begin \o cover) = Read(Read(R, begin), cover)
    <3> HIDE DEF begin
    <3>1. begin \in Lists(Box)
      BY <2>9 DEF begin
    <3> QED  BY <2>10, <3>1, ReadJoin
  <2>12. UdtaBoxes(o) \in Lists(Box) /\ E = G
    BY <2>2, <2>9, <2>11
  <2> HIDE DEF E, G
  <2>13. Refuses(R, E, AsSet(list))
    BY <2>6, <2>7, <2>10, <2>12 DEF Refuses
  <2>14. ~E.refused => OnlyUdta(R, E) /\ AsSet(E.udta) = Known(AsSet(list))
    <3>1. ~E.refused => ~F.refused /\ ~D.refused
      BY <2>7, <2>10, <2>12 DEF Refuses
    <3> QED  BY <2>6, <2>7, <2>10, <2>12, <3>1 DEF OnlyUdta
  <2> QED  BY <1>3, <2>10, <2>12, <2>13, <2>14 DEF E, list
<1> QED  BY <1>2, <1>3

LEMMA RootBoxesRead ==
  ASSUME NEW R \in ReadState, NEW o \in Owner, mux \in Muxed
  PROVE  LET E == Read(R, RootBoxes(o))
             list == Kept(mux.metas[o], "root")
         IN /\ RootBoxes(o) \in Lists(Box) /\ E \in ReadState
            /\ (E.refused <=> R.refused)
            /\ ~E.refused =>
                 /\ OnlyLocation(R, E)
                 /\ E.location = IF list = <<>> THEN R.location
                                 ELSE <<list[Len(list)]>>
<1> DEFINE list == Kept(mux.metas[o], "root")
           n == Len(list)
           boxes == RootBoxes(o)
           b(i) == [box |-> "xyz", key |-> list[i].key, value |-> list[i].value]
           E == Read(R, boxes)
<1>1. list \in Seq(Meta)
  BY MuxedType, KeptFacts
<1>2. boxes = [i \in DOMAIN list |-> b(i)]
  BY DEF RootBoxes
<1> HIDE DEF boxes, list
<1>3. n \in Nat /\ DOMAIN list = 1 .. n
      /\ \A i \in 1 .. n :
           list[i] \in Meta /\ list[i].value \in Values /\ list[i].key \in Keys
  BY <1>1, ListType
<1>4. ASSUME NEW i \in 1 .. n PROVE b(i) \in XyzBox /\ b(i) \in Box
  BY <1>3 DEF XyzBox, Box
<1>5. boxes \in Lists(Box) /\ Len(boxes) = n /\ \A i \in 1 .. n : boxes[i] = b(i)
  <2>1. boxes = [i \in 1 .. n |-> b(i)]
    BY <1>2, <1>3
  <2> HIDE DEF b
  <2>2. boxes \in [1 .. n -> Box] /\ \A i \in 1 .. n : boxes[i] = b(i)
    BY <1>4, <2>1
  <2> HIDE DEF n
  <2>3. boxes \in Seq(Box) /\ Len(boxes) = n
    BY <1>3, <2>2
  <2> QED  BY <2>2, <2>3 DEF Lists
<1>6. PICK f \in [0 .. n -> ReadState] :
        /\ f[0] = R /\ f[n] = E
        /\ \A i \in 1 .. n : f[i] = ReadBox(f[i - 1], boxes[i])
  <2> HIDE DEF n
  <2> QED  BY <1>5, ReadRuns
<1> DEFINE D(i) == /\ (f[i].refused <=> R.refused)
                   /\ ~f[i].refused =>
                        /\ OnlyLocation(R, f[i])
                        /\ f[i].location = IF i = 0 THEN R.location ELSE <<list[i]>>
           P == {i \in 0 .. n : D(i)}
<1>7. 0 \in P
  <2>1. 0 \in 0 .. n
    BY <1>3
  <2> QED  BY <1>6, <2>1 DEF OnlyLocation
<1>8. ASSUME NEW i \in 1 .. n, i - 1 \in P PROVE i \in P
  <2> DEFINE S == f[i - 1]
             G == f[i]
  <2>1. i \in 0 .. n /\ i - 1 \in 0 .. n /\ i # 0
    BY <1>3
  <2>2. S \in ReadState /\ D(i - 1) /\ G = ReadBox(S, boxes[i])
    BY <1>6, <1>8, <2>1
  <2>3. PICK x \in XyzBox : /\ x = boxes[i] /\ x.key = list[i].key
                            /\ x.value = list[i].value
    BY <1>4, <1>5
  <2> HIDE DEF b, D
  <2>4. /\ (G.refused <=> S.refused)
        /\ ~G.refused =>
             /\ G.location = <<Entry(list[i].key, list[i].value)>>
             /\ G.found = S.found /\ G.ids = S.ids
             /\ G.metas = S.metas /\ G.udta = S.udta
    <3> HIDE DEF S, G
    <3>1. G = ReadBox(S, x)
      BY <2>2, <2>3
    <3>2. /\ ReadBox(S, x).refused <=> S.refused
          /\ ~ReadBox(S, x).refused =>
               /\ ReadBox(S, x).location = <<Entry(x.key, x.value)>>
               /\ ReadBox(S, x).found = S.found /\ ReadBox(S, x).ids = S.ids
               /\ ReadBox(S, x).metas = S.metas
               /\ ReadBox(S, x).udta = S.udta
      BY <2>2, XyzRead
    <3> QED  BY <2>3, <3>1, <3>2
  <2>5. (S.refused <=> R.refused) /\ (~S.refused => OnlyLocation(R, S))
    BY <2>2 DEF D
  <2>6. Entry(list[i].key, list[i].value) = list[i]
    BY <1>3, MetaEntry
  <2> HIDE DEF S, G
  <2>7. /\ (G.refused <=> R.refused)
        /\ ~G.refused => OnlyLocation(R, G) /\ G.location = <<list[i]>>
    BY <2>4, <2>5, <2>6 DEF OnlyLocation
  <2> QED  BY <2>1, <2>7 DEF D, G
<1>9. \A i \in 0 .. n : i \in P
  <2> HIDE DEF P
  <2> QED  BY <1>3, <1>7, <1>8, Induction
<1>10. n \in P
  <2> HIDE DEF P
  <2> QED  BY <1>3, <1>9
<1>11. D(n) /\ (n = 0 <=> list = <<>>)
  BY <1>1, <1>10
<1>12. E \in ReadState
  BY <1>5, ReadType
<1> HIDE DEF E
<1>13. /\ (E.refused <=> R.refused)
       /\ ~E.refused => OnlyLocation(R, E)
                        /\ E.location = IF list = <<>> THEN R.location ELSE <<list[n]>>
  BY <1>6, <1>11
<1> QED  BY <1>5, <1>12, <1>13 DEF E, boxes, list

(* All there is of an owner. *)
Stored(o, storage) == AsSet(Kept(mux.metas[o], storage))

InfoRead(R, E, o) ==
  /\ Refuses(R, E, Stored(o, "meta") \cup Stored(o, "udta"))
  /\ ~E.refused =>
       /\ E.found = R.found /\ E.ids = R.ids
       /\ \A p \in Owner : p # o => E.metas[p] = R.metas[p]
       /\ E.metas[o] = IF Kept(mux.metas[o], "meta") = <<>> THEN R.metas[o]
                       ELSE Kept(mux.metas[o], "meta")
       /\ IF Kept(mux.metas[o], "udta") = <<>> THEN E.udta = R.udta
          ELSE AsSet(E.udta) = Known(Stored(o, "udta"))
       /\ IF Kept(mux.metas[o], "root") = <<>> THEN E.location = R.location
          ELSE \E meta \in Stored(o, "root") : E.location = <<meta>>

LEMMA InfoBoxesRead ==
  ASSUME NEW R \in ReadState, NEW o \in Owner, mux \in Muxed
  PROVE  /\ InfoBoxes(o) \in Lists(Box) /\ Read(R, InfoBoxes(o)) \in ReadState
         /\ InfoRead(R, Read(R, InfoBoxes(o)), o)
<1> DEFINE meta == Kept(mux.metas[o], "meta")
           udta == Kept(mux.metas[o], "udta")
           root == Kept(mux.metas[o], "root")
           D == Read(R, MetaBoxes(o))
           F == Read(D, UdtaBoxes(o))
           E == Read(F, RootBoxes(o))
<1>1. /\ MetaBoxes(o) \in Lists(Box) /\ D \in ReadState
      /\ Refuses(R, D, AsSet(meta))
      /\ ~D.refused => /\ D.metas[o] = IF meta = <<>> THEN R.metas[o] ELSE meta
                       /\ OnlyMetas(R, D, o)
  BY MetaBoxesRead
<1> HIDE DEF D
<1>2. /\ UdtaBoxes(o) \in Lists(Box) /\ F \in ReadState
      /\ Refuses(D, F, AsSet(udta))
      /\ ~F.refused => /\ OnlyUdta(D, F)
                       /\ IF udta = <<>> THEN F.udta = D.udta
                          ELSE AsSet(F.udta) = Known(AsSet(udta))
  BY <1>1, UdtaBoxesRead
<1> HIDE DEF F
<1>3. /\ RootBoxes(o) \in Lists(Box) /\ E \in ReadState
      /\ (E.refused <=> F.refused)
      /\ ~E.refused => /\ OnlyLocation(F, E)
                       /\ E.location = IF root = <<>> THEN F.location
                                       ELSE <<root[Len(root)]>>
  BY <1>2, RootBoxesRead
<1> HIDE DEF E
<1>4. root # <<>> => root[Len(root)] \in AsSet(root)
  <2>1. root \in Seq(Meta)
    BY MuxedType, KeptFacts
  <2> HIDE DEF root
  <2>2. root # <<>> => Len(root) \in DOMAIN root
    BY <2>1
  <2> QED  BY <2>2 DEF AsSet
<1> DEFINE a == MetaBoxes(o)
           b == UdtaBoxes(o)
           c == RootBoxes(o)
<1>5. (a \o b) \o c \in Lists(Box) /\ Read(R, (a \o b) \o c) = E
  <2>1. a \in Lists(Box) /\ b \in Lists(Box) /\ c \in Lists(Box)
    BY <1>1, <1>2, <1>3
  <2> HIDE DEF a, b, c
  <2> DEFINE ab == a \o b
  <2>2. ab \in Lists(Box) /\ Read(R, ab) = Read(Read(R, a), b)
    BY <2>1, ReadJoin
  <2> HIDE DEF ab
  <2>3. ab \o c \in Lists(Box) /\ Read(R, ab \o c) = Read(Read(R, ab), c)
    BY <2>1, <2>2, ReadJoin
  <2> QED  BY <2>2, <2>3 DEF D, E, F, a, b, c, ab
<1>6. InfoBoxes(o) \in Lists(Box) /\ Read(R, InfoBoxes(o)) = E
  BY <1>5 DEF InfoBoxes
<1> HIDE DEF meta, udta, root
<1>7. Refuses(R, E, AsSet(meta) \cup AsSet(udta))
  BY <1>1, <1>2, <1>3 DEF Refuses
<1>8. ~E.refused => ~F.refused /\ ~D.refused
  BY <1>2, <1>3 DEF Refuses
<1>9. ~E.refused =>
        /\ E.found = R.found /\ E.ids = R.ids
        /\ \A p \in Owner : p # o => E.metas[p] = R.metas[p]
        /\ E.metas[o] = IF meta = <<>> THEN R.metas[o] ELSE meta
  BY <1>1, <1>2, <1>3, <1>8 DEF OnlyMetas, OnlyUdta, OnlyLocation
<1>10. ~E.refused => IF udta = <<>> THEN E.udta = R.udta
                     ELSE AsSet(E.udta) = Known(AsSet(udta))
  BY <1>1, <1>2, <1>3, <1>8 DEF OnlyMetas, OnlyLocation
<1>11. ~E.refused => IF root = <<>> THEN E.location = R.location
                     ELSE \E m \in AsSet(root) : E.location = <<m>>
  BY <1>1, <1>2, <1>3, <1>4, <1>8 DEF OnlyMetas, OnlyUdta
<1>12. InfoRead(R, E, o)
  BY <1>7, <1>9, <1>10, <1>11 DEF InfoRead, Stored, meta, udta, root
<1> QED  BY <1>3, <1>6, <1>12

(* The references of a track. *)
LEMMA WordsType ==
  ASSUME NEW t \in Tracks, mux \in Muxed
  PROVE  LET n == Len(mux.refs[t])
         IN /\ n \in Nat /\ TrefWords(t) \in Seq(Nat)
            /\ Len(TrefWords(t)) = n * (n + 2)
            /\ \A i \in 1 .. n * (n + 2) :
                 LET at == (i - 1) % (n + 2)
                 IN /\ at \in 0 .. n + 1
                    /\ TrefWords(t)[i] = IF at = 0 THEN 8 + 4 * n
                                         ELSE IF at = 1 THEN 0
                                         ELSE mux.refs[t][at - 1]
<1> DEFINE n == Len(mux.refs[t])
           at(i) == (i - 1) % (n + 2)
           word(i) == IF at(i) = 0 THEN 8 + 4 * n
                      ELSE IF at(i) = 1 THEN 0 ELSE mux.refs[t][at(i) - 1]
<1>1. mux.refs[t] \in Seq({0} \cup Tracks)
  BY MuxedType
<1>2. n \in Nat /\ \A j \in 1 .. n : mux.refs[t][j] \in Nat
  BY <1>1, OwnerType
<1>3. TrefWords(t) = [i \in 1 .. n * (n + 2) |-> word(i)]
  BY DEF TrefWords
<1> HIDE DEF n
<1>4. n * (n + 2) \in Nat
  BY <1>2
<1>5. ASSUME NEW i \in 1 .. n * (n + 2) PROVE at(i) \in 0 .. n + 1
  BY <1>2, <1>4
<1>6. ASSUME NEW i \in 1 .. n * (n + 2) PROVE word(i) \in Nat
  <2> HIDE DEF at
  <2>1. at(i) # 0 /\ at(i) # 1 => at(i) - 1 \in 1 .. n
    BY <1>2, <1>5
  <2> QED  BY <1>2, <2>1
<1>7. /\ TrefWords(t) \in Seq(Nat) /\ Len(TrefWords(t)) = n * (n + 2)
      /\ \A i \in 1 .. n * (n + 2) : TrefWords(t)[i] = word(i)
  <2> DEFINE m == n * (n + 2)
  <2> HIDE DEF word, m
  <2>1. m \in Nat /\ \A i \in 1 .. m : word(i) \in Nat
    BY <1>4, <1>6 DEF m
  <2>2. TrefWords(t) = [i \in 1 .. m |-> word(i)]
    BY <1>3 DEF m
  <2>3. /\ TrefWords(t) \in [1 .. m -> Nat]
        /\ \A i \in 1 .. m : TrefWords(t)[i] = word(i)
    BY <2>1, <2>2
  <2>4. TrefWords(t) \in Seq(Nat) /\ Len(TrefWords(t)) = m
    BY <2>1, <2>3
  <2> QED  BY <2>3, <2>4 DEF m
<1> QED  BY <1>2, <1>5, <1>7 DEF n

TrackRead(R, E, t) ==
  /\ Refuses(R, E, Stored(t, "meta") \cup Stored(t, "udta"))
  /\ ~E.refused =>
       /\ E.found = R.found \cup {t}
       /\ \A u \in Tracks : u # t => E.ids[u] = R.ids[u]
       /\ E.ids[t] = IF mux.refs[t] = <<>> THEN R.ids[t] ELSE Ids(TrefWords(t))
       /\ \A p \in Owner : p # t => E.metas[p] = R.metas[p]
       /\ E.metas[t] = IF Kept(mux.metas[t], "meta") = <<>> THEN R.metas[t]
                       ELSE Kept(mux.metas[t], "meta")
       /\ AsSet(E.udta) \subseteq AsSet(R.udta) \cup Stored(t, "udta")
       /\ AsSet(E.location) \subseteq AsSet(R.location) \cup Stored(t, "root")

LEMMA TrackBoxesRead ==
  ASSUME NEW R \in ReadState, NEW t \in Tracks, mux \in Muxed
  PROVE  /\ TrackBoxes(t) \in Lists(Box) /\ Read(R, TrackBoxes(t)) \in ReadState
         /\ TrackRead(R, Read(R, TrackBoxes(t)), t)
<1>1. t \in Owner /\ mux.refs[t] \in Seq({0} \cup Tracks)
  BY OwnerType, MuxedType
<1>2. PICK trak : trak = [box |-> "trak", owner |-> t, type |-> Types[t]]
  OBVIOUS
<1>3. PICK tref : tref = IF mux.refs[t] = <<>> THEN <<>>
                         ELSE <<[box |-> "tref", owner |-> t, words |-> TrefWords(t)]>>
  OBVIOUS
<1>4. trak \in TrakBox /\ trak \in Box /\ trak.owner = t
  <2>1. Types[t] \in {"video", "audio", "metadata", "chapters"}
    BY OwnerType, MetadataAssumption DEF MetadataAssumption
  <2>2. trak \in TrakBox /\ trak.owner = t
    BY <1>2, <2>1 DEF TrakBox
  <2> QED  BY <2>2 DEF Box
<1> DEFINE D == Read(R, <<trak>>)
           F == Read(D, tref)
           E == Read(F, InfoBoxes(t))
<1>5. D = ReadBox(R, trak) /\ <<trak>> \in Lists(Box)
  <2>1. <<trak>> \in Lists(Box)
    BY <1>4 DEF Lists
  <2> QED  BY <1>4, <2>1, ReadOne
<1> HIDE DEF D
<1>6. /\ D \in ReadState /\ (D.refused <=> R.refused)
      /\ ~D.refused => /\ D.found = R.found \cup {t} /\ D.ids = R.ids
                       /\ D.metas = R.metas /\ D.udta = R.udta
                       /\ D.location = R.location
  BY <1>4, <1>5, TrakRead
<1>7. /\ tref \in Lists(Box) /\ F \in ReadState /\ (F.refused <=> D.refused)
      /\ ~F.refused =>
           /\ F.found = D.found /\ F.metas = D.metas /\ F.udta = D.udta
           /\ F.location = D.location
           /\ \A u \in Tracks : u # t => F.ids[u] = D.ids[u]
           /\ F.ids[t] = IF mux.refs[t] = <<>> THEN D.ids[t] ELSE Ids(TrefWords(t))
  <2>1. CASE mux.refs[t] = <<>>
    <3>1. tref = <<>> /\ <<>> \in Lists(Box)
      BY <1>3, <2>1 DEF Lists
    <3>2. F = D
      BY <1>6, <3>1, ReadNone
    <3> HIDE DEF F
    <3> QED  BY <1>6, <2>1, <3>1, <3>2
  <2>2. CASE mux.refs[t] # <<>>
    <3>1. PICK b : b = [box |-> "tref", owner |-> t, words |-> TrefWords(t)]
      OBVIOUS
    <3>2. b \in TrefBox /\ b.owner = t /\ b.words = TrefWords(t) /\ tref = <<b>>
      BY <1>3, <2>2, <3>1, WordsType DEF TrefBox
    <3>3. b \in Box /\ <<b>> \in Lists(Box)
      BY <3>2 DEF Box, Lists
    <3>4. F = ReadBox(D, b)
      BY <1>6, <3>2, <3>3, ReadOne
    <3> HIDE DEF F
    <3>5. /\ F \in ReadState /\ (F.refused <=> D.refused)
          /\ ~F.refused => /\ F.ids = [D.ids EXCEPT ![b.owner] = Ids(b.words)]
                           /\ F.found = D.found /\ F.metas = D.metas
                           /\ F.udta = D.udta /\ F.location = D.location
      BY <1>6, <3>2, <3>4, TrefRead
    <3>6. D.ids \in [Tracks -> Seq(Nat)]
      BY <1>6, ReadFields
    <3> QED  BY <2>2, <3>2, <3>3, <3>5, <3>6
  <2> QED  BY <2>1, <2>2
<1> HIDE DEF F
<1>8. /\ InfoBoxes(t) \in Lists(Box) /\ E \in ReadState /\ InfoRead(F, E, t)
  BY <1>1, <1>7, InfoBoxesRead
<1> DEFINE c == InfoBoxes(t)
           a == <<trak>>
<1>9. (a \o tref) \o c \in Lists(Box) /\ Read(R, (a \o tref) \o c) = E
  <2>1. a \in Lists(Box) /\ tref \in Lists(Box) /\ c \in Lists(Box)
    BY <1>5, <1>7, <1>8
  <2> HIDE DEF a, c
  <2> DEFINE ab == a \o tref
  <2>2. ab \in Lists(Box) /\ Read(R, ab) = Read(Read(R, a), tref)
    BY <2>1, ReadJoin
  <2> HIDE DEF ab
  <2>3. ab \o c \in Lists(Box) /\ Read(R, ab \o c) = Read(Read(R, ab), c)
    BY <2>1, <2>2, ReadJoin
  <2> QED  BY <2>2, <2>3 DEF D, F, a, c, ab
<1>10. TrackBoxes(t) = (a \o tref) \o c
  BY <1>2, <1>3 DEF TrackBoxes
<1> HIDE DEF a, c, E
<1>11. Refuses(R, E, Stored(t, "meta") \cup Stored(t, "udta"))
  BY <1>6, <1>7, <1>8 DEF InfoRead, Refuses
<1>12. ~E.refused => ~F.refused /\ ~D.refused
  BY <1>6, <1>7, <1>8 DEF InfoRead, Refuses
<1>13. ~E.refused =>
         /\ E.found = R.found \cup {t}
         /\ \A u \in Tracks : u # t => E.ids[u] = R.ids[u]
         /\ E.ids[t] = IF mux.refs[t] = <<>> THEN R.ids[t] ELSE Ids(TrefWords(t))
  BY <1>6, <1>7, <1>8, <1>12 DEF InfoRead
<1>14. ~E.refused =>
         /\ \A p \in Owner : p # t => E.metas[p] = R.metas[p]
         /\ E.metas[t] = IF Kept(mux.metas[t], "meta") = <<>> THEN R.metas[t]
                         ELSE Kept(mux.metas[t], "meta")
  BY <1>6, <1>7, <1>8, <1>12 DEF InfoRead
<1>15. ~E.refused => AsSet(E.udta) \subseteq AsSet(R.udta) \cup Stored(t, "udta")
  BY <1>6, <1>7, <1>8, <1>12 DEF InfoRead, Known
<1>16. ~E.refused => AsSet(E.location) \subseteq AsSet(R.location) \cup Stored(t, "root")
  <2> SUFFICES ASSUME ~E.refused
               PROVE  AsSet(E.location) \subseteq AsSet(R.location) \cup Stored(t, "root")
    OBVIOUS
  <2>1. F.location = R.location
    BY <1>6, <1>7, <1>12
  <2>2. CASE Kept(mux.metas[t], "root") = <<>>
    BY <1>8, <2>1, <2>2 DEF InfoRead
  <2>3. CASE Kept(mux.metas[t], "root") # <<>>
    <3>1. PICK meta \in Stored(t, "root") : E.location = <<meta>>
      BY <1>8, <2>3 DEF InfoRead
    <3>2. AsSet(<<meta>>) = {meta}
      BY DEF AsSet
    <3> QED  BY <3>1, <3>2
  <2> QED  BY <2>2, <2>3
<1>17. TrackRead(R, E, t)
  BY <1>11, <1>13, <1>14, <1>15, <1>16 DEF TrackRead
<1>18. TrackBoxes(t) \in Lists(Box) /\ Read(R, TrackBoxes(t)) = E
  BY <1>9, <1>10 DEF E
<1> QED  BY <1>8, <1>17, <1>18

-----------------------------------------------------------------------------
(* The moov.                                                               *)

Parts == [t \in Tracks |-> IF t \in mux.filled THEN TrackBoxes(t) ELSE <<>>]

Strays(storage) == UNION {Stored(t, storage) : t \in mux.filled}

TracksRead(S, k) ==
  /\ S.refused => \E t \in mux.filled :
                    \E meta \in Stored(t, "meta") \cup Stored(t, "udta") :
                      meta.value = Empty
  /\ ~S.refused =>
       /\ S.found = {t \in mux.filled : t <= k}
       /\ \A t \in Tracks :
            S.ids[t] = IF t \in mux.filled /\ t <= k /\ mux.refs[t] # <<>>
                       THEN Ids(TrefWords(t)) ELSE <<>>
       /\ \A o \in Owner :
            S.metas[o] = IF o \in mux.filled /\ o <= k
                         THEN Kept(mux.metas[o], "meta") ELSE <<>>
       /\ AsSet(S.udta) \subseteq Strays("udta")
       /\ AsSet(S.location) \subseteq Strays("root")

LEMMA TracksReadNone ==
  ASSUME mux \in Muxed PROVE TracksRead(Unread, 0)
<1>1. \A t \in mux.filled : ~(t <= 0)
  BY MuxedType, OwnerType
<1> QED  BY <1>1, UnreadType, NothingHas DEF TracksRead

LEMMA TracksReadNext ==
  ASSUME mux \in Muxed, NEW R, NEW E, NEW k \in Tracks, TracksRead(R, k - 1),
         IF k \in mux.filled THEN TrackRead(R, E, k) ELSE E = R
  PROVE  TracksRead(E, k)
<1>1. mux.filled \subseteq Tracks /\ k \in Owner /\ k \in Nat /\ File \notin mux.filled
  BY MuxedType, OwnerType
<1>2. \A t \in mux.filled : t <= k <=> t <= k - 1 \/ t = k
  BY <1>1, OwnerType
<1>3. ~(k <= k - 1) /\ k <= k
  BY <1>1
<1>4. CASE k \notin mux.filled
  <2>1. E = R
    BY <1>4
  <2>2. \A t \in mux.filled : t <= k <=> t <= k - 1
    BY <1>2, <1>4
  <2>3. {t \in mux.filled : t <= k} = {t \in mux.filled : t <= k - 1}
    BY <2>2
  <2> QED  BY <2>1, <2>2, <2>3 DEF TracksRead
<1>5. CASE k \in mux.filled
  <2>1. TrackRead(R, E, k)
    BY <1>5
  <2>2. E.refused => \E t \in mux.filled :
                       \E meta \in Stored(t, "meta") \cup Stored(t, "udta") :
                         meta.value = Empty
    BY <1>5, <2>1 DEF TracksRead, TrackRead, Refuses
  <2> SUFFICES ASSUME ~E.refused PROVE TracksRead(E, k)
    BY <2>2 DEF TracksRead
  <2>3. ~R.refused
    BY <2>1 DEF TrackRead, Refuses
  <2>4. E.found = {t \in mux.filled : t <= k}
    <3>1. {t \in mux.filled : t <= k} = {t \in mux.filled : t <= k - 1} \cup {k}
      BY <1>2, <1>5
    <3> QED  BY <2>1, <2>3, <3>1 DEF TracksRead, TrackRead
  <2>5. ASSUME NEW t \in Tracks
        PROVE  E.ids[t] = IF t \in mux.filled /\ t <= k /\ mux.refs[t] # <<>>
                          THEN Ids(TrefWords(t)) ELSE <<>>
    <3>1. CASE t = k
      BY <1>3, <1>5, <2>1, <2>3, <3>1 DEF TracksRead, TrackRead
    <3>2. CASE t # k
      <4>1. E.ids[t] = R.ids[t]
        BY <2>1, <3>2 DEF TrackRead
      <4> QED  BY <1>2, <2>3, <3>2, <4>1 DEF TracksRead
    <3> QED  BY <3>1, <3>2
  <2>6. ASSUME NEW o \in Owner
        PROVE  E.metas[o] = IF o \in mux.filled /\ o <= k
                            THEN Kept(mux.metas[o], "meta") ELSE <<>>
    <3>1. CASE o = k
      BY <1>3, <1>5, <2>1, <2>3, <3>1 DEF TracksRead, TrackRead
    <3>2. CASE o # k
      <4>1. E.metas[o] = R.metas[o]
        BY <2>1, <3>2 DEF TrackRead
      <4> QED  BY <1>2, <2>3, <3>2, <4>1 DEF TracksRead
    <3> QED  BY <3>1, <3>2
  <2>7. AsSet(E.udta) \subseteq Strays("udta")
    BY <1>5, <2>1, <2>3 DEF TracksRead, TrackRead, Strays
  <2>8. AsSet(E.location) \subseteq Strays("root")
    BY <1>5, <2>1, <2>3 DEF TracksRead, TrackRead, Strays
  <2> QED  BY <2>4, <2>5, <2>6, <2>7, <2>8 DEF TracksRead
<1> QED  BY <1>4, <1>5

MoovRead(E) ==
  /\ E.refused => HasEmptyValue
  /\ ~E.refused =>
       /\ E.found = mux.filled
       /\ \A t \in mux.filled :
            /\ E.ids[t] = IF mux.refs[t] = <<>> THEN <<>> ELSE Ids(TrefWords(t))
            /\ E.metas[t] = Kept(mux.metas[t], "meta")
       /\ E.metas[File] = Kept(mux.metas[File], "meta")
       /\ IF Kept(mux.metas[File], "udta") = <<>>
          THEN AsSet(E.udta) \subseteq Strays("udta")
          ELSE AsSet(E.udta) = Known(Stored(File, "udta"))
       /\ IF Kept(mux.metas[File], "root") = <<>>
          THEN AsSet(E.location) \subseteq Strays("root")
          ELSE \E meta \in Stored(File, "root") : E.location = <<meta>>

LEMMA MoovIsRead ==
  ASSUME mux \in Muxed
  PROVE  Reading(Moov) \in ReadState /\ MoovRead(Reading(Moov))
<1> DEFINE n == Len(Types)
           D == Read(Unread, FlattenSeq(Parts))
           E == Read(D, InfoBoxes(File))
<1>1. n \in Nat /\ Tracks = 1 .. n /\ File \in Owner /\ mux.filled \subseteq Tracks
      /\ File \notin mux.filled
  BY OwnerType, MuxedType
<1> HIDE DEF n
<1>2. ASSUME NEW t \in Tracks PROVE Parts[t] \in Lists(Box)
  <2>1. <<>> \in Lists(Box)
    BY DEF Lists
  <2>2. TrackBoxes(t) \in Lists(Box)
    BY UnreadType, TrackBoxesRead
  <2> QED  BY <2>1, <2>2 DEF Parts
<1>3. Parts \in Lists(Lists(Box)) /\ Len(Parts) = n
  <2> DEFINE L == Lists(Box)
  <2>1. Parts = [t \in 1 .. n |-> Parts[t]]
    BY <1>1 DEF Parts
  <2> HIDE DEF L
  <2>2. Parts \in [1 .. n -> L]
    BY <1>1, <1>2, <2>1 DEF L
  <2>3. Parts \in Seq(L) /\ Len(Parts) = n
    BY <1>1, <2>2
  <2> QED  BY <2>3 DEF Lists, L
<1>4. PICK f \in [0 .. n -> ReadState] :
        /\ f[0] = Unread /\ f[n] = D
        /\ \A k \in 1 .. n : f[k] = Read(f[k - 1], Parts[k])
  BY <1>3, UnreadType, ReadStepType, FoldedFlatten DEF Read
<1> HIDE DEF D
<1> DEFINE P == {k \in 0 .. n : TracksRead(f[k], k)}
<1>5. 0 \in P
  BY <1>1, <1>4, TracksReadNone
<1>6. ASSUME NEW k \in 1 .. n, k - 1 \in P PROVE k \in P
  <2>1. /\ k \in 0 .. n /\ k - 1 \in 0 .. n /\ k \in Tracks
        /\ TracksRead(f[k - 1], k - 1)
    BY <1>1, <1>6
  <2>2. f[k - 1] \in ReadState /\ f[k] = Read(f[k - 1], Parts[k])
    BY <1>4, <2>1
  <2>3. CASE k \in mux.filled
    <3>1. f[k] = Read(f[k - 1], TrackBoxes(k))
      BY <2>1, <2>2, <2>3 DEF Parts
    <3>2. TrackRead(f[k - 1], f[k], k)
      BY <2>1, <2>2, <3>1, TrackBoxesRead
    <3> QED  BY <2>1, <2>3, <3>2, TracksReadNext
  <2>4. CASE k \notin mux.filled
    <3>1. f[k] = f[k - 1]
      BY <2>1, <2>2, <2>4, ReadNone DEF Parts
    <3> QED  BY <2>1, <2>4, <3>1, TracksReadNext
  <2> QED  BY <2>3, <2>4
<1>7. \A k \in 0 .. n : k \in P
  <2> HIDE DEF P
  <2> QED  BY <1>1, <1>5, <1>6, Induction
<1>8. TracksRead(D, n) /\ D \in ReadState
  <2>1. n \in 0 .. n
    BY <1>1
  <2> QED  BY <1>4, <1>7, <2>1
<1>9. /\ InfoBoxes(File) \in Lists(Box) /\ E \in ReadState /\ InfoRead(D, E, File)
  BY <1>1, <1>8, InfoBoxesRead
<1>10. Reading(Moov) = E
  <2> DEFINE a == FlattenSeq(Parts)
             b == InfoBoxes(File)
  <2>1. a \in Lists(Box) /\ b \in Lists(Box) /\ Moov = a \o b
    BY <1>3, <1>9, FlattenType DEF Moov, Parts
  <2> HIDE DEF a, b
  <2>2. a \o b \in Lists(Box) /\ Read(Unread, a \o b) = Read(Read(Unread, a), b)
    BY <2>1, UnreadType, ReadJoin
  <2> QED  BY <2>1, <2>2, ReadingFolds DEF D, a, b
<1> HIDE DEF E
<1>11. E.refused => HasEmptyValue
  <2> SUFFICES ASSUME E.refused PROVE HasEmptyValue
    OBVIOUS
  <2>1. \E o \in {File} \cup mux.filled :
          \E meta \in Stored(o, "meta") \cup Stored(o, "udta") : meta.value = Empty
    BY <1>8, <1>9 DEF TracksRead, InfoRead, Refuses
  <2>2. PICK o \in {File} \cup mux.filled :
          \E meta \in Stored(o, "meta") \cup Stored(o, "udta") : meta.value = Empty
    BY <2>1
  <2>3. mux.metas[o] \in Seq(Meta)
    BY <1>1, MuxedType, OwnerType
  <2>4. \A meta \in Stored(o, "meta") \cup Stored(o, "udta") :
          meta \in AsSet(mux.metas[o]) /\ Storage(meta.key) # "root"
    BY <2>3, KeptFacts DEF Stored
  <2> QED  BY <2>2, <2>4 DEF HasEmptyValue
<1>12. ~E.refused => ~D.refused
  BY <1>9 DEF InfoRead, Refuses
<1>13. \A t \in mux.filled : t <= n
  BY <1>1
<1>14. ~E.refused =>
         /\ E.found = mux.filled
         /\ \A t \in mux.filled :
              /\ E.ids[t] = IF mux.refs[t] = <<>> THEN <<>> ELSE Ids(TrefWords(t))
              /\ E.metas[t] = Kept(mux.metas[t], "meta")
         /\ E.metas[File] = Kept(mux.metas[File], "meta")
  <2>1. \A t \in mux.filled : t \in Tracks /\ t \in Owner /\ t # File
    BY <1>1, OwnerType
  <2>2. {t \in mux.filled : t <= n} = mux.filled
    BY <1>13
  <2> QED  BY <1>1, <1>8, <1>9, <1>12, <1>13, <2>1, <2>2 DEF TracksRead, InfoRead
<1>15. ~E.refused =>
         IF Kept(mux.metas[File], "udta") = <<>>
         THEN AsSet(E.udta) \subseteq Strays("udta")
         ELSE AsSet(E.udta) = Known(Stored(File, "udta"))
  BY <1>8, <1>9, <1>12 DEF TracksRead, InfoRead
<1>16. ~E.refused =>
         IF Kept(mux.metas[File], "root") = <<>>
         THEN AsSet(E.location) \subseteq Strays("root")
         ELSE \E meta \in Stored(File, "root") : E.location = <<meta>>
  BY <1>8, <1>9, <1>12 DEF TracksRead, InfoRead
<1>17. MoovRead(E)
  BY <1>11, <1>14, <1>15, <1>16 DEF MoovRead
<1> QED  BY <1>9, <1>10, <1>17

-----------------------------------------------------------------------------
(* What is shown.                                                          *)

ReadInv ==
  /\ phase \in {"closed", "open", "refused"} => movie = Moov
  /\ phase = "open" => ~Reading(movie).refused /\ shown = Shown(Reading(movie))
  /\ phase = "refused" => Reading(movie).refused

(* The references are not more than there is room for. *)
RefsInv ==
  \A t \in Tracks : /\ Len(mux.refs[t]) <= MaxTrackRefs
                    /\ Len(synced.refs[t]) <= MaxTrackRefs

LEMMA SameMoov == ASSUME UNCHANGED mux PROVE Moov' = Moov
<1>1. \A o : MetaBoxes(o)' = MetaBoxes(o)
  BY DEF MetaBoxes
<1>2. \A o : UdtaBoxes(o)' = UdtaBoxes(o)
  BY DEF UdtaBoxes
<1>3. \A o : RootBoxes(o)' = RootBoxes(o)
  BY DEF RootBoxes
<1>4. \A o : InfoBoxes(o)' = InfoBoxes(o)
  BY <1>1, <1>2, <1>3 DEF InfoBoxes
<1>5. \A t : TrefWords(t)' = TrefWords(t)
  BY DEF TrefWords
<1>6. \A t : TrackBoxes(t)' = TrackBoxes(t)
  BY <1>4, <1>5 DEF TrackBoxes
<1>7. Parts' = Parts
  BY <1>6 DEF Parts
<1>8. Moov = FlattenSeq(Parts) \o InfoBoxes(File)
  BY DEF Moov, Parts
<1>9. Moov' = FlattenSeq(Parts') \o InfoBoxes(File)'
  BY DEF Moov, Parts
<1> QED  BY <1>4, <1>7, <1>8, <1>9

LEMMA LoggedLength ==
  ASSUME NEW refs \in Seq({0} \cup Tracks),
         LoggedRefs(refs) \in Seq({0} \cup Tracks)
  PROVE  Len(LoggedRefs(refs)) = Len(refs)
<1>1. DOMAIN LoggedRefs(refs) = DOMAIN refs
  BY DEF LoggedRefs
<1> QED  BY <1>1

(* What mp4_demux_open shows is what it reads of the moov of the muxer,    *)
(* whose references fit in a box.                                          *)
THEOREM ReadInductive == Spec => [](ReadInv /\ RefsInv)
<1>1. ASSUME Init PROVE ReadInv /\ RefsInv
  <2>1. Len(<<>>) = 0 /\ 0 <= MaxTrackRefs
    BY DEF MaxTrackRefs
  <2> QED  BY <1>1, <2>1, NothingType DEF Init, ReadInv, RefsInv
<1>2. ASSUME Inv, Inv', ReadInv, [Next]_vars PROVE ReadInv'
  <2>1. CASE phase' \notin {"closed", "open", "refused"}
    BY <2>1 DEF ReadInv
  <2>2. CASE Close
    <3>1. mux' = mux /\ (phase' = "closed" => movie' = Moov)
          /\ phase' \in {"closed", "failed"}
      BY <2>2 DEF Close
    <3>2. Moov' = Moov
      BY <3>1, SameMoov
    <3> QED  BY <3>1, <3>2 DEF ReadInv
  <2>3. CASE Open
    <3>1. phase = "closed" /\ mux' = mux /\ movie' = movie
      BY <2>3 DEF Open
    <3>2. Moov' = Moov /\ movie = Moov
      BY <1>2, <3>1, SameMoov DEF ReadInv
    <3>3. IF Reading(movie).refused THEN phase' = "refused"
          ELSE phase' = "open" /\ shown' = Shown(Reading(movie))
      BY <2>3 DEF Open
    <3>4. PICK r : r = Reading(movie)
      OBVIOUS
    <3>5. Reading(movie)' = r /\ Shown(r)' = Shown(r)
      BY <3>1, <3>4
    <3> QED  BY <3>1, <3>2, <3>3, <3>4, <3>5 DEF ReadInv
  <2>4. CASE UNCHANGED vars
    <3>1. UNCHANGED <<phase, mux, movie, shown>>
      BY <2>4 DEF vars
    <3>2. Moov' = Moov
      BY <3>1, SameMoov
    <3>3. PICK r : r = Reading(movie)
      OBVIOUS
    <3>4. Reading(movie)' = r
      BY <3>1, <3>3
    <3> QED  BY <1>2, <3>1, <3>2, <3>3, <3>4 DEF ReadInv
  <2>5. CASE \/ \E o \in Owners, key \in Keys, value \in Values :
                  AddMetadata(o, key, value)
             \/ SetCover
             \/ \E t, u \in Tracks : AddRef(t, u)
             \/ \E t \in Tracks : Fill(t)
             \/ Sync \/ Crash \/ Recover
    <3>1. phase' \in {"mux", "dead", "recovered"}
      BY <2>5 DEF AddMetadata, SetCover, AddRef, Fill, Sync, Crash, Recover
    <3> QED  BY <2>1, <3>1
  <2> QED  BY <1>2, <2>2, <2>3, <2>4, <2>5 DEF Next
<1>3. ASSUME Inv, Inv', RefsInv, [Next]_vars PROVE RefsInv'
  <2>1. \A t \in Tracks : /\ Len(mux.refs[t]) <= MaxTrackRefs
                          /\ Len(synced.refs[t]) <= MaxTrackRefs
    BY <1>3 DEF RefsInv
  <2>2. mux \in Muxed /\ synced \in Muxed /\ mux' \in Muxed
    BY <1>3 DEF Inv, TypeInv
  <2>3. CASE \/ \E o \in Owners, key \in Keys, value \in Values :
                  AddMetadata(o, key, value)
             \/ SetCover
             \/ \E t \in Tracks : Fill(t)
    <3>1. mux'.refs = mux.refs /\ synced' = synced
      BY <2>2, <2>3 DEF AddMetadata, SetCover, Fill, logVars, Muxed
    <3> QED  BY <2>1, <3>1 DEF RefsInv
  <2>4. ASSUME NEW t \in Tracks, NEW u \in Tracks, AddRef(t, u) PROVE RefsInv'
    <3> DEFINE refs == [mux.refs EXCEPT ![t] = Append(@, u)]
    <3>1. mux' = [mux EXCEPT !.refs = refs] /\ synced' = synced
          /\ Len(mux.refs[t]) < MaxTrackRefs
      BY <2>4 DEF AddRef
    <3>2. mux.refs \in [Tracks -> Seq({0} \cup Tracks)]
          /\ mux.refs[t] \in Seq({0} \cup Tracks)
      BY <2>2, MuxedType
    <3>3. /\ Len(Append(mux.refs[t], u)) <= MaxTrackRefs
      BY <3>1, <3>2 DEF MaxTrackRefs
    <3>4. refs[t] = Append(mux.refs[t], u)
          /\ \A v \in Tracks : v # t => refs[v] = mux.refs[v]
      BY <3>2
    <3> HIDE DEF refs
    <3>5. mux'.refs = refs
      BY <2>2, <3>1 DEF Muxed
    <3> QED  BY <2>1, <3>1, <3>3, <3>4, <3>5 DEF RefsInv
  <2>5. CASE Sync \/ Close
    <3>1. mux' = mux /\ (synced' = mux \/ synced' = synced)
      BY <2>5 DEF Sync, Close
    <3> QED  BY <2>1, <3>1 DEF RefsInv
  <2>6. CASE Crash
    <3>1. mux' = Nothing /\ synced' = synced
      BY <2>6 DEF Crash
    <3>2. Len(<<>>) = 0 /\ 0 <= MaxTrackRefs
      BY DEF MaxTrackRefs
    <3> QED  BY <2>1, <3>1, <3>2, NothingType DEF RefsInv
  <2>7. CASE Recover
    <3>1. synced' = synced /\ phase' = "recovered"
      BY <2>7 DEF Recover, logVars
    <3>2. \A t \in Tracks : mux'.refs[t] = LoggedRefs(synced.refs[t])
      BY <1>3, <3>1 DEF Inv, RecInv, AsSynced
    <3>3. ASSUME NEW t \in Tracks PROVE Len(mux'.refs[t]) = Len(synced.refs[t])
      <4>1. synced.refs[t] \in Seq({0} \cup Tracks)
        BY <2>2, MuxedType
      <4>2. LoggedRefs(synced.refs[t]) \in Seq({0} \cup Tracks)
        BY <4>1, LoggedRefsType
      <4> QED  BY <3>2, <4>1, <4>2, LoggedLength
    <3> QED  BY <2>1, <3>1, <3>3 DEF RefsInv
  <2>8. CASE Open \/ UNCHANGED vars
    <3>1. mux' = mux /\ synced' = synced
      BY <2>8 DEF Open, logVars, vars
    <3> QED  BY <2>1, <3>1 DEF RefsInv
  <2> QED  BY <1>3, <2>3, <2>4, <2>5, <2>6, <2>7, <2>8 DEF Next
<1> QED  BY <1>1, <1>2, <1>3, Inductive, PTL DEF Spec

LEMMA JoinedSet ==
  ASSUME NEW T, NEW a \in Seq(T), NEW b \in Seq(T)
  PROVE  a \o b \in Seq(T) /\ AsSet(a \o b) = AsSet(a) \cup AsSet(b)
<1> DEFINE m == Len(a)
           n == Len(b)
           ab == a \o b
<1>1. /\ m \in Nat /\ n \in Nat /\ DOMAIN a = 1 .. m /\ DOMAIN b = 1 .. n
      /\ ab \in Seq(T) /\ DOMAIN ab = 1 .. m + n
      /\ \A i \in 1 .. m : ab[i] = a[i]
      /\ \A i \in 1 .. n : ab[m + i] = b[i]
  OBVIOUS
<1> HIDE DEF m, n, ab
<1>2. /\ \A i \in 1 .. m : i \in 1 .. m + n
      /\ \A i \in 1 .. n : m + i \in 1 .. m + n
      /\ \A i \in 1 .. m + n : i \in 1 .. m \/ (i - m \in 1 .. n /\ m + (i - m) = i)
  BY <1>1
<1>3. AsSet(ab) \subseteq AsSet(a) \cup AsSet(b)
  <2> SUFFICES ASSUME NEW i \in 1 .. m + n PROVE ab[i] \in AsSet(a) \cup AsSet(b)
    BY <1>1 DEF AsSet
  <2>1. CASE i \in 1 .. m
    BY <1>1, <2>1 DEF AsSet
  <2>2. CASE i - m \in 1 .. n /\ m + (i - m) = i
    <3>1. ab[m + (i - m)] = b[i - m]
      BY <1>1, <2>2
    <3> QED  BY <1>1, <2>2, <3>1 DEF AsSet
  <2> QED  BY <1>2, <2>1, <2>2
<1>4. AsSet(a) \cup AsSet(b) \subseteq AsSet(ab)
  <2>1. ASSUME NEW i \in 1 .. m PROVE a[i] \in AsSet(ab)
    BY <1>1, <1>2 DEF AsSet
  <2>2. ASSUME NEW i \in 1 .. n PROVE b[i] \in AsSet(ab)
    <3>1. m + i \in DOMAIN ab /\ ab[m + i] = b[i]
      BY <1>1, <1>2
    <3> QED  BY <3>1 DEF AsSet
  <2> QED  BY <1>1, <2>1, <2>2 DEF AsSet
<1> QED  BY <1>1, <1>3, <1>4 DEF ab

LEMMA FileRead ==
  ASSUME NEW E \in ReadState
  PROVE  AsSet(FileMetadata(E))
           = {meta \in AsSet(E.metas[File]) \cup AsSet(E.udta) \cup AsSet(E.location) :
                meta.value \notin {NoValue, Empty}}
<1> DEFINE a == E.metas[File]
           b == E.udta
           c == E.location
           ab == a \o b
           all == ab \o c
           good == {meta \in AsSet(all) : meta.value \notin {NoValue, Empty}}
<1>1. a \in Seq(Boxed) /\ b \in Seq(Meta) /\ c \in Seq(Meta)
  BY ReadFields, OwnerType
<1>2. Meta \subseteq Boxed
  BY MetaEntry
<1> HIDE DEF a, b, c
<1>3. b \in Seq(Boxed) /\ c \in Seq(Boxed)
  BY <1>1, <1>2
<1>4. ab \in Seq(Boxed) /\ AsSet(ab) = AsSet(a) \cup AsSet(b)
  BY <1>1, <1>3, JoinedSet
<1> HIDE DEF ab
<1>5. all \in Seq(Boxed) /\ AsSet(all) = AsSet(ab) \cup AsSet(c)
  BY <1>3, <1>4, JoinedSet
<1>6. FileMetadata(E) = Only(all, good)
  BY DEF FileMetadata, a, b, c, ab
<1> HIDE DEF all
<1>7. AsSet(Only(all, good)) = AsSet(all) \cap good
  <2> HIDE DEF good
  <2> QED  BY <1>5, OnlyFacts
<1>8. AsSet(all) \cap good = good
  OBVIOUS
<1> QED  BY <1>4, <1>5, <1>6, <1>7, <1>8 DEF a, b, c

LEMMA StorageFacts ==
  ASSUME NEW key \in Keys
  PROVE  /\ Storage(key) \in {"meta", "root", "udta"}
         /\ Storage(key) = "root" => key = LocationTag
         /\ Storage(key) = "udta" => key \in Tags \cup OtherTags
BY MetadataAssumption DEF MetadataAssumption, Storage, Keys

LEMMA OfFileShown ==
  ASSUME mux \in Muxed, Distinct(mux.metas[File]), NEW E \in ReadState,
         MoovRead(E), ~E.refused,
         NEW meta \in AsSet(mux.metas[File]),
         meta.key \notin OtherTags, meta.value # Empty
  PROVE  meta \in AsSet(FileMetadata(E))
<1> DEFINE list == mux.metas[File]
<1>1. list \in Seq(Meta)
  BY OwnerType, MuxedType
<1>2. meta \in Meta /\ meta.key \in Keys /\ meta.value \in Values
  BY <1>1, ListType DEF AsSet
<1>3. meta.value \notin {NoValue, Empty}
  BY <1>2, MetadataAssumption DEF MetadataAssumption
<1>4. \A storage : \A m : m \in Stored(File, storage)
                           <=> m \in AsSet(list) /\ Storage(m.key) = storage
  BY <1>1, KeptFacts DEF Stored
<1>5. AsSet(<<>>) = {}
  BY DEF AsSet
<1>6. CASE Storage(meta.key) = "meta"
  <2>1. meta \in AsSet(E.metas[File])
    BY <1>4, <1>6 DEF MoovRead, Stored
  <2> QED  BY <1>3, <2>1, FileRead
<1>7. CASE Storage(meta.key) = "udta"
  <2>1. meta \in Stored(File, "udta") /\ meta.key \in Tags
    BY <1>2, <1>4, <1>7, StorageFacts
  <2>2. Kept(list, "udta") # <<>>
    BY <1>5, <2>1 DEF Stored
  <2>3. meta \in AsSet(E.udta)
    BY <2>1, <2>2 DEF MoovRead, Known
  <2> QED  BY <1>3, <2>3, FileRead
<1>8. CASE Storage(meta.key) = "root"
  <2>1. meta \in Stored(File, "root") /\ meta.key = LocationTag
    BY <1>2, <1>4, <1>8, StorageFacts
  <2>2. Kept(list, "root") # <<>>
    BY <1>5, <2>1 DEF Stored
  <2>3. PICK m \in Stored(File, "root") : E.location = <<m>>
    BY <2>2 DEF MoovRead
  <2>4. m \in AsSet(list) /\ Storage(m.key) = "root"
    BY <1>4
  <2>5. m.key \in Keys
    BY <1>1, <2>4, ListType DEF AsSet
  <2>6. m.key = LocationTag
    BY <2>4, <2>5, StorageFacts
  <2>7. m = meta
    BY <2>1, <2>4, <2>6 DEF Distinct, AsSet
  <2>8. meta \in AsSet(E.location)
    BY <2>3, <2>7 DEF AsSet
  <2> QED  BY <1>3, <2>8, FileRead
<1> QED  BY <1>2, <1>6, <1>7, <1>8, StorageFacts

LEMMA OnlyOfFileShown ==
  ASSUME mux \in Muxed, NEW E \in ReadState, MoovRead(E), ~E.refused,
         NEW meta \in AsSet(FileMetadata(E))
  PROVE  \/ meta \in AsSet(mux.metas[File])
         \/ Kept(mux.metas[File], "udta") = <<>> /\ meta \in Strays("udta")
         \/ Kept(mux.metas[File], "root") = <<>> /\ meta \in Strays("root")
<1> DEFINE list == mux.metas[File]
<1>1. list \in Seq(Meta)
  BY OwnerType, MuxedType
<1>2. \A storage : Stored(File, storage) \subseteq AsSet(list)
  BY <1>1, KeptFacts DEF Stored
<1>3. meta \in AsSet(E.metas[File]) \cup AsSet(E.udta) \cup AsSet(E.location)
  BY FileRead
<1>4. CASE meta \in AsSet(E.metas[File])
  BY <1>2, <1>4 DEF MoovRead, Stored
<1>5. CASE meta \in AsSet(E.udta)
  BY <1>2, <1>5 DEF MoovRead, Known
<1>6. CASE meta \in AsSet(E.location)
  <2>1. ASSUME NEW m \in Stored(File, "root"), E.location = <<m>>
        PROVE  meta \in AsSet(list)
    <3>1. meta = m
      BY <1>6, <2>1 DEF AsSet
    <3> QED  BY <1>2, <3>1
  <2> QED  BY <1>6, <2>1 DEF MoovRead
<1> QED  BY <1>3, <1>4, <1>5, <1>6

(* The demuxer shows the metadata that the muxer has, each with its owner, *)
(* and refuses a file that mp4_mux_close wrote only for an empty value.    *)
THEOREM MetadataIsShown == Spec => []MetadataShown
<1>1. ASSUME Inv, ReadInv PROVE MetadataShown
  <2>1. mux \in Muxed /\ Distinct(mux.metas[File])
    BY <1>1, OwnerType DEF Inv, TypeInv
  <2>2. PICK E : E = Reading(Moov)
    OBVIOUS
  <2>3. E \in ReadState /\ MoovRead(E)
    BY <2>1, <2>2, MoovIsRead
  <2>4. phase = "refused" => HasEmptyValue
    BY <1>1, <2>2, <2>3 DEF ReadInv, MoovRead
  <2>5. ASSUME phase = "open"
        PROVE  /\ FileShown
               /\ \A t \in mux.filled :
                    AsSet(shown.tracks[t]) = AsSet(Kept(mux.metas[t], "meta"))
    <3>1. ~E.refused /\ shown = Shown(E)
      BY <1>1, <2>2, <2>5 DEF ReadInv
    <3>2. shown.file = FileMetadata(E) /\ shown.tracks = E.metas
      BY <3>1 DEF Shown
    <3>3. FileShown
      <4>1. \A storage :
              Strays(storage)
                = UNION {AsSet(Kept(mux.metas[t], storage)) : t \in mux.filled}
        BY DEF Strays, Stored
      <4>2. ASSUME NEW meta \in AsSet(mux.metas[File]),
                   meta.key \notin OtherTags, meta.value # Empty
            PROVE  meta \in AsSet(shown.file)
        BY <2>1, <2>3, <3>1, <3>2, <4>2, OfFileShown
      <4>3. ASSUME NEW meta \in AsSet(shown.file)
            PROVE  \/ meta \in AsSet(mux.metas[File])
                   \/ /\ Kept(mux.metas[File], "udta") = <<>>
                      /\ meta \in Strays("udta")
                   \/ /\ Kept(mux.metas[File], "root") = <<>>
                      /\ meta \in Strays("root")
        BY <2>1, <2>3, <3>1, <3>2, <4>3, OnlyOfFileShown
      <4> QED  BY <4>1, <4>2, <4>3 DEF FileShown
    <3>4. \A t \in mux.filled : E.metas[t] = Kept(mux.metas[t], "meta")
      BY <2>3, <3>1 DEF MoovRead
    <3> QED  BY <3>2, <3>3, <3>4
  <2> QED  BY <2>4, <2>5 DEF MetadataShown
<1> QED  BY <1>1, Inductive, ReadInductive, PTL

-----------------------------------------------------------------------------
(* The references between tracks.                                          *)

(* In a box of n references the numbers that are none of them are 0 and    *)
(* the size of a box, 8 + 4 * n, which only follows the references if n is *)
(* at least 2.                                                             *)
LEMMA IdsAreRefs ==
  ASSUME mux \in Muxed, Len(Types) < 16, NEW t \in Tracks, NEW u \in Tracks,
         mux.refs[t] # <<>>, Len(mux.refs[t]) <= MaxTrackRefs
  PROVE  Contains(Ids(TrefWords(t)), u) <=> Contains(mux.refs[t], u)
<1> DEFINE refs == mux.refs[t]
           n == Len(refs)
           words == TrefWords(t)
           last == IF n * (n + 2) < MaxTrackRefs + 2 THEN n * (n + 2)
                   ELSE MaxTrackRefs + 2
<1>1. refs \in Seq({0} \cup Tracks)
  BY MuxedType
<1>2. n \in 1 .. 10
  <2>1. n \in Nat
    BY <1>1
  <2>2. n # 0
    <3>1. refs # <<>>
      OBVIOUS
    <3> HIDE DEF refs
    <3> QED  BY <1>1, <3>1
  <2>3. n <= 10
    BY DEF MaxTrackRefs
  <2> HIDE DEF n
  <2> QED  BY <2>1, <2>2, <2>3
<1>3. u \in 1 .. 15
  BY OwnerType
<1>4. /\ words \in Seq(Nat) /\ Len(words) = n * (n + 2)
      /\ \A i \in 1 .. n * (n + 2) :
           /\ (i - 1) % (n + 2) \in 0 .. n + 1
           /\ words[i] = IF (i - 1) % (n + 2) = 0 THEN 8 + 4 * n
                         ELSE IF (i - 1) % (n + 2) = 1 THEN 0
                         ELSE refs[((i - 1) % (n + 2)) - 1]
  BY WordsType
<1> HIDE DEF refs, n, words
<1>5. last \in n + 2 .. 12 /\ last <= n * (n + 2)
  <2>1. n * (n + 2) >= n + 2 /\ n * (n + 2) \in Nat
    BY <1>2
  <2> QED  BY <1>2, <2>1 DEF MaxTrackRefs
<1>6. Ids(words) = SubSeq(words, 3, last)
  BY <1>4 DEF Ids
<1>7. n = 1 => last = 3
  BY DEF MaxTrackRefs
<1> HIDE DEF last
<1>8. Len(Ids(words)) = last - 2
      /\ \A j \in 1 .. last - 2 : Ids(words)[j] = words[j + 2]
  <2>1. last \in 3 .. Len(words)
    BY <1>2, <1>4, <1>5
  <2> QED  BY <1>4, <1>6, <2>1
<1>9. ASSUME NEW j \in 1 .. last - 2, words[j + 2] = u
      PROVE  \E k \in 1 .. n : refs[k] = u
  <2>1. j + 2 \in 1 .. n * (n + 2) /\ (j + 2) - 1 = j + 1
    <3> DEFINE m == n * (n + 2)
    <3>1. m \in Nat
      BY <1>2
    <3> HIDE DEF m
    <3>2. last \in Nat /\ last <= m
      BY <1>2, <1>5 DEF m
    <3> QED  BY <3>1, <3>2 DEF m
  <2> DEFINE at == (j + 1) % (n + 2)
  <2>2. at \in 0 .. n + 1
        /\ words[j + 2] = IF at = 0 THEN 8 + 4 * n
                          ELSE IF at = 1 THEN 0 ELSE refs[at - 1]
    BY <1>4, <2>1
  <2>3. n = 1 => at # 0
    <3>1. n = 1 => j = 1
      BY <1>7
    <3> QED  BY <3>1
  <2> HIDE DEF at
  <2>4. at # 0
    BY <1>2, <1>3, <1>9, <2>2, <2>3
  <2>5. at # 1
    BY <1>3, <1>9, <2>2
  <2>6. at - 1 \in 1 .. n
    BY <1>2, <2>2, <2>4, <2>5
  <2> QED  BY <1>9, <2>2, <2>4, <2>5, <2>6
<1>10. ASSUME NEW k \in 1 .. n PROVE k \in 1 .. last - 2 /\ words[k + 2] = refs[k]
  <2>1. k \in 1 .. last - 2 /\ k + 2 \in 1 .. n * (n + 2) /\ (k + 2) - 1 = k + 1
    BY <1>2, <1>5
  <2>2. (k + 1) % (n + 2) = k + 1
    BY <1>2
  <2>3. k + 1 # 0 /\ k + 1 # 1 /\ (k + 1) - 1 = k
    BY <1>2
  <2> QED  BY <1>4, <2>1, <2>2, <2>3
<1>11. Contains(Ids(words), u) <=> Contains(refs, u)
  BY <1>8, <1>9, <1>10 DEF Contains, n
<1> QED  BY <1>11 DEF words, refs

(* References that were logged and that mp4_mux_close accepts are all of   *)
(* them: where several are logged a 0 is among them.                       *)
LEMMA LoggedIntact ==
  ASSUME NEW refs \in Seq({0} \cup Tracks),
         \A i \in DOMAIN LoggedRefs(refs) : LoggedRefs(refs)[i] \in Tracks
  PROVE  LoggedRefs(refs) = refs
<1>1. Len(refs) \in Nat /\ DOMAIN refs = 1 .. Len(refs)
      /\ refs = [i \in 1 .. Len(refs) |-> refs[i]]
  OBVIOUS
<1>2. 0 \notin Tracks
  BY OwnerType DEF File
<1>3. ~(Len(refs) > 1)
  <2> SUFFICES ASSUME Len(refs) > 1 PROVE FALSE
    OBVIOUS
  <2>1. Len(refs) \in DOMAIN LoggedRefs(refs)
        /\ ~(4 * (Len(refs) - 1) < Len(refs))
    BY <1>1 DEF LoggedRefs
  <2>2. LoggedRefs(refs)[Len(refs)] = 0
    BY <1>1, <2>1 DEF LoggedRefs
  <2> QED  BY <1>2, <2>1, <2>2
<1>4. \A i \in 1 .. Len(refs) : 4 * (i - 1) < Len(refs)
  BY <1>1, <1>3
<1> QED  BY <1>1, <1>4 DEF LoggedRefs

LEMMA RefsSynced ==
  ASSUME Inv, phase = "open"
  PROVE  /\ mux.filled = synced.filled
         /\ \A t \in mux.filled : mux.refs[t] = synced.refs[t]
<1>1. /\ mux \in Muxed /\ synced \in Muxed /\ Writable(mux)
      /\ recovered \/ synced = mux
      /\ recovered => /\ mux.filled = synced.filled
                      /\ \A t \in Tracks : mux.refs[t] = LoggedRefs(synced.refs[t])
  BY DEF Inv, TypeInv, RecInv
<1>2. ASSUME recovered, NEW t \in mux.filled PROVE mux.refs[t] = synced.refs[t]
  <2>1. t \in Tracks /\ synced.refs[t] \in Seq({0} \cup Tracks)
        /\ mux.refs[t] = LoggedRefs(synced.refs[t])
    BY <1>1, <1>2, MuxedType
  <2>2. \A i \in DOMAIN mux.refs[t] : mux.refs[t][i] \in Tracks
    BY <1>1 DEF Writable
  <2> QED  BY <2>1, <2>2, LoggedIntact
<1> QED  BY <1>1, <1>2

LEMMA LastTrack ==
  ASSUME NEW T \in SUBSET Tracks, T # {}
  PROVE  \E m \in T : \A k \in T : k <= m
<1> DEFINE n == Len(Types)
           D == {n - m : m \in T}
<1>1. n \in Nat /\ \A m \in T : m \in 1 .. n
  BY OwnerType
<1> HIDE DEF n
<1>2. D \in SUBSET Nat /\ D # {}
  BY <1>1
<1>3. PICK d \in D : \A e \in D : d <= e
  <2> HIDE DEF D
  <2> QED  BY <1>2, LeastNumber
<1>4. PICK m \in T : d = n - m
  BY <1>3
<1>5. ASSUME NEW k \in T PROVE k <= m
  <2>1. n - m <= n - k
    BY <1>3, <1>4
  <2> QED  BY <1>1, <2>1
<1> QED  BY <1>5

(* The demuxer puts together the tracks that the references of the muxer   *)
(* put together, as long as a box of several references cannot be taken    *)
(* for a reference: its size, read as the ID of a track, is 16 or more.    *)
THEOREM LinksAreShown ==
  ASSUME Len(Types) < 16 PROVE Spec => []LinksShown
<1>1. ASSUME Inv, ReadInv, RefsInv, phase = "open"
      PROVE  LET linked(t) == {m \in synced.filled : Types[m] = "metadata" /\
                                                        Contains(synced.refs[m], t)}
             IN /\ \A t \in synced.filled :
                     linked(t) # {} => shown.metadata[t] \in linked(t)
                /\ shown.chapters =
                     {u \in synced.filled : Types[u] = "chapters" /\
                        \E t \in synced.filled : Types[t] # "metadata" /\
                                                    Contains(synced.refs[t], u)}
  <2> DEFINE linked(t) == {m \in synced.filled : Types[m] = "metadata" /\
                                                    Contains(synced.refs[m], t)}
  <2>1. mux \in Muxed /\ mux.filled \subseteq Tracks
    BY <1>1, MuxedType DEF Inv, TypeInv
  <2>2. PICK E : E = Reading(Moov)
    OBVIOUS
  <2>3. ~E.refused /\ shown = Shown(E)
    BY <1>1, <2>2 DEF ReadInv
  <2>4. MoovRead(E)
    BY <2>1, <2>2, MoovIsRead
  <2>5. E.found = mux.filled /\ mux.filled = synced.filled
    BY <1>1, <2>3, <2>4, RefsSynced DEF MoovRead
  <2>6. ASSUME NEW t \in synced.filled, NEW u \in synced.filled
        PROVE  Contains(E.ids[t], u) <=> Contains(synced.refs[t], u)
    <3>1. /\ t \in Tracks /\ u \in Tracks /\ mux.refs[t] = synced.refs[t]
          /\ Len(mux.refs[t]) <= MaxTrackRefs
          /\ E.ids[t] = IF mux.refs[t] = <<>> THEN <<>> ELSE Ids(TrefWords(t))
      BY <1>1, <2>1, <2>3, <2>4, <2>5, RefsSynced DEF MoovRead, RefsInv
    <3> QED  BY <2>1, <3>1, IdsAreRefs
  <2>7. ASSUME NEW t \in synced.filled, linked(t) # {}
        PROVE  shown.metadata[t] \in linked(t)
    <3> DEFINE links == {m \in OfType(E, "metadata") : Contains(E.ids[m], t)}
    <3>1. links = linked(t)
      BY <2>5, <2>6 DEF OfType
    <3>2. links \in SUBSET Tracks /\ links # {}
      BY <2>1, <2>5, <2>7, <3>1
    <3>3. MetadataOf(E, t) = CHOOSE m \in links : \A k \in links : k <= m
      BY <3>2 DEF MetadataOf
    <3> HIDE DEF links, linked
    <3>4. \E m \in links : \A k \in links : k <= m
      BY <3>2, LastTrack
    <3>5. MetadataOf(E, t) \in links
      BY <3>3, <3>4
    <3>6. shown.metadata[t] = MetadataOf(E, t)
      BY <2>3, <2>5 DEF Shown
    <3> QED  BY <3>1, <3>5, <3>6
  <2>8. shown.chapters =
          {u \in synced.filled : Types[u] = "chapters" /\
             \E t \in synced.filled : Types[t] # "metadata" /\
                                         Contains(synced.refs[t], u)}
    <3>1. shown.chapters = Chapters(E)
      BY <2>3 DEF Shown
    <3> QED  BY <2>5, <2>6, <3>1 DEF Chapters, OfType
  <2> QED  BY <2>7, <2>8
<1>2. ASSUME Inv, ReadInv, RefsInv PROVE LinksShown
  BY <1>1, <1>2 DEF LinksShown
<1> QED  BY <1>2, Inductive, ReadInductive, PTL
=============================================================================
