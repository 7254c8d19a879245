---------------------------- MODULE DemuxProofs -----------------------------
(***************************************************************************)
(* Proofs about Demux: the type invariant, that the times of a file are    *)
(* read back, that what is shown was decoded, that a seek finds what its   *)
(* method names, that the demuxer implements Playback, and what steps,     *)
(* reported sync samples and metadata samples are.  They hold for every    *)
(* number of tracks and of samples, all times and all timescales, but that *)
(* SyncsReported and StepsAreByOne need one that is not finer than a       *)
(* microsecond: two samples in the same one could not be told apart.       *)
(*                                                                         *)
(* They rest on TimesComeBack, about SampleTables: the decoding times that *)
(* a file gives back are those that were added.                            *)
(***************************************************************************)
EXTENDS Demux, Recursion, FiniteSetTheorems

-----------------------------------------------------------------------------
(* The entries of the table.                                               *)

Bits32 == 0 .. Wrap - 1

Entry == [count : Nat, delta : Bits32]

LEMMA ModType ==
  ASSUME NEW d \in Int, NEW w \in Nat \ {0}
  PROVE  d % w \in Nat /\ d % w < w
OBVIOUS

LEMMA Bits32Type ==
  /\ 0 \in Bits32
  /\ \A d \in Bits32 : d \in Nat /\ d <= Wrap - 1
BY TablesAssumption DEF TablesAssumption, Bits32

LEMMA DeltaType ==
  ASSUME NEW due \in Seq(Nat), NEW i \in 2 .. Len(due)
  PROVE  /\ Delta(due, i) \in Nat /\ Delta(due, i) < Wrap
         /\ Delta(due, i) \in Bits32
<1>1. Wrap \in Nat \ {0}
  BY TablesAssumption DEF TablesAssumption
<1>2. due[i] \in Nat /\ due[i - 1] \in Nat
  <2>1. i \in 1 .. Len(due) /\ i - 1 \in 1 .. Len(due)
    OBVIOUS
  <2> QED  BY <2>1
<1> DEFINE d == due[i] - due[i - 1]
<1>3. d \in Int
  BY <1>2
<1> HIDE DEF d
<1>4. d % Wrap \in Nat /\ d % Wrap < Wrap
  BY <1>1, <1>3, ModType
<1>5. d % Wrap \in Bits32
  BY <1>1, <1>4 DEF Bits32
<1> USE DEF d
<1> QED  BY <1>4, <1>5 DEF Delta

LEMMA CountedType ==
  ASSUME NEW due \in Seq(Nat), NEW before \in Seq(Entry),
         NEW i \in 1 .. Len(due)
  PROVE  Counted(due, before, i) \in Seq(Entry)
<1>1. CASE i <= 1
  BY <1>1 DEF Counted
<1>2. CASE ~(i <= 1) /\ Delta(due, i) # PreviousDelta(due, i)
  <2>1. [count |-> 1, delta |-> Delta(due, i)] \in Entry
    BY <1>2, DeltaType DEF Entry
  <2> QED  BY <1>2, <2>1 DEF Counted
<1>3. CASE ~(i <= 1) /\ Delta(due, i) = PreviousDelta(due, i)
  <2>1. CASE before = <<>>
    BY <1>3, <2>1 DEF Counted
  <2>2. CASE before # <<>>
    <3> DEFINE k == Len(before)
               new == [before[k] EXCEPT !.count = @ + 1]
    <3>1. k \in 1 .. Len(before)
      BY <2>2
    <3>2. before[k] \in Entry
      BY <3>1
    <3>3. new \in Entry
      <4> DEFINE e == before[k]
      <4>1. e \in Entry
        BY <3>2
      <4> HIDE DEF e, k
      <4>2. [e EXCEPT !.count = e.count + 1] \in Entry
        <5>1. /\ e.count \in Nat /\ e.delta \in Bits32
              /\ e = [count |-> e.count, delta |-> e.delta]
          BY <4>1 DEF Entry
        <5>2. [e EXCEPT !.count = e.count + 1]
                = [count |-> e.count + 1, delta |-> e.delta]
          BY <5>1
        <5>3. e.count + 1 \in Nat
          BY <5>1
        <5> QED  BY <5>1, <5>2, <5>3 DEF Entry
      <4> QED  BY <4>2 DEF e
    <3>4. Counted(due, before, i) = [before EXCEPT ![k] = new]
      BY <1>3, <2>2 DEF Counted
    <3> HIDE DEF k, new
    <3>5. [before EXCEPT ![k] = new] \in Seq(Entry)
      BY <3>1, <3>3
    <3> QED  BY <3>4, <3>5
  <2> QED  BY <2>1, <2>2
<1> QED  BY <1>1, <1>2, <1>3

LEMMA RunsUnfolds ==
  ASSUME NEW due \in Seq(Nat)
  PROVE  /\ \A i \in 0 .. Len(due) : Runs(due)[i] \in Seq(Entry)
         /\ Runs(due)[0] = <<>>
         /\ \A i \in 1 .. Len(due) :
              Runs(due)[i] = Counted(due, Runs(due)[i - 1], i)
<1> DEFINE m == Len(due)
           e(f, i) == IF i = 0 THEN <<>> ELSE Counted(due, f[i - 1], i)
           Eq(f) == f = [i \in 0 .. m |-> e(f, i)]
           step == [x \in Seq(Entry) \X (1 .. m) |-> Counted(due, x[1], x[2])]
           R == Runs(due)
<1>1. m \in Nat /\ <<>> \in Seq(Entry)
  OBVIOUS
<1>2. step \in [Seq(Entry) \X (1 .. m) -> Seq(Entry)]
  BY CountedType
<1>3. PICK f : Follows(f, Seq(Entry), m, <<>>, step)
  <2> HIDE DEF m, step
  <2> QED  BY <1>1, <1>2, Recursion
<1>4. Eq(f)
  <2>1. ASSUME NEW i \in 0 .. m PROVE f[i] = e(f, i)
    <3>1. CASE i = 0
      BY <1>3, <3>1 DEF Follows
    <3>2. CASE i # 0
      <4>1. i \in 1 .. m /\ i - 1 \in 0 .. m
        BY <1>1, <3>2
      <4>2. f[i - 1] \in Seq(Entry)
        BY <1>3, <4>1 DEF Follows
      <4>3. step[<<f[i - 1], i>>] = Counted(due, f[i - 1], i)
        BY <4>1, <4>2
      <4>4. f[i] = step[<<f[i - 1], i>>]
        BY <1>3, <4>1 DEF Follows
      <4> QED  BY <3>2, <4>3, <4>4
    <3> QED  BY <3>1, <3>2
  <2> QED  BY <1>3, <2>1 DEF Follows
<1>5. R = CHOOSE g : Eq(g)
  BY DEF Runs
<1>6. Eq(R)
  <2> HIDE DEF Eq, R
  <2> QED  BY <1>4, <1>5
<1> HIDE DEF R
<1>7. R[0] = <<>> /\ \A i \in 1 .. m : R[i] = Counted(due, R[i - 1], i)
  <2>1. 0 \in 0 .. m /\ \A i \in 1 .. m : i \in 0 .. m /\ i # 0
    BY <1>1
  <2>2. \A i \in 0 .. m : R[i] = e(R, i)
    BY <1>6
  <2> QED  BY <2>1, <2>2
<1>8. \A i \in 0 .. m : R[i] \in Seq(Entry)
  <2> DEFINE P == {i \in 0 .. m : R[i] \in Seq(Entry)}
  <2>1. 0 \in P
    <3>1. R[0] \in Seq(Entry)
      BY <1>1, <1>7
    <3>2. 0 \in 0 .. m
      BY <1>1
    <3> QED  BY <3>1, <3>2
  <2>2. ASSUME NEW i \in 1 .. m, i - 1 \in P PROVE i \in P
    <3>1. R[i] = Counted(due, R[i - 1], i) /\ R[i - 1] \in Seq(Entry)
      BY <1>7, <2>2
    <3>2. Counted(due, R[i - 1], i) \in Seq(Entry)
      BY <3>1, CountedType
    <3>3. i \in 0 .. m
      BY <1>1
    <3> QED  BY <3>1, <3>2, <3>3
  <2>3. \A i \in 0 .. m : i \in P
    <3> HIDE DEF P, m
    <3> QED  BY <1>1, <2>1, <2>2, Induction
  <2> QED  BY <2>3
<1> QED  BY <1>7, <1>8 DEF R

-----------------------------------------------------------------------------
(* The sequence of the deltas that the entries stand for.                  *)

LEMMA AppendFacts ==
  ASSUME NEW T, NEW s \in Seq(T), NEW e \in T
  PROVE  /\ Append(s, e) \in Seq(T) /\ Len(Append(s, e)) = Len(s) + 1
         /\ Append(s, e) # <<>> /\ Append(s, e)[Len(s) + 1] = e
         /\ \A i \in 1 .. Len(s) : Append(s, e)[i] = s[i]
         /\ Len(s) \in Nat
  OBVIOUS

LEMMA JoinFacts ==
  ASSUME NEW T, NEW s \in Seq(T), NEW t \in Seq(T)
  PROVE  /\ s \o t \in Seq(T) /\ Len(s \o t) = Len(s) + Len(t)
         /\ \A i \in 1 .. Len(s) : (s \o t)[i] = s[i]
  OBVIOUS

LEMMA PartsAppend ==
  ASSUME NEW seqs \in Seq(Seq(Bits32)), NEW s \in Seq(Bits32)
  PROVE  /\ FlattenSeq(seqs) \in Seq(Bits32)
         /\ FlattenSeq(Append(seqs, s)) = FlattenSeq(seqs) \o s
BY FlattenType, FlattenAppend DEF Lists

LEMMA FirstFacts ==
  ASSUME NEW T, NEW s \in Seq(T), NEW m \in Nat, m <= Len(s)
  PROVE  /\ SubSeq(s, 1, m) \in Seq(T) /\ Len(SubSeq(s, 1, m)) = m
         /\ \A i \in 1 .. m : SubSeq(s, 1, m)[i] = s[i]
  OBVIOUS

LEMMA SameSequence ==
  ASSUME NEW T, NEW s \in Seq(T), NEW t \in Seq(T), Len(s) = Len(t),
         \A i \in 1 .. Len(s) : s[i] = t[i]
  PROVE  s = t
<1>1. s = [i \in 1 .. Len(s) |-> s[i]] /\ t = [i \in 1 .. Len(s) |-> t[i]]
  OBVIOUS
<1> QED  BY <1>1

Copies(e) == [j \in 1 .. e.count |-> e.delta]
Parts(stts) == [k \in DOMAIN stts |-> Copies(stts[k])]

LEMMA DeltasOfParts ==
  ASSUME NEW stts PROVE Deltas(stts) = FlattenSeq(Parts(stts))
  BY DEF Deltas, Parts, Copies

LEMMA CopiesType ==
  ASSUME NEW e \in Entry PROVE Copies(e) \in Seq(Bits32) /\ Len(Copies(e)) = e.count
<1>1. e.count \in Nat /\ e.delta \in Bits32
  BY Bits32Type DEF Entry
<1> QED  BY <1>1 DEF Copies

LEMMA PartsType ==
  ASSUME NEW stts \in Seq(Entry)
  PROVE  Parts(stts) \in Seq(Seq(Bits32)) /\ Len(Parts(stts)) = Len(stts)
<1> DEFINE T == Seq(Bits32)
           c(k) == Copies(stts[k])
<1>1. ASSUME NEW k \in 1 .. Len(stts) PROVE c(k) \in T
  BY CopiesType
<1>2. DOMAIN stts = 1 .. Len(stts) /\ Len(stts) \in Nat
  OBVIOUS
<1>3. Parts(stts) = [k \in 1 .. Len(stts) |-> c(k)]
  BY <1>2 DEF Parts
<1> HIDE DEF T, c
<1>4. /\ [k \in 1 .. Len(stts) |-> c(k)] \in Seq(T)
      /\ Len([k \in 1 .. Len(stts) |-> c(k)]) = Len(stts)
  BY <1>1, <1>2
<1> QED  BY <1>3, <1>4 DEF T

LEMMA DeltasAppend ==
  ASSUME NEW stts \in Seq(Entry), NEW e \in Entry
  PROVE  /\ Deltas(stts) \in Seq(Bits32)
         /\ Deltas(Append(stts, e)) = Deltas(stts) \o Copies(e)
<1> DEFINE more == Append(stts, e)
           m == Len(stts)
<1>1. /\ more \in Seq(Entry) /\ Len(more) = m + 1 /\ more[m + 1] = e
      /\ \A i \in 1 .. m : more[i] = stts[i]
      /\ m \in Nat
  BY AppendFacts
<1>2. /\ Parts(stts) \in Seq(Seq(Bits32)) /\ Len(Parts(stts)) = m
      /\ Parts(more) \in Seq(Seq(Bits32)) /\ Len(Parts(more)) = m + 1
      /\ Copies(e) \in Seq(Bits32)
  <2> HIDE DEF more, m
  <2> QED  BY <1>1, PartsType, CopiesType DEF m
<1>3. Parts(more) = Append(Parts(stts), Copies(e))
  <2> DEFINE T == Seq(Bits32)
             p == Parts(stts)
             q == Parts(more)
             c == Copies(e)
  <2>1. p \in Seq(T) /\ Len(p) = m /\ q \in Seq(T) /\ Len(q) = m + 1 /\ c \in T
    BY <1>2
  <2>2. \A i \in 1 .. m : q[i] = p[i]
    <3>1. ASSUME NEW i \in 1 .. m PROVE q[i] = p[i]
      <4>1. i \in DOMAIN more /\ i \in DOMAIN stts
        BY <1>1
      <4>2. q[i] = Copies(more[i]) /\ p[i] = Copies(stts[i])
        BY <4>1 DEF Parts
      <4>3. more[i] = stts[i]
        BY <1>1
      <4> HIDE DEF more, p, q
      <4> QED  BY <4>2, <4>3
    <3> QED  BY <3>1
  <2>3. q[m + 1] = c
    <3>1. m + 1 \in DOMAIN more
      BY <1>1
    <3>2. q[m + 1] = Copies(more[m + 1])
      BY <3>1 DEF Parts
    <3> HIDE DEF more, q
    <3> QED  BY <1>1, <3>2
  <2>4. Append(p, c) \in Seq(T) /\ Len(Append(p, c)) = m + 1
        /\ Append(p, c)[m + 1] = c
        /\ \A i \in 1 .. m : Append(p, c)[i] = p[i]
    <3> HIDE DEF p, c, T, m
    <3> QED  BY <2>1, AppendFacts
  <2> DEFINE r == Append(p, c)
  <2>5. r \in Seq(T) /\ Len(r) = m + 1 /\ \A i \in 1 .. m + 1 : r[i] = q[i]
    <3>1. ASSUME NEW i \in 1 .. m + 1 PROVE r[i] = q[i]
      <4>1. i \in 1 .. m \/ i = m + 1
        BY <1>1
      <4> HIDE DEF p, c, q, m, r
      <4> QED  BY <2>2, <2>3, <2>4, <4>1 DEF r
    <3> QED  BY <2>4, <3>1
  <2> HIDE DEF r, q, T, m
  <2>6. r = q
    <3>1. r = [i \in 1 .. m + 1 |-> r[i]] /\ q = [i \in 1 .. m + 1 |-> q[i]]
      BY <2>1, <2>5
    <3> QED  BY <2>5, <3>1
  <2> QED  BY <2>6 DEF r, q
<1>4. /\ FlattenSeq(Parts(stts)) \in Seq(Bits32)
      /\ FlattenSeq(Append(Parts(stts), Copies(e)))
           = FlattenSeq(Parts(stts)) \o Copies(e)
  BY <1>2, PartsAppend
<1> HIDE DEF more
<1> QED  BY <1>3, <1>4, DeltasOfParts DEF more

(* One more of the last entry. *)
LEMMA DeltasGrow ==
  ASSUME NEW stts \in Seq(Entry), stts # <<>>
  PROVE  Deltas([stts EXCEPT ![Len(stts)].count = @ + 1])
           = Append(Deltas(stts), stts[Len(stts)].delta)
<1> DEFINE m == Len(stts)
           front == SubSeq(stts, 1, m - 1)
           e == stts[m]
           f == [e EXCEPT !.count = e.count + 1]
           grown == [stts EXCEPT ![m] = f]
<1>1. m \in Nat /\ m # 0 /\ m \in 1 .. Len(stts) /\ e \in Entry
  OBVIOUS
<1>2. /\ e.count \in Nat /\ e.delta \in Bits32 /\ f \in Entry
      /\ f.count = e.count + 1 /\ f.delta = e.delta
  <2> HIDE DEF e
  <2>1. /\ e.count \in Nat /\ e.delta \in Bits32
        /\ e = [count |-> e.count, delta |-> e.delta]
    BY <1>1 DEF Entry
  <2>2. f = [count |-> e.count + 1, delta |-> e.delta]
    BY <2>1
  <2>3. e.count + 1 \in Nat
    BY <2>1
  <2> QED  BY <2>1, <2>2, <2>3 DEF Entry
<1>3. /\ front \in Seq(Entry) /\ Len(front) = m - 1
      /\ \A i \in 1 .. m - 1 : front[i] = stts[i]
  <2>1. m - 1 \in Nat /\ m - 1 <= Len(stts)
    BY <1>1
  <2> QED  BY <2>1, FirstFacts
<1> HIDE DEF front, e, f
<1>4. stts = Append(front, e)
  BY <1>1, <1>3 DEF e
<1>5. grown = Append(front, f)
  <2> DEFINE s == Append(front, f)
  <2>1. /\ s \in Seq(Entry) /\ Len(s) = (m - 1) + 1 /\ s[(m - 1) + 1] = f
        /\ \A i \in 1 .. m - 1 : s[i] = front[i]
    BY <1>2, <1>3, AppendFacts
  <2>2. /\ grown \in Seq(Entry) /\ Len(grown) = m /\ grown[m] = f
        /\ \A i \in 1 .. m - 1 : grown[i] = stts[i]
    BY <1>1, <1>2
  <2> HIDE DEF s, grown, m
  <2>3. (m - 1) + 1 = m /\ \A i \in 1 .. m : i \in 1 .. m - 1 \/ i = m
    BY <1>1
  <2>4. \A i \in 1 .. Len(s) : s[i] = grown[i]
    BY <1>3, <2>1, <2>2, <2>3
  <2>5. s = grown
    BY <2>1, <2>2, <2>3, <2>4, SameSequence
  <2> QED  BY <2>5 DEF s
<1>6. Deltas(stts) = Deltas(front) \o Copies(e)
  BY <1>1, <1>3, <1>4, DeltasAppend
<1>7. Deltas(grown) = Deltas(front) \o Copies(f) /\ Deltas(front) \in Seq(Bits32)
  BY <1>2, <1>3, <1>5, DeltasAppend
<1>8. Copies(f) = Append(Copies(e), e.delta) /\ Copies(e) \in Seq(Bits32)
  <2> DEFINE c == e.count
             d == e.delta
             s == [j \in 1 .. c |-> d]
             t == [j \in 1 .. c + 1 |-> d]
  <2>1. c \in Nat /\ d \in Bits32
    BY <1>2
  <2>2. Copies(e) = s /\ Copies(f) = t
    BY <1>2 DEF Copies
  <2> HIDE DEF c, d
  <2>3. /\ s \in Seq(Bits32) /\ Len(s) = c /\ t \in Seq(Bits32) /\ Len(t) = c + 1
        /\ \A j \in 1 .. c : s[j] = d
        /\ \A j \in 1 .. c + 1 : t[j] = d
    BY <2>1
  <2> HIDE DEF s, t
  <2> DEFINE r == Append(s, d)
  <2>4. /\ r \in Seq(Bits32) /\ Len(r) = c + 1 /\ r[c + 1] = d
        /\ \A j \in 1 .. c : r[j] = s[j]
    BY <2>1, <2>3, AppendFacts
  <2> HIDE DEF r
  <2>5. \A j \in 1 .. c + 1 : j \in 1 .. c \/ j = c + 1
    BY <2>1
  <2>6. \A j \in 1 .. Len(r) : r[j] = t[j]
    BY <2>3, <2>4, <2>5
  <2>7. r = t
    BY <2>3, <2>4, <2>6, SameSequence
  <2> QED  BY <2>2, <2>3, <2>7 DEF r, d
<1>9. Deltas(front) \o Append(Copies(e), e.delta)
        = Append(Deltas(front) \o Copies(e), e.delta)
  <2> DEFINE a == Deltas(front)
             b == Copies(e)
             d == e.delta
  <2>1. a \in Seq(Bits32) /\ b \in Seq(Bits32) /\ d \in Bits32
    BY <1>2, <1>7, <1>8
  <2> HIDE DEF a, b, d
  <2>2. a \o Append(b, d) = Append(a \o b, d)
    BY <2>1
  <2> QED  BY <2>2 DEF a, b, d
<1>10. Deltas(grown) = Append(Deltas(stts), e.delta)
  BY <1>6, <1>7, <1>8, <1>9
<1>11. [stts EXCEPT ![m].count = @ + 1] = grown
  BY <1>1 DEF f, e
<1> QED  BY <1>10, <1>11 DEF e

LEMMA CountedDeltas ==
  ASSUME NEW due \in Seq(Nat), NEW before \in Seq(Entry),
         NEW i \in 2 .. Len(due),
         before = <<>> => Delta(due, i) # PreviousDelta(due, i),
         before # <<>> => before[Len(before)].delta = PreviousDelta(due, i)
  PROVE  LET after == Counted(due, before, i)
         IN /\ after \in Seq(Entry) /\ after # <<>>
            /\ after[Len(after)].delta = Delta(due, i)
            /\ Deltas(after) = Append(Deltas(before), Delta(due, i))
<1> DEFINE d == Delta(due, i)
           after == Counted(due, before, i)
           e == [count |-> 1, delta |-> d]
<1>1. d \in Bits32 /\ i \in 1 .. Len(due) /\ ~(i <= 1)
  BY DeltaType
<1>2. after \in Seq(Entry) /\ Deltas(before) \in Seq(Bits32)
  <2>1. after \in Seq(Entry)
    BY <1>1, CountedType
  <2>2. [count |-> 0, delta |-> 0] \in Entry
    BY Bits32Type DEF Entry
  <2>3. Deltas(before) \in Seq(Bits32)
    BY <2>2, DeltasAppend
  <2> QED  BY <2>1, <2>3
<1>3. CASE d # PreviousDelta(due, i)
  <2>1. after = Append(before, e)
    BY <1>1, <1>3 DEF Counted
  <2>2. e \in Entry /\ e.delta = d /\ Copies(e) = <<d>>
    <3>1. e \in Entry /\ e.delta = d /\ e.count = 1
      BY <1>1 DEF Entry
    <3> HIDE DEF e, d
    <3>2. Copies(e) = [j \in 1 .. 1 |-> d]
      BY <3>1 DEF Copies
    <3>3. [j \in 1 .. 1 |-> d] = <<d>>
      OBVIOUS
    <3> QED  BY <3>1, <3>2, <3>3
  <2> HIDE DEF e, after, d
  <2>3. after # <<>> /\ after[Len(after)] = e
    <3>1. Append(before, e) # <<>> /\ Append(before, e)[Len(Append(before, e))] = e
      BY <2>2, AppendFacts
    <3> QED  BY <2>1, <3>1
  <2>4. Deltas(after) = Append(Deltas(before), d)
    <3>1. Deltas(after) = Deltas(before) \o <<d>>
      BY <2>1, <2>2, DeltasAppend
    <3> DEFINE b == Deltas(before)
    <3> HIDE DEF b
    <3>2. b \o <<d>> = Append(b, d)
      BY <1>1, <1>2 DEF b
    <3> QED  BY <3>1, <3>2 DEF b
  <2> QED  BY <1>2, <2>2, <2>3, <2>4 DEF after, d
<1>4. CASE d = PreviousDelta(due, i)
  <2> DEFINE m == Len(before)
             l == before[m]
             f == [l EXCEPT !.count = l.count + 1]
  <2>1. before # <<>> /\ m \in 1 .. Len(before) /\ l.delta = d
    BY <1>4
  <2>2. after = [before EXCEPT ![m].count = @ + 1]
    BY <1>1, <1>4, <2>1 DEF Counted
  <2>3. Deltas(after) = Append(Deltas(before), d)
    <3> HIDE DEF after, d
    <3> QED  BY <2>1, <2>2, DeltasGrow
  <2>4. after # <<>> /\ Len(after) = m /\ after[m] = f
    <3>1. after = [before EXCEPT ![m] = f]
      BY <2>2
    <3> HIDE DEF after, f
    <3>2. /\ Len([before EXCEPT ![m] = f]) = m
          /\ [before EXCEPT ![m] = f][m] = f
      BY <2>1
    <3>3. m # 0
      BY <2>1
    <3> QED  BY <3>1, <3>2, <3>3
  <2>5. f.delta = l.delta
    <3>1. l \in Entry
      BY <2>1
    <3> HIDE DEF l
    <3> QED  BY <3>1 DEF Entry
  <2> HIDE DEF after, d, f, l
  <2> QED  BY <1>2, <2>1, <2>3, <2>4, <2>5 DEF after, d
<1> QED  BY <1>3, <1>4

(* What is counted up to sample i: every delta up to it, once. *)
CountedUpTo(due, i) ==
  LET runs == Runs(due)[i]
  IN /\ Deltas(runs) = [j \in 1 .. i - 1 |-> Delta(due, j + 1)]
     /\ IF i = 1 THEN runs = <<>>
        ELSE runs # <<>> /\ runs[Len(runs)].delta = Delta(due, i)

LEMMA RunsCount ==
  ASSUME NEW due \in Seq(Nat), Len(due) >= 2 => Delta(due, 2) # Wrap - 1,
         NEW i \in 1 .. Len(due)
  PROVE  CountedUpTo(due, i)
<1> DEFINE m == Len(due)
           R == Runs(due)
           P == {k \in 0 .. m - 1 : CountedUpTo(due, k + 1)}
<1>1. m \in Nat /\ m # 0 /\ m - 1 \in Nat /\ i - 1 \in 0 .. m - 1 /\ (i - 1) + 1 = i
  OBVIOUS
<1>2. /\ \A j \in 0 .. m : R[j] \in Seq(Entry)
      /\ \A j \in 1 .. m : R[j] = Counted(due, R[j - 1], j)
  BY RunsUnfolds
<1>3. 0 \in P
  <2>1. 1 \in 1 .. m /\ 0 \in 0 .. m - 1
    BY <1>1
  <2>2. R[1] = <<>>
    <3>1. R[1] = Counted(due, R[1 - 1], 1)
      BY <1>2, <2>1
    <3>2. Counted(due, R[1 - 1], 1) = <<>>
      BY DEF Counted
    <3> QED  BY <3>1, <3>2
  <2>3. Deltas(<<>>) = <<>>
    <3>1. Parts(<<>>) = <<>>
      BY DEF Parts
    <3>2. FlattenSeq(<<>>) = <<>>
      BY DEF FlattenSeq
    <3> QED  BY <3>1, <3>2, DeltasOfParts
  <2>4. [j \in 1 .. 1 - 1 |-> Delta(due, j + 1)] = <<>>
    OBVIOUS
  <2>5. CountedUpTo(due, 0 + 1)
    BY <2>2, <2>3, <2>4 DEF CountedUpTo
  <2> QED  BY <2>1, <2>5
<1>4. ASSUME NEW k \in 1 .. m - 1, k - 1 \in P PROVE k \in P
  <2> DEFINE before == R[k]
             n == k + 1
             d == Delta(due, n)
             after == R[n]
             s == [j \in 1 .. k - 1 |-> Delta(due, j + 1)]
             t == [j \in 1 .. k |-> Delta(due, j + 1)]
  <2>1. /\ n \in 2 .. m /\ n \in 1 .. m /\ n - 1 = k /\ k \in 0 .. m
        /\ k \in 0 .. m - 1 /\ k \in Nat /\ k # 0 /\ (k - 1) + 1 = k
    BY <1>1
  <2>2. /\ Deltas(before) = s
        /\ IF k = 1 THEN before = <<>>
           ELSE before # <<>> /\ before[Len(before)].delta = Delta(due, k)
    <3>1. CountedUpTo(due, (k - 1) + 1)
      BY <1>4
    <3>2. CountedUpTo(due, k)
      BY <2>1, <3>1
    <3> QED  BY <3>2 DEF CountedUpTo
  <2>3. before \in Seq(Entry) /\ after = Counted(due, before, n)
    BY <1>2, <2>1
  <2>4. before = <<>> => d # PreviousDelta(due, n)
    <3>1. before = <<>> => n = 2
      BY <2>1, <2>2
    <3>2. 2 <= Len(due)
      BY <2>1
    <3> QED  BY <3>1, <3>2 DEF PreviousDelta
  <2>5. before # <<>> => before[Len(before)].delta = PreviousDelta(due, n)
    <3>1. before # <<>> => n # 2 /\ before[Len(before)].delta = Delta(due, n - 1)
      BY <2>1, <2>2
    <3> QED  BY <3>1 DEF PreviousDelta
  <2> HIDE DEF before, after
  <2>6. /\ after # <<>> /\ after[Len(after)].delta = d
        /\ Deltas(after) = Append(Deltas(before), d)
    BY <2>1, <2>3, <2>4, <2>5, CountedDeltas
  <2>7. Append(s, d) = t
    <3>1. \A j \in 1 .. k : Delta(due, j + 1) \in Bits32
      <4>1. \A j \in 1 .. k : j + 1 \in 2 .. Len(due)
        BY <2>1
      <4> QED  BY <4>1, DeltaType
    <3>2. /\ s \in Seq(Bits32) /\ Len(s) = k - 1 /\ t \in Seq(Bits32) /\ Len(t) = k
          /\ \A j \in 1 .. k - 1 : s[j] = Delta(due, j + 1)
          /\ \A j \in 1 .. k : t[j] = Delta(due, j + 1)
          /\ d \in Bits32 /\ t[k] = d
      BY <2>1, <3>1
    <3> HIDE DEF s, t, d, n, m
    <3> DEFINE r == Append(s, d)
    <3>3. /\ r \in Seq(Bits32) /\ Len(r) = (k - 1) + 1 /\ r[(k - 1) + 1] = d
          /\ \A j \in 1 .. k - 1 : r[j] = s[j]
      BY <3>2, AppendFacts
    <3> HIDE DEF r
    <3>4. \A j \in 1 .. k : j \in 1 .. k - 1 \/ j = k
      BY <2>1
    <3>5. \A j \in 1 .. Len(r) : r[j] = t[j]
      BY <2>1, <3>2, <3>3, <3>4
    <3>6. r = t
      BY <2>1, <3>2, <3>3, <3>5, SameSequence
    <3> QED  BY <3>6 DEF r
  <2>8. CountedUpTo(due, n)
    <3>1. Deltas(R[n]) = [j \in 1 .. n - 1 |-> Delta(due, j + 1)]
      BY <2>1, <2>2, <2>6, <2>7 DEF after
    <3>2. R[n] # <<>> /\ R[n][Len(R[n])].delta = Delta(due, n) /\ n # 1
      BY <2>1, <2>6 DEF after
    <3> QED  BY <3>1, <3>2 DEF CountedUpTo
  <2> QED  BY <2>1, <2>8
<1>5. \A k \in 0 .. m - 1 : k \in P
  <2> HIDE DEF P, m
  <2> QED  BY <1>1, <1>3, <1>4, Induction
<1>6. i - 1 \in P
  BY <1>1, <1>5
<1> QED  BY <1>1, <1>6

(* The time to sample table holds the delta of every sample to the next    *)
(* one, and none for the last one.                                         *)
LEMMA TableDeltas ==
  ASSUME NEW due \in Seq(Nat), due # <<>>,
         Len(due) >= 2 => Delta(due, 2) # Wrap - 1
  PROVE  LET deltas == Deltas(TimeToSample(due))
         IN /\ deltas \in Seq(Bits32) /\ Len(deltas) = Len(due)
            /\ \A i \in 1 .. Len(due) - 1 : deltas[i] = Delta(due, i + 1)
<1> DEFINE m == Len(due)
           e == [count |-> 1, delta |-> 0]
           s == [j \in 1 .. m - 1 |-> Delta(due, j + 1)]
           runs == Runs(due)[m]
<1>1. m \in Nat /\ m \in 1 .. m /\ m \in 0 .. m
  OBVIOUS
<1>2. Deltas(runs) = s /\ runs \in Seq(Entry)
  BY <1>1, RunsCount, RunsUnfolds DEF CountedUpTo
<1>3. e \in Entry /\ Copies(e) = <<0>>
  <2>1. e \in Entry /\ e.count = 1 /\ e.delta = 0
    BY Bits32Type DEF Entry
  <2> HIDE DEF e
  <2>2. Copies(e) = [j \in 1 .. 1 |-> 0]
    BY <2>1 DEF Copies
  <2>3. [j \in 1 .. 1 |-> 0] = <<0>>
    OBVIOUS
  <2> QED  BY <2>1, <2>2, <2>3
<1>4. TimeToSample(due) = Append(runs, e)
  BY DEF TimeToSample
<1>5. /\ s \in Seq(Bits32) /\ Len(s) = m - 1
      /\ \A i \in 1 .. m - 1 : s[i] = Delta(due, i + 1)
  <2>1. \A j \in 1 .. m - 1 : Delta(due, j + 1) \in Bits32
    <3>1. \A j \in 1 .. m - 1 : j + 1 \in 2 .. Len(due)
      BY <1>1
    <3> QED  BY <3>1, DeltaType
  <2> QED  BY <1>1, <2>1
<1> HIDE DEF s, e, runs, m
<1>6. Deltas(TimeToSample(due)) = s \o <<0>>
  BY <1>2, <1>3, <1>4, DeltasAppend
<1>7. /\ s \o <<0>> \in Seq(Bits32) /\ Len(s \o <<0>>) = m
      /\ \A i \in 1 .. m - 1 : (s \o <<0>>)[i] = s[i]
  <2> DEFINE z == <<0>>
  <2>1. z \in Seq(Bits32) /\ Len(z) = 1
    BY Bits32Type
  <2> HIDE DEF z
  <2>2. /\ s \o z \in Seq(Bits32) /\ Len(s \o z) = m
        /\ \A i \in 1 .. m - 1 : (s \o z)[i] = s[i]
    <3>1. s \in Seq(Bits32) /\ z \in Seq(Bits32)
      BY <1>5, <2>1
    <3>2. /\ s \o z \in Seq(Bits32) /\ Len(s \o z) = Len(s) + Len(z)
          /\ \A i \in 1 .. Len(s) : (s \o z)[i] = s[i]
      BY <3>1, JoinFacts
    <3>3. Len(s) + Len(z) = m
      BY <1>1, <1>5, <2>1
    <3>4. \A i \in 1 .. m - 1 : (s \o z)[i] = s[i]
      BY <1>5, <3>2
    <3> QED  BY <3>2, <3>3, <3>4
  <2> QED  BY <2>2 DEF z
<1> QED  BY <1>5, <1>6, <1>7 DEF m

LEMMA ElapsedUnfolds ==
  ASSUME NEW delta \in Seq(Nat)
  PROVE  /\ \A i \in 0 .. Len(delta) : Elapsed(delta)[i] \in Nat
         /\ delta # <<>> => Elapsed(delta)[1] = 0
         /\ \A i \in 2 .. Len(delta) :
              Elapsed(delta)[i] = Elapsed(delta)[i - 1] + delta[i - 1]
<1> DEFINE m == Len(delta)
           to(x, i) == IF i <= 1 THEN 0 ELSE x + delta[i - 1]
           e(f, i) == IF i <= 1 THEN 0 ELSE f[i - 1] + delta[i - 1]
           Eq(f) == f = [i \in 0 .. m |-> e(f, i)]
           step == [x \in Nat \X (1 .. m) |-> to(x[1], x[2])]
           R == Elapsed(delta)
<1>1. m \in Nat /\ 0 \in Nat
  OBVIOUS
<1>2. ASSUME NEW x \in Nat, NEW i \in 1 .. m PROVE to(x, i) \in Nat
  <2>1. CASE i <= 1
    BY <2>1
  <2>2. CASE ~(i <= 1)
    <3>1. i - 1 \in 1 .. m
      BY <1>1, <2>2
    <3>2. delta[i - 1] \in Nat
      BY <3>1
    <3> QED  BY <2>2, <3>2
  <2> QED  BY <2>1, <2>2
<1>3. step \in [Nat \X (1 .. m) -> Nat]
  <2> HIDE DEF to
  <2> QED  BY <1>2
<1>4. PICK f : Follows(f, Nat, m, 0, step)
  <2> HIDE DEF m, step
  <2> QED  BY <1>1, <1>3, Recursion
<1>5. Eq(f)
  <2>1. ASSUME NEW i \in 0 .. m PROVE f[i] = e(f, i)
    <3>1. CASE i = 0
      BY <1>4, <3>1 DEF Follows
    <3>2. CASE i # 0
      <4>1. i \in 1 .. m /\ i - 1 \in 0 .. m
        BY <1>1, <3>2
      <4>2. f[i - 1] \in Nat /\ f[i] = step[<<f[i - 1], i>>]
        BY <1>4, <4>1 DEF Follows
      <4>3. step[<<f[i - 1], i>>] = to(f[i - 1], i)
        <5> HIDE DEF to
        <5> QED  BY <4>1, <4>2
      <4> QED  BY <4>2, <4>3
    <3> QED  BY <3>1, <3>2
  <2> QED  BY <1>4, <2>1 DEF Follows
<1>6. R = CHOOSE g : Eq(g)
  BY DEF Elapsed
<1>7. Eq(R)
  <2> HIDE DEF Eq, R
  <2> QED  BY <1>5, <1>6
<1> HIDE DEF R
<1>8. \A i \in 0 .. m : R[i] = e(R, i)
  BY <1>7
<1>9. \A i \in 0 .. m : R[i] \in Nat
  <2> DEFINE P == {i \in 0 .. m : R[i] \in Nat}
  <2>1. 0 \in P
    <3>1. 0 \in 0 .. m /\ 0 <= 1
      BY <1>1
    <3>2. R[0] = 0
      BY <1>8, <3>1
    <3> QED  BY <3>1, <3>2
  <2>2. ASSUME NEW i \in 1 .. m, i - 1 \in P PROVE i \in P
    <3>1. i \in 0 .. m /\ R[i - 1] \in Nat
      BY <1>1, <2>2
    <3>2. R[i] = to(R[i - 1], i)
      BY <1>8, <3>1
    <3>3. to(R[i - 1], i) \in Nat
      BY <1>2, <3>1
    <3> QED  BY <3>1, <3>2, <3>3
  <2>3. \A i \in 0 .. m : i \in P
    <3> HIDE DEF P, m
    <3> QED  BY <1>1, <2>1, <2>2, Induction
  <2> QED  BY <2>3
<1>10. delta # <<>> => R[1] = 0
  <2>1. delta # <<>> => 1 \in 0 .. m /\ 1 <= 1
    OBVIOUS
  <2> QED  BY <1>8, <2>1
<1>11. \A i \in 2 .. m : R[i] = R[i - 1] + delta[i - 1]
  <2>1. \A i \in 2 .. m : i \in 0 .. m /\ ~(i <= 1)
    BY <1>1
  <2> QED  BY <1>8, <2>1
<1> QED  BY <1>9, <1>10, <1>11 DEF R

LEMMA DurationType ==
  ASSUME NEW due \in Seq(Nat) PROVE Duration(due) \in Nat
<1> DEFINE m == Len(due)
           to(x, i) == IF i <= 1 THEN 0 ELSE x + Delta(due, i)
           e(f, i) == IF i <= 1 THEN 0 ELSE f[i - 1] + Delta(due, i)
           Eq(f) == f = [i \in 0 .. m |-> e(f, i)]
           step == [x \in Nat \X (1 .. m) |-> to(x[1], x[2])]
           R == CHOOSE g : Eq(g)
<1>1. m \in Nat /\ 0 \in Nat
  OBVIOUS
<1>2. ASSUME NEW x \in Nat, NEW i \in 1 .. m PROVE to(x, i) \in Nat
  <2>1. CASE i <= 1
    BY <2>1
  <2>2. CASE ~(i <= 1)
    <3>1. i \in 2 .. Len(due)
      BY <1>1, <2>2
    <3>2. Delta(due, i) \in Nat
      BY <3>1, DeltaType
    <3> QED  BY <2>2, <3>2
  <2> QED  BY <2>1, <2>2
<1>3. step \in [Nat \X (1 .. m) -> Nat]
  <2> HIDE DEF to
  <2> QED  BY <1>2
<1>4. PICK f : Follows(f, Nat, m, 0, step)
  <2> HIDE DEF m, step
  <2> QED  BY <1>1, <1>3, Recursion
<1>5. Eq(f)
  <2>1. ASSUME NEW i \in 0 .. m PROVE f[i] = e(f, i)
    <3>1. CASE i = 0
      BY <1>4, <3>1 DEF Follows
    <3>2. CASE i # 0
      <4>1. i \in 1 .. m /\ i - 1 \in 0 .. m
        BY <1>1, <3>2
      <4>2. f[i - 1] \in Nat /\ f[i] = step[<<f[i - 1], i>>]
        BY <1>4, <4>1 DEF Follows
      <4>3. step[<<f[i - 1], i>>] = to(f[i - 1], i)
        <5> HIDE DEF to
        <5> QED  BY <4>1, <4>2
      <4> QED  BY <4>2, <4>3
    <3> QED  BY <3>1, <3>2
  <2> QED  BY <1>4, <2>1 DEF Follows
<1>6. Duration(due) = R[m]
  BY DEF Duration
<1>7. Eq(R)
  <2> HIDE DEF Eq
  <2> QED  BY <1>5
<1> HIDE DEF R
<1>8. \A i \in 0 .. m : R[i] = e(R, i)
  BY <1>7
<1>9. \A i \in 0 .. m : R[i] \in Nat
  <2> DEFINE P == {i \in 0 .. m : R[i] \in Nat}
  <2>1. 0 \in P
    <3>1. 0 \in 0 .. m /\ 0 <= 1
      BY <1>1
    <3>2. R[0] = 0
      BY <1>8, <3>1
    <3> QED  BY <3>1, <3>2
  <2>2. ASSUME NEW i \in 1 .. m, i - 1 \in P PROVE i \in P
    <3>1. i \in 0 .. m /\ R[i - 1] \in Nat
      BY <1>1, <2>2
    <3>2. R[i] = to(R[i - 1], i)
      BY <1>8, <3>1
    <3>3. to(R[i - 1], i) \in Nat
      BY <1>2, <3>1
    <3> QED  BY <3>1, <3>2, <3>3
  <2>3. \A i \in 0 .. m : i \in P
    <3> HIDE DEF P, m
    <3> QED  BY <1>1, <2>1, <2>2, Induction
  <2> QED  BY <2>3
<1> QED  BY <1>1, <1>6, <1>9

LEMMA SmallMod ==
  ASSUME NEW d \in Nat, NEW w \in Nat \ {0}, d < w PROVE d % w = d
  OBVIOUS

LEMMA TableType ==
  ASSUME NEW due \in Seq(Nat)
  PROVE  TimeToSample(due) \in Seq(Entry)
<1>1. CASE due = <<>>
  BY <1>1 DEF TimeToSample
<1>2. CASE due # <<>>
  <2> DEFINE e == [count |-> 1, delta |-> 0]
             runs == Runs(due)[Len(due)]
  <2>1. Len(due) \in 0 .. Len(due)
    OBVIOUS
  <2>2. runs \in Seq(Entry) /\ e \in Entry
    BY <2>1, RunsUnfolds, Bits32Type DEF Entry
  <2>3. TimeToSample(due) = Append(runs, e)
    BY <1>2 DEF TimeToSample
  <2> HIDE DEF runs, e
  <2> QED  BY <2>2, <2>3, AppendFacts
<1> QED  BY <1>1, <1>2

(* The times of the demuxer begin at 0 and never go back. *)
LEMMA TimesType ==
  ASSUME NEW stts \in Seq(Entry)
  PROVE  LET ts == DecodingTimes(stts)
         IN /\ ts \in Seq(Nat) /\ Len(ts) = Len(Deltas(stts))
            /\ ts # <<>> => ts[1] = 0
            /\ \A i \in 2 .. Len(ts) : ts[i] = ts[i - 1] + Deltas(stts)[i - 1]
            /\ \A i \in 1 .. Len(ts) : ts[i] <= (i - 1) * (Wrap - 1)
            /\ \A i, j \in 1 .. Len(ts) : i <= j => ts[i] <= ts[j]
<1> DEFINE delta == Deltas(stts)
           ts == DecodingTimes(stts)
           m == Len(delta)
           R == Elapsed(delta)
<1>1. delta \in Seq(Bits32) /\ delta \in Seq(Nat) /\ m \in Nat
  <2>1. [count |-> 0, delta |-> 0] \in Entry
    BY Bits32Type DEF Entry
  <2>2. delta \in Seq(Bits32)
    BY <2>1, DeltasAppend
  <2> HIDE DEF delta
  <2>3. delta \in Seq(Nat)
    BY <2>2, Bits32Type
  <2> QED  BY <2>2, <2>3
<1>2. ts = [i \in 1 .. m |-> R[i]]
  BY DEF DecodingTimes
<1>3. /\ \A i \in 0 .. m : R[i] \in Nat
      /\ delta # <<>> => R[1] = 0
      /\ \A i \in 2 .. m : R[i] = R[i - 1] + delta[i - 1]
  BY <1>1, ElapsedUnfolds
<1>4. delta # <<>> <=> m # 0
  BY <1>1
<1>5. \A i \in 2 .. m : delta[i - 1] \in Nat
  BY <1>1
<1>11. \A i \in 1 .. m : delta[i] \in Bits32
  BY <1>1
<1> HIDE DEF delta, R, m
<1>6. /\ ts \in Seq(Nat) /\ Len(ts) = m /\ \A i \in 1 .. m : ts[i] = R[i]
  BY <1>1, <1>2, <1>3
<1> HIDE DEF ts
<1>7. ts # <<>> => ts[1] = 0
  <2>1. ts # <<>> => 1 \in 1 .. m /\ m # 0
    BY <1>1, <1>6
  <2> QED  BY <1>3, <1>4, <1>6, <2>1
<1>8. \A i \in 2 .. m : ts[i] = ts[i - 1] + delta[i - 1] /\ ts[i - 1] <= ts[i]
  <2>1. \A i \in 2 .. m : i \in 1 .. m /\ i - 1 \in 1 .. m
    BY <1>1
  <2>2. ASSUME NEW i \in 2 .. m PROVE ts[i] = ts[i - 1] + delta[i - 1]
    BY <1>3, <1>6, <2>1
  <2>3. ASSUME NEW i \in 2 .. m PROVE ts[i - 1] <= ts[i]
    <3>1. ts[i - 1] \in Nat /\ delta[i - 1] \in Nat
      BY <1>5, <1>6, <2>1
    <3> QED  BY <2>2, <3>1
  <2> QED  BY <2>2, <2>3
<1>9. ASSUME NEW i \in 1 .. m PROVE \A j \in 1 .. m : i <= j => ts[i] <= ts[j]
  <2> DEFINE P == {k \in 0 .. m - i : ts[i] <= ts[i + k]}
  <2>0. \A j \in 1 .. m : ts[j] \in Nat
    BY <1>6
  <2>1. 0 \in P
    <3>1. 0 \in 0 .. m - i /\ i + 0 = i
      BY <1>1
    <3>2. ts[i] <= ts[i]
      BY <2>0
    <3> QED  BY <3>1, <3>2
  <2>2. ASSUME NEW k \in 1 .. m - i, k - 1 \in P PROVE k \in P
    <3>1. /\ i + k \in 2 .. m /\ i + (k - 1) = (i + k) - 1 /\ k \in 0 .. m - i
          /\ i + k \in 1 .. m /\ (i + k) - 1 \in 1 .. m
      BY <1>1
    <3>2. ts[i] <= ts[i + (k - 1)]
      BY <2>2
    <3>3. ts[(i + k) - 1] <= ts[i + k] /\ ts[i] <= ts[(i + k) - 1]
      BY <1>8, <3>1, <3>2
    <3>4. ts[i] <= ts[i + k]
      BY <2>0, <3>1, <3>3
    <3> QED  BY <3>1, <3>4
  <2>3. \A k \in 0 .. m - i : k \in P
    <3>1. m - i \in Nat
      BY <1>1
    <3> HIDE DEF P
    <3> QED  BY <2>1, <2>2, <3>1, Induction
  <2>4. ASSUME NEW j \in 1 .. m, i <= j PROVE ts[i] <= ts[j]
    <3>1. j - i \in 0 .. m - i /\ i + (j - i) = j
      BY <1>1, <2>4
    <3>2. j - i \in P
      BY <2>3, <3>1
    <3> QED  BY <3>1, <3>2
  <2> QED  BY <2>4
<1>10. \A i \in 1 .. m : ts[i] <= (i - 1) * (Wrap - 1)
  <2> DEFINE w == Wrap - 1
             P == {k \in 0 .. m - 1 : ts[k + 1] <= k * w}
  <2>1. w \in Nat /\ \A d \in Bits32 : d \in Nat /\ d <= w
    BY TablesAssumption, Bits32Type DEF TablesAssumption
  <2> HIDE DEF w
  <2>2. CASE m = 0
    BY <2>2
  <2>3. CASE m # 0
    <3>1. m - 1 \in Nat
      BY <1>1, <2>3
    <3>2. 0 \in P
      <4>1. ts[1] = 0 /\ 0 * w = 0 /\ 0 + 1 = 1 /\ 0 \in 0 .. m - 1
        BY <1>1, <1>3, <1>4, <1>6, <2>1, <2>3
      <4> QED  BY <4>1
    <3>3. ASSUME NEW k \in 1 .. m - 1, k - 1 \in P PROVE k \in P
      <4>1. /\ k + 1 \in 2 .. m /\ (k + 1) - 1 = k /\ (k - 1) + 1 = k
            /\ k \in 1 .. m /\ k + 1 \in 1 .. m /\ k \in 0 .. m - 1
        BY <1>1
      <4>2. ts[k + 1] = ts[k] + delta[k] /\ ts[k] <= (k - 1) * w
        BY <1>8, <3>3, <4>1
      <4>3. delta[k] \in Nat /\ delta[k] <= w
        BY <1>11, <2>1, <4>1
      <4>4. (k - 1) * w + w = k * w /\ (k - 1) * w \in Nat /\ k * w \in Nat
        BY <2>1, <4>1
      <4>5. ts[k] \in Nat /\ ts[k + 1] \in Nat
        BY <1>6, <4>1
      <4> DEFINE a == (k - 1) * w
                 b == k * w
      <4>6. a + w = b /\ a \in Nat /\ b \in Nat /\ ts[k] <= a
        BY <4>2, <4>4
      <4> HIDE DEF a, b
      <4>7. ts[k + 1] <= b
        BY <2>1, <4>2, <4>3, <4>5, <4>6
      <4> USE DEF b
      <4> QED  BY <4>1, <4>7
    <3>4. \A k \in 0 .. m - 1 : k \in P
      <4> HIDE DEF P
      <4> QED  BY <3>1, <3>2, <3>3, Induction
    <3>5. ASSUME NEW i \in 1 .. m PROVE ts[i] <= (i - 1) * w
      <4>1. i - 1 \in 0 .. m - 1 /\ (i - 1) + 1 = i
        BY <1>1
      <4>2. i - 1 \in P
        BY <3>4, <4>1
      <4> QED  BY <4>1, <4>2
    <3> QED  BY <3>5 DEF w
  <2> QED  BY <2>2, <2>3
<1> QED  BY <1>6, <1>7, <1>8, <1>9, <1>10 DEF ts, m, delta

-----------------------------------------------------------------------------
(* The samples of mp4_mux_track_add_sample are found again by              *)
(* mp4_tracks_build at the times they were added at, from 0 on: for all    *)
(* times that do not go back and leave gaps below UINT32_MAX, the table    *)
(* counts every sample, however the runs of equal deltas fall.             *)
THEOREM TimesComeBack ==
  ASSUME NEW due \in Seq(Nat), due # <<>>,
         \A i \in 2 .. Len(due) :
           due[i - 1] <= due[i] /\ due[i] < due[i - 1] + Wrap - 1
  PROVE  /\ Buildable(TimeToSample(due), Len(due))
         /\ DecodingTimes(TimeToSample(due))
              = [i \in 1 .. Len(due) |-> due[i] - due[1]]
<1> DEFINE m == Len(due)
           stts == TimeToSample(due)
           delta == Deltas(stts)
           ts == DecodingTimes(stts)
<1>1. /\ m \in Nat /\ m # 0 /\ Wrap \in Nat \ {0}
      /\ \A i \in 1 .. m : due[i] \in Nat
  BY TablesAssumption DEF TablesAssumption
<1>2. ASSUME NEW i \in 2 .. m
      PROVE  Delta(due, i) = due[i] - due[i - 1] /\ Delta(due, i) # Wrap - 1
  <2> DEFINE d == due[i] - due[i - 1]
  <2>1. i \in 1 .. m /\ i - 1 \in 1 .. m
    BY <1>1
  <2>2. d \in 0 .. Wrap - 2
    BY <1>1, <2>1
  <2>3. d % Wrap = d
    <3>1. d \in Nat /\ d < Wrap
      BY <1>1, <2>2
    <3> QED  BY <1>1, <3>1, SmallMod
  <2> QED  BY <1>1, <2>2, <2>3 DEF Delta
<1>3. Len(due) >= 2 => Delta(due, 2) # Wrap - 1
  <2>1. Len(due) >= 2 => 2 \in 2 .. m
    BY <1>1
  <2> QED  BY <1>2, <2>1
<1>4. /\ delta \in Seq(Bits32) /\ Len(delta) = m
      /\ \A i \in 1 .. m - 1 : delta[i] = Delta(due, i + 1)
  BY <1>3, TableDeltas
<1>5. Buildable(stts, m)
  <2>1. m > 0
    BY <1>1
  <2> QED  BY <1>4, <2>1 DEF Buildable
<1>6. /\ ts \in Seq(Nat) /\ Len(ts) = m
      /\ ts # <<>> => ts[1] = 0
      /\ \A i \in 2 .. m : ts[i] = ts[i - 1] + delta[i - 1]
  <2>1. stts \in Seq(Entry)
    BY TableType
  <2> HIDE DEF stts
  <2> QED  BY <1>4, <2>1, TimesType DEF stts
<1>7. \A i \in 1 .. m : ts[i] = due[i] - due[1]
  <2> HIDE DEF ts, delta
  <2> DEFINE P == {k \in 0 .. m - 1 : ts[k + 1] = due[k + 1] - due[1]}
  <2>1. 0 \in P
    <3>1. 0 \in 0 .. m - 1 /\ 0 + 1 = 1 /\ 1 \in 1 .. m /\ ts # <<>>
      BY <1>1, <1>6
    <3>2. ts[1] = due[1] - due[1]
      BY <1>1, <1>6, <3>1
    <3> QED  BY <3>1, <3>2
  <2>2. ASSUME NEW k \in 1 .. m - 1, k - 1 \in P PROVE k \in P
    <3>1. /\ k + 1 \in 2 .. m /\ (k - 1) + 1 = k /\ (k + 1) - 1 = k
          /\ k \in 0 .. m - 1 /\ k \in 1 .. m /\ k + 1 \in 1 .. m /\ 1 \in 1 .. m
      BY <1>1
    <3>2. ts[k] = due[k] - due[1]
      BY <2>2, <3>1
    <3>3. ts[k + 1] = ts[k] + delta[k]
      BY <1>6, <3>1
    <3>4. delta[k] = due[k + 1] - due[k]
      <4>1. delta[k] = Delta(due, k + 1)
        BY <1>4
      <4>2. Delta(due, k + 1) = due[k + 1] - due[(k + 1) - 1]
        BY <1>2, <3>1
      <4> QED  BY <3>1, <4>1, <4>2
    <3>5. due[k] \in Nat /\ due[k + 1] \in Nat /\ due[1] \in Nat
      BY <1>1, <3>1
    <3>6. ts[k + 1] = due[k + 1] - due[1]
      BY <3>2, <3>3, <3>4, <3>5
    <3> QED  BY <3>1, <3>6
  <2>3. \A k \in 0 .. m - 1 : k \in P
    <3>1. m - 1 \in Nat
      BY <1>1
    <3> HIDE DEF P, m
    <3> QED  BY <2>1, <2>2, <3>1, Induction
  <2>4. ASSUME NEW i \in 1 .. m PROVE ts[i] = due[i] - due[1]
    <3>1. i - 1 \in 0 .. m - 1 /\ (i - 1) + 1 = i
      BY <1>1
    <3>2. i - 1 \in P
      BY <2>3, <3>1
    <3> QED  BY <3>1, <3>2
  <2> QED  BY <2>4
<1>8. ts = [i \in 1 .. m |-> due[i] - due[1]]
  <2> HIDE DEF ts
  <2>1. ts = [i \in 1 .. m |-> ts[i]]
    BY <1>6
  <2> QED  BY <1>7, <2>1
<1> QED  BY <1>5, <1>8

-----------------------------------------------------------------------------
(* The invariant.                                                          *)

Ascending(s) == \A i, j \in 1 .. Len(s) : i <= j => s[i] <= s[j]

(* What a file that can be opened is opened as. *)
Opened(t) ==
  /\ Buildable(TimeToSample(dts[t]), Len(dts[t]))
  /\ times[t] = DecodingTimes(TimeToSample(dts[t]))

Untouched(t) ==
  /\ times[t] = <<>> /\ nextSample[t] = 1 /\ pendingSeekTime[t] = 0
  /\ decoded[t] = Loose

DemuxInv ==
  /\ TypeOK
  /\ nextSample \in [Tracks -> Nat] /\ pendingSeekTime \in [Tracks -> Nat]
  /\ decoded \in [Tracks -> Int]
  /\ \A t \in Tracks : /\ Ascending(dts[t]) /\ Len(dts[t]) <= MaxSamples[t]
                       /\ keys[t] \subseteq 1 .. Len(dts[t])
  /\ phase \in {"mux", "refused"} => \A t \in Tracks : Untouched(t)
  /\ phase \in {"open", "killed"} => \A t \in Tracks : Opened(t)
  /\ phase = "refused" =>
       \E t \in Tracks : ~Buildable(TimeToSample(dts[t]), Len(dts[t]))

-----------------------------------------------------------------------------
(* The least and the greatest number of a set.                             *)

LEMMA LeastFacts ==
  ASSUME NEW S \in SUBSET Nat
  PROVE  /\ S = {} => Least(S) = 0
         /\ S # {} => Least(S) \in S /\ \A j \in S : Least(S) <= j
<1>1. S # {} => \E i \in S : \A j \in S : i <= j
  BY LeastNumber
<1> QED  BY <1>1 DEF Least

LEMMA LeastIs ==
  ASSUME NEW S \in SUBSET Nat, NEW i \in S, \A j \in S : i <= j
  PROVE  Least(S) = i
<1>1. Least(S) \in S /\ \A j \in S : Least(S) <= j
  BY LeastFacts
<1>2. Least(S) <= i /\ i <= Least(S) /\ Least(S) \in Nat
  BY <1>1
<1> QED  BY <1>2

LEMMA GreatestFacts ==
  ASSUME NEW n \in Nat, NEW S \in SUBSET (0 .. n)
  PROVE  /\ S = {} => Greatest(S) = 0
         /\ S # {} => Greatest(S) \in S /\ \A j \in S : j <= Greatest(S)
<1>1. ASSUME S # {} PROVE \E i \in S : \A j \in S : j <= i
  <2> DEFINE T == {k \in 0 .. n : n - k \in S}
  <2>1. T \in SUBSET Nat /\ T # {}
    <3>1. PICK i \in S : TRUE
      BY <1>1
    <3>2. n - i \in 0 .. n /\ n - (n - i) = i
      BY <3>1
    <3>3. n - i \in T
      BY <3>2
    <3>4. T \in SUBSET Nat
      OBVIOUS
    <3> HIDE DEF T
    <3> QED  BY <3>3, <3>4
  <2>2. PICK k \in T : \A l \in T : k <= l
    <3> HIDE DEF T
    <3> QED  BY <2>1, LeastNumber
  <2>3. n - k \in S /\ k \in 0 .. n
    BY <2>2
  <2>4. ASSUME NEW j \in S PROVE j <= n - k
    <3>1. j \in 0 .. n /\ n - j \in 0 .. n /\ n - (n - j) = j
      OBVIOUS
    <3>2. n - j \in T
      BY <3>1
    <3>3. k <= n - j
      BY <2>2, <3>2
    <3> QED  BY <2>3, <3>1, <3>3
  <2> QED  BY <2>3, <2>4
<1> QED  BY <1>1 DEF Greatest

LEMMA GreatestIs ==
  ASSUME NEW n \in Nat, NEW S \in SUBSET (0 .. n),
         NEW i \in S, \A j \in S : j <= i
  PROVE  Greatest(S) = i
<1>1. Greatest(S) \in S /\ \A j \in S : j <= Greatest(S)
  BY GreatestFacts
<1> DEFINE g == Greatest(S)
<1> HIDE DEF g
<1>2. \A j \in S : j \in Nat
  OBVIOUS
<1>3. g \in S /\ i <= g
  BY <1>1 DEF g
<1>4. g <= i /\ g \in Nat /\ i \in Nat
  BY <1>2, <1>3
<1>5. g = i
  BY <1>3, <1>4
<1> QED  BY <1>5 DEF g

-----------------------------------------------------------------------------
(* The times of an open file.                                              *)

LEMMA OpenTimes ==
  ASSUME DemuxInv, phase = "open", NEW t \in Tracks
  PROVE  /\ dts[t] \in Seq(Nat) /\ times[t] \in Seq(Nat)
         /\ Count(t) \in Nat \ {0} /\ Count(t) = Len(dts[t])
         /\ \A i \in Samples(t) : times[t][i] \in Nat
         /\ times[t][1] = 0 /\ 1 \in Samples(t)
         /\ \A i, j \in Samples(t) : i <= j => times[t][i] <= times[t][j]
         /\ \A i \in Samples(t) : times[t][i] <= (i - 1) * (Wrap - 1)
         /\ keys[t] \subseteq Samples(t)
<1> DEFINE stts == TimeToSample(dts[t])
           ts == DecodingTimes(stts)
<1>1. dts[t] \in Seq(Nat) /\ keys[t] \subseteq 1 .. Len(dts[t])
  BY DEF DemuxInv, TypeOK
<1>2. /\ times[t] = ts /\ Len(dts[t]) > 0
      /\ Len(Deltas(stts)) = Len(dts[t])
  BY DEF DemuxInv, Opened, Buildable
<1>3. stts \in Seq(Entry)
  BY <1>1, TableType
<1> HIDE DEF stts
<1>4. /\ ts \in Seq(Nat) /\ Len(ts) = Len(Deltas(stts))
      /\ ts # <<>> => ts[1] = 0
      /\ \A i \in 1 .. Len(ts) : ts[i] <= (i - 1) * (Wrap - 1)
      /\ \A i, j \in 1 .. Len(ts) : i <= j => ts[i] <= ts[j]
  BY <1>3, TimesType
<1> HIDE DEF ts
<1>5. Len(ts) \in Nat \ {0} /\ ts # <<>> /\ 1 \in 1 .. Len(ts)
  BY <1>1, <1>2, <1>4
<1>6. \A i \in 1 .. Len(ts) : ts[i] \in Nat
  BY <1>4
<1> QED  BY <1>1, <1>2, <1>4, <1>5, <1>6 DEF Count, Samples

LEMMA Constants ==
  /\ Usec \in Nat \ {0} /\ Wrap \in Nat \ {0}
  /\ \A t \in Tracks : /\ Timescale[t] \in Nat \ {0}
                       /\ Metadata[t] = 0 \/ Metadata[t] \in Tracks
                       /\ MaxSamples[t] \in Nat /\ t \in Nat \ {0}
  /\ Dts \subseteq Nat /\ Sought \subseteq Nat /\ Video \subseteq Tracks
  /\ \A t \in Tracks : 1 .. t \subseteq Tracks
<1>1. Cardinality(Tracks) \in Nat
  BY TracksAssumption, FS_CardinalityType DEF TracksAssumption
<1>2. \A t \in Tracks : t \in Nat \ {0} /\ 1 .. t \subseteq Tracks
  BY <1>1, TracksAssumption DEF TracksAssumption
<1> QED  BY <1>2, TracksAssumption, TablesAssumption
         DEF TracksAssumption, TablesAssumption

-----------------------------------------------------------------------------
(* Where a seek goes.                                                      *)

LEMMA DivType ==
  ASSUME NEW a \in Nat, NEW b \in Nat \ {0} PROVE a \div b \in Nat
  OBVIOUS

LEMMA ProductType ==
  ASSUME NEW a \in Nat, NEW b \in Nat PROVE a * b \in Nat
  OBVIOUS

LEMMA UsecToSampleTimeType ==
  ASSUME NEW time \in Nat, NEW scale \in Nat
  PROVE  UsecToSampleTime(time, scale) \in Nat
<1> DEFINE p == time * scale
<1>1. p \in Nat /\ Usec \in Nat \ {0}
  BY ProductType, Constants
<1> HIDE DEF p
<1>2. Usec \div 2 \in Nat
  BY <1>1, DivType
<1>3. p + Usec \div 2 \in Nat
  BY <1>1, <1>2
<1>4. (p + Usec \div 2) \div Usec \in Nat
  BY <1>1, <1>3, DivType
<1> QED  BY <1>4 DEF UsecToSampleTime, p

LEMMA SampleTimeToUsecType ==
  ASSUME NEW time \in Nat, NEW scale \in Nat \ {0}
  PROVE  SampleTimeToUsec(time, scale) \in Nat
<1> DEFINE p == time * Usec
<1>1. p \in Nat
  BY ProductType, Constants
<1> HIDE DEF p
<1>2. scale \div 2 \in Nat
  BY DivType
<1>3. p + scale \div 2 \in Nat
  BY <1>1, <1>2
<1>4. (p + scale \div 2) \div scale \in Nat
  BY <1>3, DivType
<1> QED  BY <1>4 DEF SampleTimeToUsec, p

LEMMA EstimateType ==
  ASSUME DemuxInv, phase = "open", NEW t \in Tracks, NEW ts \in Nat
  PROVE  Estimate(t, ts) \in Samples(t)
<1> DEFINE n == Count(t)
           d == duration[t]
           p == n * ts
           index == IF d = 0 THEN 0 ELSE (p + d - 1) \div d
<1>1. n \in Nat \ {0} /\ d \in Nat
  BY OpenTimes DEF DemuxInv, TypeOK
<1>2. p \in Nat
  BY <1>1, ProductType
<1> HIDE DEF n, d, p
<1>3. ASSUME d = 0 PROVE index \in Nat
  BY <1>3
<1>4. ASSUME d # 0 PROVE index \in Nat
  <2>1. p + d - 1 \in Nat /\ d \in Nat \ {0}
    BY <1>1, <1>2, <1>4
  <2> DEFINE a == p + d - 1
  <2> HIDE DEF a
  <2>2. a \div d \in Nat
    BY <2>1, DivType DEF a
  <2> QED  BY <1>4, <2>2 DEF a
<1>5. index \in Nat
  BY <1>3, <1>4
<1>6. Estimate(t, ts) = IF index < n THEN index + 1 ELSE n
  BY DEF Estimate, n, d, p
<1> HIDE DEF index
<1>7. Estimate(t, ts) \in 1 .. n
  BY <1>1, <1>5, <1>6
<1> QED  BY <1>7 DEF Samples, n

(* The search for a time goes to the first sample that is not before it or *)
(* to the last one, and from there back to one that is not after it.       *)
LEMMA SeekStartFacts ==
  ASSUME DemuxInv, phase = "open", NEW t \in Tracks, NEW ts \in Nat
  PROVE  /\ SeekStart(t, ts) \in Samples(t)
         /\ times[t][SeekStart(t, ts)] <= ts
         /\ \E forward \in Samples(t) :
              /\ times[t][forward] >= ts \/ forward = Count(t)
              /\ \A i \in 1 .. forward :
                   times[t][i] <= ts => i <= SeekStart(t, ts)
<1> DEFINE n == Count(t)
           e == Estimate(t, ts)
           T == {i \in e .. n : times[t][i] >= ts \/ i = n}
           forward == Least(T)
           S == {i \in 1 .. forward : times[t][i] <= ts}
<1>1. n \in Nat \ {0} /\ times[t][1] = 0
  BY OpenTimes
<1>2. e \in 1 .. n
  BY EstimateType DEF Samples
<1> HIDE DEF n, e
<1>3. T \in SUBSET Nat /\ n \in T
  BY <1>1, <1>2
<1>4. forward \in T
  <2> HIDE DEF T
  <2> QED  BY <1>3, LeastFacts
<1>5. forward \in 1 .. n /\ (times[t][forward] >= ts \/ forward = n)
  BY <1>1, <1>2, <1>4
<1>6. SeekStart(t, ts) = Greatest(S)
  BY DEF SeekStart, n, e
<1> HIDE DEF T, forward
<1>7. S \in SUBSET (0 .. n) /\ 1 \in S
  BY <1>1, <1>5
<1>8. Greatest(S) \in S /\ \A j \in S : j <= Greatest(S)
  <2> HIDE DEF S
  <2> QED  BY <1>1, <1>7, GreatestFacts
<1> DEFINE g == Greatest(S)
<1>9. g \in 1 .. forward /\ times[t][g] <= ts
  BY <1>8
<1>10. \A i \in 1 .. forward : times[t][i] <= ts => i <= g
  BY <1>8
<1> HIDE DEF g
<1>11. g \in 1 .. n
  BY <1>1, <1>5, <1>9
<1> QED  BY <1>5, <1>6, <1>9, <1>10, <1>11 DEF g, n, Samples

Exact(method) == method \in {"previous_sync", "nearest_sync", "next_sync"}

Found(t, ts, method) == SeekSample(t, SeekStart(t, ts), ts, method)

LEMMA LeastOfSamples ==
  ASSUME NEW n \in Nat, NEW S \in SUBSET (1 .. n)
  PROVE  Least(S) \in {0} \cup S
<1>1. S \in SUBSET Nat
  OBVIOUS
<1> QED  BY <1>1, LeastFacts

LEMMA InRange ==
  ASSUME NEW n \in Nat, NEW S \in SUBSET (1 .. n), NEW l \in {0} \cup S
  PROVE  l \in 0 .. n
OBVIOUS

LEMMA PrevSyncFacts ==
  ASSUME DemuxInv, phase = "open", NEW t \in Tracks, NEW i \in Samples(t)
  PROVE  /\ PrevSync(t, i) \in {0} \cup {j \in keys[t] : j < i}
         /\ PrevSync(t, i) = 0 => \A j \in keys[t] : ~(j < i)
<1> DEFINE S == {j \in keys[t] : j < i}
<1>1. Count(t) \in Nat /\ keys[t] \subseteq 1 .. Count(t)
  BY OpenTimes DEF Samples
<1>2. S \in SUBSET (0 .. Count(t)) /\ \A j \in S : j # 0
  BY <1>1
<1>3. PrevSync(t, i) = Greatest(S)
  BY DEF PrevSync
<1> HIDE DEF S
<1>4. /\ S = {} => Greatest(S) = 0
      /\ S # {} => Greatest(S) \in S
  BY <1>1, <1>2, GreatestFacts
<1>5. Greatest(S) \in {0} \cup S /\ (Greatest(S) = 0 => S = {})
  BY <1>2, <1>4
<1> QED  BY <1>3, <1>5 DEF S

LEMMA FoundType ==
  ASSUME DemuxInv, phase = "open", NEW t \in Tracks, NEW ts \in Nat,
         NEW method \in Methods
  PROVE  /\ Found(t, ts, method) \in 0 .. Count(t)
         /\ Exact(method) /\ Found(t, ts, method) # 0
              => IsSync(t, Found(t, ts, method))
<1> DEFINE start == SeekStart(t, ts)
           n == Count(t)
           found == SeekSample(t, start, ts, method)
<1>1. n \in Nat \ {0} /\ start \in 1 .. n /\ keys[t] \subseteq 1 .. n
  BY OpenTimes, SeekStartFacts DEF Samples
<1>2. start \in Samples(t)
  BY SeekStartFacts
<1> HIDE DEF start
<1>3. ASSUME NEW sync \in BOOLEAN
      PROVE  /\ FindAfter(t, times[t][start], sync, start) \in 0 .. n
             /\ sync /\ FindAfter(t, times[t][start], sync, start) # 0
                  => IsSync(t, FindAfter(t, times[t][start], sync, start))
  <2> DEFINE S == {i \in start .. n :
                     times[t][i] > times[t][start] /\ Searchable(t, i, sync)}
  <2>1. FindAfter(t, times[t][start], sync, start) = Least(S)
    BY DEF FindAfter, n
  <2>2. S \in SUBSET (1 .. n) /\ \A i \in S : sync => IsSync(t, i)
    BY <1>1 DEF Searchable
  <2> HIDE DEF S
  <2>3. Least(S) \in {0} \cup S
    BY <1>1, <2>2, LeastOfSamples
  <2>4. Least(S) \in 0 .. n
    BY <1>1, <2>2, <2>3, InRange
  <2>5. sync /\ Least(S) # 0 => IsSync(t, Least(S))
    <3> HIDE DEF n, start
    <3> QED  BY <2>2, <2>3
  <2> QED  BY <2>1, <2>4, <2>5
<1>4. ASSUME NEW sync \in BOOLEAN
      PROVE  /\ FindNearest(t, ts, sync, start) \in 0 .. n
             /\ sync /\ FindNearest(t, ts, sync, start) # 0
                  => IsSync(t, FindNearest(t, ts, sync, start))
  <2> DEFINE away == [i \in Samples(t) |-> Gap(times[t][i], ts)]
             all == {i \in start .. Count(t) : Searchable(t, i, sync)}
             visited == {i \in all : \A j, k \in all :
                           j < k /\ k < i => away[k] <= away[j]}
             S == {i \in visited : \A j \in visited : away[i] <= away[j]}
  <2>1. FindNearest(t, ts, sync, start) = Least(S)
    BY DEF FindNearest
  <2>2. S \in SUBSET all
    OBVIOUS
  <2>3. \A i \in all : i \in 1 .. n /\ (sync => IsSync(t, i))
    BY <1>1 DEF Searchable, n
  <2> HIDE DEF S, all
  <2>4. S \in SUBSET (1 .. n) /\ \A i \in S : sync => IsSync(t, i)
    BY <2>2, <2>3
  <2>5. Least(S) \in {0} \cup S
    BY <1>1, <2>4, LeastOfSamples
  <2>6. Least(S) \in 0 .. n
    BY <1>1, <2>4, <2>5, InRange
  <2>7. sync /\ Least(S) # 0 => IsSync(t, Least(S))
    <3> HIDE DEF n, start, visited, away
    <3> QED  BY <2>4, <2>5
  <2> QED  BY <2>1, <2>6, <2>7
<1>5. PrevSync(t, start) \in 0 .. n
      /\ (PrevSync(t, start) # 0 => IsSync(t, PrevSync(t, start)))
  <2>1. PrevSync(t, start) = 0 \/ PrevSync(t, start) \in keys[t]
    BY <1>2, PrevSyncFacts
  <2> QED  BY <1>1, <2>1 DEF IsSync
<1>6. found \in 0 .. n /\ (Exact(method) /\ found # 0 => IsSync(t, found))
  <2>1. CASE method = "previous"
    BY <1>1, <2>1 DEF SeekSample, Exact
  <2>2. CASE method = "previous_sync"
    <3>1. found = IF IsSync(t, start) THEN start
                  ELSE IF PrevSync(t, start) # 0 THEN PrevSync(t, start)
                  ELSE FindAfter(t, times[t][start], TRUE, start)
      BY <2>2 DEF SeekSample
    <3>2. start \in 0 .. n
      BY <1>1
    <3>3. /\ FindAfter(t, times[t][start], TRUE, start) \in 0 .. n
          /\ FindAfter(t, times[t][start], TRUE, start) # 0
               => IsSync(t, FindAfter(t, times[t][start], TRUE, start))
      BY <1>3
    <3> QED  BY <1>5, <3>1, <3>2, <3>3
  <2>3. CASE method = "nearest"
    BY <1>4, <2>3 DEF SeekSample, Exact
  <2>4. CASE method = "nearest_sync"
    BY <1>4, <2>4 DEF SeekSample
  <2>5. CASE method = "next"
    BY <1>3, <2>5 DEF SeekSample, Exact
  <2>6. CASE method = "next_sync"
    BY <1>3, <2>6 DEF SeekSample
  <2> QED  BY <2>1, <2>2, <2>3, <2>4, <2>5, <2>6 DEF Methods
<1> QED  BY <1>6 DEF Found, start, n

-----------------------------------------------------------------------------
(* A seek, track by track.                                                 *)

At(t, time) == UsecToSampleTime(time, Timescale[t])

Moves(t, time, method) ==
  \A u \in 1 .. t : Found(u, At(u, time), method) # 0

Moved(t, time, method) ==
  /\ Found(t, At(t, time), method) # 0
  /\ nextSample'[t] = Found(t, At(t, time), method)
  /\ pendingSeekTime'[t]
       = IF Found(t, At(t, time), method) = SeekStart(t, At(t, time)) THEN 0
         ELSE times[t][SeekStart(t, At(t, time))]
  /\ decoded'[t] = IF Exact(method) THEN Lost ELSE Loose

Stays(t) ==
  /\ nextSample'[t] = nextSample[t]
  /\ pendingSeekTime'[t] = pendingSeekTime[t]
  /\ decoded'[t] = decoded[t]

LEMMA SeekOfEach ==
  ASSUME NEW time, NEW method, SeekTo(time, method), NEW t \in Tracks
  PROVE  IF Moves(t, time, method) THEN Moved(t, time, method) ELSE Stays(t)
<1> DEFINE ts == [u \in Tracks |-> UsecToSampleTime(time, Timescale[u])]
           start == [u \in Tracks |-> SeekStart(u, ts[u])]
           found == [u \in Tracks |-> SeekSample(u, start[u], ts[u], method)]
           moved == {u \in Tracks : \A v \in 1 .. u : found[v] # 0}
           exact == method \in {"previous_sync", "nearest_sync", "next_sync"}
<1>1. /\ nextSample' =
           [u \in Tracks |-> IF u \in moved THEN found[u] ELSE nextSample[u]]
      /\ pendingSeekTime' =
           [u \in Tracks |-> IF u \notin moved THEN pendingSeekTime[u]
                             ELSE IF found[u] = start[u] THEN 0
                             ELSE times[u][start[u]]]
      /\ decoded' =
           [u \in Tracks |-> IF u \notin moved THEN decoded[u]
                             ELSE IF exact THEN Lost ELSE Loose]
  BY DEF SeekTo
<1>2. ASSUME NEW u \in Tracks
      PROVE  found[u] = Found(u, At(u, time), method)
             /\ start[u] = SeekStart(u, At(u, time))
  BY DEF Found, At
<1>3. 1 .. t \subseteq Tracks /\ t \in 1 .. t
  BY Constants
<1>4. t \in moved <=> Moves(t, time, method)
  <2> HIDE DEF found
  <2> QED  BY <1>2, <1>3 DEF Moves
<1>5. exact <=> Exact(method)
  BY DEF Exact
<1> HIDE DEF found, start, moved, exact
<1>6. CASE Moves(t, time, method)
  <2>1. Found(t, At(t, time), method) # 0
    BY <1>3, <1>6 DEF Moves
  <2> QED  BY <1>1, <1>2, <1>4, <1>5, <1>6, <2>1 DEF Moved
<1>7. CASE ~Moves(t, time, method)
  BY <1>1, <1>4, <1>7 DEF Stays
<1> QED  BY <1>6, <1>7

LEMMA SeekMoves ==
  ASSUME NEW time, NEW method, SeekTo(time, method)
  PROVE  /\ nextSample' = [t \in Tracks |-> nextSample'[t]]
         /\ pendingSeekTime' = [t \in Tracks |-> pendingSeekTime'[t]]
         /\ decoded' = [t \in Tracks |-> decoded'[t]]
         /\ UNCHANGED media
BY DEF SeekTo

LEMMA AtType ==
  ASSUME NEW t \in Tracks, NEW time \in Nat PROVE At(t, time) \in Nat
BY UsecToSampleTimeType, Constants DEF At

LEMMA SeekKeepsInv ==
  ASSUME DemuxInv, phase = "open", NEW time \in Nat, NEW method \in Methods,
         SeekTo(time, method)
  PROVE  DemuxInv'
<1>1. /\ phase' = phase /\ dts' = dts /\ keys' = keys /\ times' = times
      /\ duration' = duration
  BY SeekMoves DEF media
<1>2. ASSUME NEW t \in Tracks
      PROVE  /\ nextSample'[t] \in 1 .. Count(t) + 1
             /\ pendingSeekTime'[t]
                  \in {0} \cup {times[t][i] : i \in Samples(t)}
             /\ decoded'[t] \in Broken .. Count(t)
  <2>1. CASE Stays(t)
    BY <2>1 DEF Stays, DemuxInv, TypeOK
  <2>2. CASE Moved(t, time, method)
    <3> DEFINE f == Found(t, At(t, time), method)
               s == SeekStart(t, At(t, time))
    <3>1. f \in 0 .. Count(t) /\ f # 0 /\ s \in Samples(t)
      BY <2>2, AtType, FoundType, SeekStartFacts DEF Moved
    <3>2. Count(t) \in Nat
      BY OpenTimes
    <3>3. /\ nextSample'[t] = f
          /\ pendingSeekTime'[t] = 0 \/ pendingSeekTime'[t] = times[t][s]
          /\ decoded'[t] \in {Lost, Loose}
      BY <2>2 DEF Moved
    <3> HIDE DEF f, s
    <3>4. nextSample'[t] \in 1 .. Count(t) + 1
      BY <3>1, <3>2, <3>3
    <3>5. decoded'[t] \in Broken .. Count(t)
      BY <3>2, <3>3 DEF Lost, Loose, Broken
    <3>6. pendingSeekTime'[t] \in {0} \cup {times[t][i] : i \in Samples(t)}
      BY <3>1, <3>3
    <3> QED  BY <3>4, <3>5, <3>6
  <2> QED  BY <2>1, <2>2, SeekOfEach
<1>3. TypeOK'
  <2>1. /\ phase \in Phases /\ dts \in [Tracks -> Seq(Nat)]
        /\ times \in [Tracks -> Seq(Nat)]
        /\ keys \in [Tracks -> SUBSET Nat] /\ duration \in [Tracks -> Nat]
    BY DEF DemuxInv, TypeOK
  <2> QED  BY <1>1, <1>2, <2>1 DEF TypeOK, Count, Samples
<1>4. /\ nextSample' \in [Tracks -> Nat]
      /\ pendingSeekTime' \in [Tracks -> Nat]
      /\ decoded' \in [Tracks -> Int]
  <2>1. ASSUME NEW t \in Tracks
        PROVE  nextSample'[t] \in Nat /\ pendingSeekTime'[t] \in Nat
               /\ decoded'[t] \in Int
    <3>1. /\ Count(t) \in Nat /\ \A i \in Samples(t) : times[t][i] \in Nat
      BY OpenTimes
    <3>2. nextSample'[t] \in Nat
      BY <1>2, <3>1
    <3>3. pendingSeekTime'[t] \in Nat
      BY <1>2, <3>1
    <3>4. decoded'[t] \in Int
      BY <1>2, <3>1 DEF Broken
    <3> QED  BY <3>2, <3>3, <3>4
  <2> QED  BY <2>1, SeekMoves
<1>5. \A t \in Tracks : Opened(t)'
  BY <1>1 DEF DemuxInv, Opened
<1>6. \A t \in Tracks : /\ Ascending(dts[t])' /\ Len(dts[t])' <= MaxSamples[t]
                        /\ (keys[t] \subseteq 1 .. Len(dts[t]))'
  BY <1>1 DEF DemuxInv
<1> QED  BY <1>1, <1>3, <1>4, <1>5, <1>6 DEF DemuxInv

-----------------------------------------------------------------------------
(* The other steps.                                                        *)

LEMMA AppendAscends ==
  ASSUME NEW s \in Seq(Nat), NEW x \in Nat, Ascending(s),
         s # <<>> => s[Len(s)] <= x
  PROVE  /\ Append(s, x) \in Seq(Nat) /\ Len(Append(s, x)) = Len(s) + 1
         /\ Ascending(Append(s, x))
<1> DEFINE r == Append(s, x)
           n == Len(s)
<1>1. /\ r \in Seq(Nat) /\ Len(r) = n + 1 /\ r[n + 1] = x
      /\ \A i \in 1 .. n : r[i] = s[i]
  BY AppendFacts
<1>2. n \in Nat /\ (n # 0 => s # <<>>) /\ \A i \in 1 .. n : s[i] \in Nat
  OBVIOUS
<1>3. \A i, j \in 1 .. n : i <= j => s[i] <= s[j]
  BY DEF Ascending
<1>4. n # 0 => s[n] <= x
  BY <1>2
<1> HIDE DEF r, n
<1>5. ASSUME NEW i \in 1 .. n + 1, NEW j \in 1 .. n + 1, i <= j
      PROVE  r[i] <= r[j]
  <2>1. CASE j \in 1 .. n
    <3>1. i \in 1 .. n
      BY <1>2, <1>5, <2>1
    <3> QED  BY <1>1, <1>3, <1>5, <2>1, <3>1
  <2>2. CASE j = n + 1 /\ i \in 1 .. n
    <3>1. n \in 1 .. n /\ i <= n /\ n # 0
      BY <1>2, <2>2
    <3>2. s[i] <= s[n] /\ s[n] <= x /\ s[i] \in Nat /\ s[n] \in Nat
      BY <1>2, <1>3, <1>4, <2>2, <3>1
    <3>3. s[i] <= x
      BY <3>2
    <3> QED  BY <1>1, <2>2, <3>3
  <2>3. CASE j = n + 1 /\ i = n + 1
    BY <1>1, <2>3
  <2>4. /\ j \in 1 .. n \/ j = n + 1
        /\ i \in 1 .. n \/ i = n + 1
    BY <1>2
  <2> QED  BY <2>1, <2>2, <2>3, <2>4
<1> QED  BY <1>1, <1>5 DEF r, n, Ascending

LEMMA InvInit == Init => DemuxInv
<1> SUFFICES ASSUME Init PROVE DemuxInv
  OBVIOUS
<1>1. /\ phase = "mux"
      /\ \A t \in Tracks : /\ dts[t] = <<>> /\ keys[t] = {} /\ times[t] = <<>>
                           /\ duration[t] = 0 /\ nextSample[t] = 1
                           /\ pendingSeekTime[t] = 0 /\ decoded[t] = Loose
      /\ dts \in [Tracks -> Seq(Nat)] /\ times \in [Tracks -> Seq(Nat)]
      /\ keys \in [Tracks -> SUBSET Nat] /\ duration \in [Tracks -> Nat]
      /\ nextSample \in [Tracks -> Nat] /\ pendingSeekTime \in [Tracks -> Nat]
      /\ decoded \in [Tracks -> Int]
  BY DEF Init, Loose
<1>2. Len(<<>>) = 0
  OBVIOUS
<1>3. TypeOK
  <2>1. ASSUME NEW t \in Tracks
        PROVE  /\ nextSample[t] \in 1 .. Count(t) + 1
               /\ pendingSeekTime[t] \in
                    {0} \cup {times[t][i] : i \in Samples(t)}
               /\ decoded[t] \in Broken .. Count(t)
    BY <1>1, <1>2 DEF Count, Loose, Broken
  <2> QED  BY <1>1, <2>1 DEF TypeOK, Phases
<1>4. \A t \in Tracks : Untouched(t)
  BY <1>1 DEF Untouched
<1>5. \A t \in Tracks : /\ Ascending(dts[t]) /\ Len(dts[t]) <= MaxSamples[t]
                        /\ keys[t] \subseteq 1 .. Len(dts[t])
  BY <1>1, <1>2, Constants DEF Ascending
<1> QED  BY <1>1, <1>3, <1>4, <1>5 DEF DemuxInv

LEMMA AddKeepsInv ==
  ASSUME DemuxInv, NEW t \in Tracks, NEW time \in Dts, NEW sync \in BOOLEAN,
         AddSample(t, time, sync)
  PROVE  DemuxInv'
<1>1. /\ phase = "mux" /\ phase' = phase /\ times' = times
      /\ duration' = duration /\ nextSample' = nextSample
      /\ pendingSeekTime' = pendingSeekTime /\ decoded' = decoded
      /\ dts' = [dts EXCEPT ![t] = Append(dts[t], time)]
      /\ Len(dts[t]) < MaxSamples[t]
      /\ LastDts(t) = 0 \/ time > LastDts(t)
      /\ \/ keys' = keys
         \/ keys' = [keys EXCEPT ![t] = keys[t] \cup {Len(dts[t]) + 1}]
  BY DEF AddSample
<1>2. /\ dts \in [Tracks -> Seq(Nat)] /\ times \in [Tracks -> Seq(Nat)]
      /\ keys \in [Tracks -> SUBSET Nat] /\ duration \in [Tracks -> Nat]
      /\ phase \in Phases /\ time \in Nat
      /\ \A u \in Tracks : /\ nextSample[u] \in 1 .. Count(u) + 1
                           /\ pendingSeekTime[u] \in
                                {0} \cup {times[u][i] : i \in Samples(u)}
                           /\ decoded[u] \in Broken .. Count(u)
  BY Constants DEF DemuxInv, TypeOK
<1> DEFINE s == dts[t]
           n == Len(s)
           r == Append(s, time)
<1>3. /\ s \in Seq(Nat) /\ Ascending(s) /\ n \in Nat
      /\ n < MaxSamples[t] /\ MaxSamples[t] \in Nat /\ keys[t] \subseteq 1 .. n
  BY <1>1, <1>2, Constants DEF DemuxInv
<1>4. s # <<>> => s[Len(s)] <= time
  <2>1. ASSUME s # <<>> PROVE LastDts(t) = s[Len(s)] /\ s[Len(s)] \in Nat
    BY <1>3, <2>1 DEF LastDts, Last
  <2> QED  BY <1>1, <1>2, <2>1
<1>5. /\ r \in Seq(Nat) /\ Len(r) = n + 1 /\ Ascending(r)
  <2> HIDE DEF s
  <2> QED  BY <1>2, <1>3, <1>4, AppendAscends
<1>6. /\ dts' \in [Tracks -> Seq(Nat)] /\ dts'[t] = r
      /\ \A u \in Tracks : u # t => dts'[u] = dts[u]
  <2> HIDE DEF r
  <2>1. dts' = [dts EXCEPT ![t] = r]
    BY <1>1 DEF r
  <2> QED  BY <1>2, <1>5, <2>1
<1> HIDE DEF s, r, n
<1>7. /\ keys' \in [Tracks -> SUBSET Nat]
      /\ keys'[t] \in {keys[t], keys[t] \cup {n + 1}}
      /\ \A u \in Tracks : u # t => keys'[u] = keys[u]
  <2> DEFINE more == keys[t] \cup {n + 1}
  <2>1. more \in SUBSET Nat
    BY <1>2, <1>3
  <2> HIDE DEF more
  <2>2. keys' = keys \/ keys' = [keys EXCEPT ![t] = more]
    BY <1>1 DEF more, n, s
  <2>3. keys'[t] \in {keys[t], more}
    BY <1>2, <2>2
  <2>4. keys' \in [Tracks -> SUBSET Nat]
    BY <1>2, <2>1, <2>2
  <2>5. \A u \in Tracks : u # t => keys'[u] = keys[u]
    BY <1>2, <2>2
  <2> QED  BY <2>3, <2>4, <2>5 DEF more
<1>8. TypeOK'
  BY <1>1, <1>2, <1>6, <1>7 DEF TypeOK, Count, Samples
<1>9. ASSUME NEW u \in Tracks
      PROVE  /\ Ascending(dts'[u]) /\ Len(dts'[u]) <= MaxSamples[u]
             /\ keys'[u] \subseteq 1 .. Len(dts'[u])
  <2>1. CASE u = t
    <3>1. n + 1 <= MaxSamples[t]
      BY <1>3
    <3>2. keys'[t] \subseteq 1 .. n + 1
      BY <1>3, <1>7
    <3> QED  BY <1>5, <1>6, <2>1, <3>1, <3>2
  <2>2. CASE u # t
    BY <1>6, <1>7, <2>2 DEF DemuxInv
  <2> QED  BY <2>1, <2>2
<1>10. \A u \in Tracks : Untouched(u)'
  BY <1>1 DEF DemuxInv, Untouched
<1>11. \A u \in Tracks : /\ Ascending(dts[u])' /\ Len(dts[u])' <= MaxSamples[u]
                         /\ (keys[u] \subseteq 1 .. Len(dts[u]))'
  BY <1>9
<1> QED  BY <1>1, <1>8, <1>10, <1>11 DEF DemuxInv

LEMMA OpenKeepsInv ==
  ASSUME DemuxInv, Open PROVE DemuxInv'
<1>1. /\ phase = "mux" /\ dts' = dts /\ keys' = keys
      /\ nextSample' = nextSample /\ pendingSeekTime' = pendingSeekTime
      /\ decoded' = decoded
  BY DEF Open
<1> DEFINE stts(t) == TimeToSample(dts[t])
           good == \A t \in Tracks : Buildable(stts(t), Len(dts[t]))
<1>2. /\ dts \in [Tracks -> Seq(Nat)] /\ times \in [Tracks -> Seq(Nat)]
      /\ keys \in [Tracks -> SUBSET Nat] /\ duration \in [Tracks -> Nat]
      /\ \A t \in Tracks : Untouched(t)
  BY <1>1 DEF DemuxInv, TypeOK
<1>3. \A t \in Tracks : /\ Ascending(dts[t])' /\ Len(dts[t])' <= MaxSamples[t]
                        /\ (keys[t] \subseteq 1 .. Len(dts[t]))'
  BY <1>1 DEF DemuxInv
<1>4. /\ nextSample' \in [Tracks -> Nat]
      /\ pendingSeekTime' \in [Tracks -> Nat]
      /\ decoded' \in [Tracks -> Int]
  BY <1>1 DEF DemuxInv
<1>5. CASE good
  <2>1. /\ phase' = "open"
        /\ times' = [t \in Tracks |-> DecodingTimes(stts(t))]
        /\ duration' = [t \in Tracks |-> Duration(dts[t])]
    BY <1>5 DEF Open
  <2>2. ASSUME NEW t \in Tracks PROVE Opened(t)'
    BY <1>1, <1>5, <2>1 DEF Opened
  <2>3. ASSUME NEW t \in Tracks
        PROVE  DecodingTimes(stts(t)) \in Seq(Nat) /\ Duration(dts[t]) \in Nat
    <3>1. dts[t] \in Seq(Nat)
      BY <1>2
    <3>2. stts(t) \in Seq(Entry)
      BY <3>1, TableType
    <3> QED  BY <3>1, <3>2, TimesType, DurationType
  <2>4. times' \in [Tracks -> Seq(Nat)] /\ duration' \in [Tracks -> Nat]
    <3> HIDE DEF stts
    <3> QED  BY <2>1, <2>3
  <2>5. ASSUME NEW t \in Tracks
        PROVE  /\ (nextSample[t] \in 1 .. Count(t) + 1)'
               /\ (pendingSeekTime[t] \in
                     {0} \cup {times[t][i] : i \in Samples(t)})'
               /\ (decoded[t] \in Broken .. Count(t))'
    <3>1. Count(t)' \in Nat
      <4>1. times'[t] \in Seq(Nat)
        BY <2>4
      <4> QED  BY <4>1 DEF Count
    <3>2. nextSample[t] = 1 /\ pendingSeekTime[t] = 0 /\ decoded[t] = Loose
      BY <1>2 DEF Untouched
    <3> QED  BY <1>1, <3>1, <3>2 DEF Loose, Broken
  <2>6. TypeOK'
    BY <1>1, <1>2, <2>1, <2>4, <2>5 DEF TypeOK, Phases
  <2> QED  BY <1>3, <1>4, <2>1, <2>2, <2>6 DEF DemuxInv
<1>6. CASE ~good
  <2>1. phase' = "refused" /\ times' = times /\ duration' = duration
    BY <1>6 DEF Open
  <2>2. TypeOK'
    BY <1>1, <2>1 DEF DemuxInv, TypeOK, Phases, Count, Samples
  <2>3. \A t \in Tracks : Untouched(t)'
    BY <1>1, <1>2, <2>1 DEF Untouched
  <2>4. \E t \in Tracks : ~Buildable(TimeToSample(dts[t]), Len(dts[t]))'
    BY <1>1, <1>6
  <2> QED  BY <1>3, <1>4, <2>1, <2>2, <2>3, <2>4 DEF DemuxInv
<1> QED  BY <1>5, <1>6

LEMMA GetKeepsInv ==
  ASSUME DemuxInv, NEW t \in Tracks, NEW advance \in BOOLEAN,
         GetSample(t, advance)
  PROVE  DemuxInv'
<1> DEFINE i == nextSample[t]
<1>1. /\ phase = "open" /\ i <= Count(t)
      /\ phase' = phase /\ dts' = dts /\ keys' = keys /\ times' = times
      /\ duration' = duration
      /\ \/ pendingSeekTime' = pendingSeekTime
         \/ pendingSeekTime' = [pendingSeekTime EXCEPT ![t] = 0]
      /\ \/ nextSample' = nextSample
         \/ nextSample' = [nextSample EXCEPT ![t] = i + 1]
      /\ decoded' = [decoded EXCEPT ![t] = Follow(t, i)]
  <2> DEFINE p == IF times[t][i] >= pendingSeekTime[t] THEN 0
                  ELSE pendingSeekTime[t]
  <2>1. pendingSeekTime' = [pendingSeekTime EXCEPT ![t] = p]
    BY DEF GetSample
  <2>2. p = 0 \/ p = pendingSeekTime[t]
    OBVIOUS
  <2> HIDE DEF p
  <2>3. \/ pendingSeekTime' = pendingSeekTime
        \/ pendingSeekTime' = [pendingSeekTime EXCEPT ![t] = 0]
    BY <2>1, <2>2 DEF DemuxInv
  <2> QED  BY <2>3 DEF GetSample, media
<1>2. /\ phase \in Phases /\ dts \in [Tracks -> Seq(Nat)]
      /\ times \in [Tracks -> Seq(Nat)]
      /\ keys \in [Tracks -> SUBSET Nat] /\ duration \in [Tracks -> Nat]
      /\ nextSample \in [Tracks -> Nat] /\ pendingSeekTime \in [Tracks -> Nat]
      /\ decoded \in [Tracks -> Int]
      /\ \A u \in Tracks : /\ nextSample[u] \in 1 .. Count(u) + 1
                           /\ pendingSeekTime[u] \in
                                {0} \cup {times[u][j] : j \in Samples(u)}
                           /\ decoded[u] \in Broken .. Count(u)
  BY DEF DemuxInv, TypeOK
<1>3. i \in 1 .. Count(t) /\ Count(t) \in Nat
  BY <1>1, <1>2, OpenTimes
<1>4. Follow(t, i) \in Broken .. Count(t)
  <2>1. decoded[t] \in Broken .. Count(t)
    BY <1>2
  <2>2. Follow(t, i) \in {i, decoded[t], Lost, Broken}
    <3> HIDE DEF i
    <3> QED  BY DEF Follow
  <2> HIDE DEF i
  <2> QED  BY <1>3, <2>1, <2>2 DEF Broken, Lost
<1> HIDE DEF i
<1>5. Follow(t, i) \in Int
  BY <1>3, <1>4 DEF Broken
<1>6. /\ nextSample' \in [Tracks -> Nat]
      /\ pendingSeekTime' \in [Tracks -> Nat]
      /\ decoded' \in [Tracks -> Int]
  <2>1. nextSample' \in [Tracks -> Nat]
    <3>1. \/ nextSample' = nextSample
          \/ nextSample' = [nextSample EXCEPT ![t] = i + 1]
      BY <1>1
    <3>2. i + 1 \in Nat /\ nextSample \in [Tracks -> Nat]
      BY <1>2, <1>3
    <3> QED  BY <3>1, <3>2
  <2>2. pendingSeekTime' \in [Tracks -> Nat]
    BY <1>1, <1>2
  <2>3. decoded' \in [Tracks -> Int]
    BY <1>1, <1>2, <1>5
  <2> QED  BY <2>1, <2>2, <2>3
<1>7. ASSUME NEW u \in Tracks
      PROVE  /\ nextSample'[u] \in 1 .. Count(u) + 1
             /\ pendingSeekTime'[u] \in
                  {0} \cup {times[u][j] : j \in Samples(u)}
             /\ decoded'[u] \in Broken .. Count(u)
  <2>1. nextSample'[u] \in 1 .. Count(u) + 1
    <3>1. \/ nextSample' = nextSample
          \/ nextSample' = [nextSample EXCEPT ![t] = i + 1]
      BY <1>1
    <3>2. nextSample'[u] = nextSample[u] \/ (u = t /\ nextSample'[u] = i + 1)
      BY <1>2, <3>1
    <3>3. CASE nextSample'[u] = nextSample[u]
      BY <1>2, <3>3
    <3>4. CASE u = t /\ nextSample'[u] = i + 1
      <4>1. i + 1 \in 1 .. Count(t) + 1
        BY <1>3
      <4> QED  BY <3>4, <4>1
    <3> QED  BY <3>2, <3>3, <3>4
  <2>2. pendingSeekTime'[u] = pendingSeekTime[u] \/ pendingSeekTime'[u] = 0
    BY <1>1, <1>2
  <2>3. decoded'[u] \in Broken .. Count(u)
    BY <1>1, <1>2, <1>4
  <2>4. pendingSeekTime'[u] \in {0} \cup {times[u][j] : j \in Samples(u)}
    <3> DEFINE T == {0} \cup {times[u][j] : j \in Samples(u)}
    <3>1. pendingSeekTime[u] \in T
      BY <1>2
    <3>2. 0 \in T
      OBVIOUS
    <3> HIDE DEF T
    <3>3. pendingSeekTime'[u] \in T
      BY <2>2, <3>1, <3>2
    <3> USE DEF T
    <3> QED  BY <3>3
  <2> QED  BY <2>1, <2>3, <2>4
<1>8. TypeOK'
  <2>1. /\ phase' \in Phases /\ dts' \in [Tracks -> Seq(Nat)]
        /\ times' \in [Tracks -> Seq(Nat)] /\ times' = times
        /\ keys' \in [Tracks -> SUBSET Nat] /\ duration' \in [Tracks -> Nat]
    BY <1>1, <1>2
  <2> QED  BY <1>7, <2>1 DEF TypeOK, Count, Samples
<1>9. \A u \in Tracks : Opened(u)'
  BY <1>1 DEF DemuxInv, Opened
<1>10. \A u \in Tracks : /\ Ascending(dts[u])' /\ Len(dts[u])' <= MaxSamples[u]
                         /\ (keys[u] \subseteq 1 .. Len(dts[u]))'
  BY <1>1 DEF DemuxInv
<1> QED  BY <1>1, <1>6, <1>8, <1>9, <1>10 DEF DemuxInv

(* A step that leaves the file and the cursors alone. *)
LEMMA RestKeepsInv ==
  ASSUME DemuxInv, dts' = dts, keys' = keys, times' = times,
         duration' = duration, nextSample' = nextSample,
         pendingSeekTime' = pendingSeekTime, decoded' = decoded,
         phase' = phase \/ (phase = "open" /\ phase' = "killed")
  PROVE  DemuxInv'
<1>1. TypeOK'
  BY DEF DemuxInv, TypeOK, Phases, Count, Samples
<1>2. /\ \A t \in Tracks : Untouched(t)' = Untouched(t)
      /\ \A t \in Tracks : Opened(t)' = Opened(t)
  BY DEF Untouched, Opened
<1>3. CASE phase' = phase
  BY <1>1, <1>2, <1>3 DEF DemuxInv
<1>4. CASE phase = "open" /\ phase' = "killed"
  BY <1>1, <1>2, <1>4 DEF DemuxInv
<1> QED  BY <1>3, <1>4

(* The seeks of Next, each to a time in microseconds that is a number. *)
LEMMA Seeks ==
  ASSUME DemuxInv, Next
  PROVE  \/ \E t \in Tracks, time \in Dts, sync \in BOOLEAN :
              AddSample(t, time, sync)
         \/ Open
         \/ SeekKills
         \/ \E t \in Tracks, advance \in BOOLEAN : GetSample(t, advance)
         \/ phase = "open" /\ \E time \in Nat, method \in Methods :
              /\ SeekTo(time, method)
              /\ \/ time \in Sought
                 \/ \E t \in Tracks : \E i \in Samples(t) :
                      time = SampleUsec(t, i)
<1>1. ASSUME phase = "open", NEW t \in Tracks, NEW i \in Samples(t)
      PROVE  SampleUsec(t, i) \in Nat
  BY <1>1, OpenTimes, SampleTimeToUsecType, Constants DEF SampleUsec
<1>2. ASSUME NEW time \in Sought, NEW method \in Methods, Seek(time, method)
      PROVE  phase = "open" /\ time \in Nat /\ SeekTo(time, method)
  BY <1>2, Constants DEF Seek
<1>3. ASSUME NEW t \in Tracks, SeekPrev(t)
      PROVE  phase = "open" /\ \E i \in Samples(t) :
               SeekTo(SampleUsec(t, i), "previous_sync")
  <2> DEFINE i == IF nextSample[t] > 2 THEN nextSample[t] - 2 ELSE 1
  <2>1. phase = "open" /\ SeekTo(SampleUsec(t, i), "previous_sync")
    BY <1>3 DEF SeekPrev
  <2>2. Count(t) \in Nat \ {0} /\ nextSample[t] \in 1 .. Count(t) + 1
    BY <2>1, OpenTimes DEF DemuxInv, TypeOK
  <2>3. i \in Samples(t)
    BY <2>2 DEF Samples
  <2> HIDE DEF i
  <2> QED  BY <2>1, <2>3
<1>4. ASSUME NEW t \in Tracks, NEW resync \in BOOLEAN, SeekNext(t, resync)
      PROVE  phase = "open" /\ \E i \in Samples(t), method \in Methods :
               SeekTo(SampleUsec(t, i), method)
  <2>1. phase = "open"
    BY <1>4 DEF SeekNext
  <2>2. Count(t) \in Nat \ {0} /\ nextSample[t] \in 1 .. Count(t) + 1
    BY <2>1, OpenTimes DEF DemuxInv, TypeOK
  <2>3. CASE resync
    <3>1. /\ nextSample[t] <= Count(t)
          /\ SeekTo(SampleUsec(t, nextSample[t]), "previous_sync")
      BY <1>4, <2>3 DEF SeekNext
    <3>2. nextSample[t] \in Samples(t) /\ "previous_sync" \in Methods
      BY <2>2, <3>1 DEF Samples, Methods
    <3> QED  BY <2>1, <3>1, <3>2
  <2>4. CASE ~resync
    <3>1. /\ nextSample[t] <= Count(t) - 1
          /\ SeekTo(SampleUsec(t, nextSample[t] + 1), "previous")
      BY <1>4, <2>4 DEF SeekNext
    <3>2. nextSample[t] + 1 \in Samples(t) /\ "previous" \in Methods
      BY <2>2, <3>1 DEF Samples, Methods
    <3> QED  BY <2>1, <3>1, <3>2
  <2> QED  BY <2>3, <2>4
<1>5. "previous_sync" \in Methods
  BY DEF Methods
<1> QED  BY <1>1, <1>2, <1>3, <1>4, <1>5 DEF Next

LEMMA InvStep == DemuxInv /\ [Next]_vars => DemuxInv'
<1> SUFFICES ASSUME DemuxInv, [Next]_vars PROVE DemuxInv'
  OBVIOUS
<1>1. CASE \E t \in Tracks, time \in Dts, sync \in BOOLEAN :
             AddSample(t, time, sync)
  BY <1>1, AddKeepsInv
<1>2. CASE Open
  BY <1>2, OpenKeepsInv
<1>3. CASE SeekKills
  <2>1. /\ dts' = dts /\ keys' = keys /\ times' = times
        /\ duration' = duration /\ nextSample' = nextSample
        /\ pendingSeekTime' = pendingSeekTime /\ decoded' = decoded
        /\ phase = "open" /\ phase' = "killed"
    BY <1>3 DEF SeekKills
  <2> QED  BY <2>1, RestKeepsInv
<1>4. CASE \E t \in Tracks, advance \in BOOLEAN : GetSample(t, advance)
  BY <1>4, GetKeepsInv
<1>5. CASE phase = "open" /\ \E time \in Nat, method \in Methods :
             SeekTo(time, method)
  BY <1>5, SeekKeepsInv
<1>6. CASE UNCHANGED vars
  <2>1. /\ dts' = dts /\ keys' = keys /\ times' = times
        /\ duration' = duration /\ nextSample' = nextSample
        /\ pendingSeekTime' = pendingSeekTime /\ decoded' = decoded
        /\ phase' = phase
    BY <1>6 DEF vars
  <2> QED  BY <2>1, RestKeepsInv
<1> QED  BY <1>1, <1>2, <1>3, <1>4, <1>5, <1>6, Seeks

LEMMA InvHolds == Spec => []DemuxInv
BY InvInit, InvStep, PTL DEF Spec

(* Whatever the tracks, their samples and the calls of a player: a cursor  *)
(* is at a sample or at the end, and what it waits for is the time of a    *)
(* sample.                                                                 *)
THEOREM TypeCorrect == Spec => []TypeOK
<1>1. DemuxInv => TypeOK
  BY DEF DemuxInv
<1> QED  BY <1>1, InvHolds, PTL

(* The times of a file are those that were added, from 0 on, as long as    *)
(* they differ by less than UINT32_MAX; and such a file can be opened.     *)
THEOREM TimesReadBack == Spec => []TimesKept
<1>1. ASSUME DemuxInv PROVE TimesKept
  <2> DEFINE near(t) == \A i \in 2 .. Len(dts[t]) :
                          dts[t][i] < dts[t][i - 1] + Wrap - 1
  <2>1. ASSUME NEW t \in Tracks, dts[t] # <<>>, near(t)
        PROVE  /\ Buildable(TimeToSample(dts[t]), Len(dts[t]))
               /\ DecodingTimes(TimeToSample(dts[t]))
                    = [i \in 1 .. Len(dts[t]) |-> dts[t][i] - dts[t][1]]
    <3>1. dts[t] \in Seq(Nat) /\ Ascending(dts[t])
      BY <1>1 DEF DemuxInv, TypeOK
    <3>2. ASSUME NEW i \in 2 .. Len(dts[t]) PROVE dts[t][i - 1] <= dts[t][i]
      <4>1. /\ i \in 1 .. Len(dts[t]) /\ i - 1 \in 1 .. Len(dts[t])
            /\ i - 1 <= i
        BY <3>1
      <4> QED  BY <3>1, <4>1 DEF Ascending
    <3> QED  BY <2>1, <3>1, <3>2, TimesComeBack
  <2>2. CASE phase = "open"
    <3>1. ASSUME NEW t \in Tracks, near(t)
          PROVE  times[t] = [i \in 1 .. Len(dts[t]) |-> dts[t][i] - dts[t][1]]
      <4>1. dts[t] # <<>>
        BY <1>1, <2>2, OpenTimes
      <4>2. times[t] = DecodingTimes(TimeToSample(dts[t]))
        BY <1>1, <2>2 DEF DemuxInv, Opened
      <4> QED  BY <2>1, <3>1, <4>1, <4>2
    <3> QED  BY <2>2, <3>1 DEF TimesKept
  <2>3. CASE phase = "refused"
    <3>1. PICK t \in Tracks : ~Buildable(TimeToSample(dts[t]), Len(dts[t]))
      BY <1>1, <2>3 DEF DemuxInv
    <3>2. dts[t] = <<>> \/ ~near(t)
      BY <2>1, <3>1
    <3> QED  BY <2>3, <3>1, <3>2 DEF TimesKept
  <2>4. CASE phase # "open" /\ phase # "refused"
    BY <2>4 DEF TimesKept
  <2> QED  BY <2>2, <2>3, <2>4
<1> QED  BY <1>1, InvHolds, PTL

-----------------------------------------------------------------------------
(* What a decoder can follow.                                              *)

Followed(t) ==
  \/ decoded[t] = Loose
  \/ IsSync(t, nextSample[t])
  \/ decoded[t] \in {nextSample[t] - 1, nextSample[t]} \ {Lost}

DecodeInv ==
  /\ DemuxInv
  /\ \A t \in Tracks : decoded[t] # Broken /\ Followed(t)

LEMMA DecodeInit == Init => DecodeInv
BY InvInit DEF Init, DecodeInv, Followed, Loose, Broken

LEMMA DecodeStep == DecodeInv /\ [Next]_vars => DecodeInv'
<1> SUFFICES ASSUME DecodeInv, [Next]_vars PROVE DecodeInv'
  OBVIOUS
<1>1. DemuxInv /\ DemuxInv'
  BY InvStep DEF DecodeInv
<1> SUFFICES ASSUME NEW t \in Tracks
             PROVE  decoded'[t] # Broken /\ Followed(t)'
  BY <1>1 DEF DecodeInv
<1>2. decoded[t] # Broken /\ Followed(t)
  BY DEF DecodeInv
<1>3. ASSUME decoded' = decoded, nextSample' = nextSample, keys' = keys
      PROVE  decoded'[t] # Broken /\ Followed(t)'
  BY <1>2, <1>3 DEF Followed, IsSync
<1>4. CASE \E u \in Tracks, time \in Dts, sync \in BOOLEAN :
             AddSample(u, time, sync)
  <2>1. phase = "mux" /\ decoded' = decoded
    BY <1>4 DEF AddSample
  <2>2. decoded[t] = Loose
    BY <1>1, <2>1 DEF DemuxInv, Untouched
  <2> QED  BY <2>1, <2>2 DEF Followed, Loose, Broken
<1>5. CASE Open
  BY <1>3, <1>5 DEF Open
<1>6. CASE SeekKills
  BY <1>3, <1>6 DEF SeekKills
<1>7. CASE \E u \in Tracks, advance \in BOOLEAN : GetSample(u, advance)
  <2>1. PICK u \in Tracks, advance \in BOOLEAN : GetSample(u, advance)
    BY <1>7
  <2> DEFINE i == nextSample[u]
  <2>2. /\ keys' = keys /\ decoded' = [decoded EXCEPT ![u] = Follow(u, i)]
        /\ \/ nextSample' = nextSample
           \/ nextSample' = [nextSample EXCEPT ![u] = i + 1]
    BY <2>1 DEF GetSample, media
  <2>3. /\ decoded \in [Tracks -> Int] /\ nextSample \in [Tracks -> Nat]
        /\ \A v \in Tracks : nextSample[v] \in 1 .. Count(v) + 1
    BY <1>1 DEF DemuxInv, TypeOK
  <2>4. i \in Nat /\ i > 0
    BY <2>3
  <2>5. CASE t # u
    <3>1. decoded'[t] = decoded[t] /\ nextSample'[t] = nextSample[t]
      BY <2>2, <2>3, <2>5
    <3> QED  BY <1>2, <2>2, <3>1 DEF Followed, IsSync
  <2>6. CASE t = u
    <3>1. decoded'[t] = Follow(t, i) /\ nextSample'[t] \in {i, i + 1}
      BY <2>2, <2>3, <2>6
    <3>2. Follow(t, i) = i \/ (Follow(t, i) = Loose /\ decoded[t] = Loose)
      <4>1. CASE keys[t] = {} \/ i \in keys[t]
                 \/ decoded[t] \in {i - 1, i} \ {Lost}
        <5> HIDE DEF i
        <5>1. Follow(t, i) = i
          BY <4>1 DEF Follow
        <5> QED  BY <5>1
      <4>2. CASE ~(keys[t] = {} \/ i \in keys[t]
                   \/ decoded[t] \in {i - 1, i} \ {Lost})
        <5>1. decoded[t] = Loose
          BY <1>2, <2>6, <4>2 DEF Followed, IsSync
        <5> HIDE DEF i
        <5>2. Follow(t, i) = decoded[t]
          BY <4>2, <5>1 DEF Follow
        <5> QED  BY <5>1, <5>2
      <4> QED  BY <4>1, <4>2
    <3> HIDE DEF i
    <3>3. CASE Follow(t, i) = i
      <4>1. decoded'[t] \in {nextSample'[t] - 1, nextSample'[t]} \ {Lost}
        BY <2>4, <3>1, <3>3 DEF Lost
      <4>2. decoded'[t] # Broken
        BY <2>4, <3>1, <3>3 DEF Broken
      <4> QED  BY <4>1, <4>2 DEF Followed
    <3>4. CASE Follow(t, i) = Loose
      BY <3>1, <3>4 DEF Followed, Loose, Broken
    <3> QED  BY <3>2, <3>3, <3>4
  <2> QED  BY <2>5, <2>6
<1>8. CASE phase = "open" /\ \E time \in Nat, method \in Methods :
             SeekTo(time, method)
  <2>1. PICK time \in Nat, method \in Methods : SeekTo(time, method)
    BY <1>8
  <2>2. keys' = keys
    BY <2>1, SeekMoves DEF media
  <2>3. CASE Stays(t)
    BY <1>2, <2>2, <2>3 DEF Stays, Followed, IsSync
  <2>4. CASE Moved(t, time, method)
    <3>1. CASE Exact(method)
      <4>1. /\ decoded'[t] = Lost /\ IsSync(t, nextSample'[t])
        BY <1>1, <1>8, <2>4, <3>1, AtType, FoundType DEF Moved
      <4> QED  BY <2>2, <4>1 DEF Followed, IsSync, Lost, Broken
    <3>2. CASE ~Exact(method)
      BY <2>4, <3>2 DEF Moved, Followed, Loose, Broken
    <3> QED  BY <3>1, <3>2
  <2> QED  BY <2>1, <2>3, <2>4, SeekOfEach
<1>9. CASE UNCHANGED vars
  BY <1>3, <1>9 DEF vars
<1> QED  BY <1>1, <1>4, <1>5, <1>6, <1>7, <1>8, <1>9, Seeks

(* Whatever the sync samples of the tracks, a player that only uses seeks  *)
(* to sync samples is never told to show a sample that its decoder cannot  *)
(* decode: mp4_demux_seek only goes to samples in track->sync, or to any   *)
(* where there are none, and what is read from there on has no gap.        *)
THEOREM DecodedIsShown == Spec => []ShownIsDecoded
<1>1. DecodeInv => ShownIsDecoded
  BY DEF DecodeInv, ShownIsDecoded
<1> QED  BY <1>1, DecodeInit, DecodeStep, PTL DEF Spec

-----------------------------------------------------------------------------
(* What a seek finds, when no two samples are at the same time.            *)

LEMMA Strictly ==
  ASSUME DemuxInv, phase = "open", Distinct, NEW t \in Tracks
  PROVE  \A i, j \in Samples(t) : i < j => times[t][i] < times[t][j]
<1>1. \A i, j \in DOMAIN times[t] : times[t][i] = times[t][j] => i = j
  BY DEF Distinct, Promise!Distinct, Promise!Samples
<1>2. DOMAIN times[t] = Samples(t)
  BY OpenTimes DEF Samples, Count
<1>3. /\ \A i \in Samples(t) : times[t][i] \in Nat
      /\ \A i, j \in Samples(t) : i <= j => times[t][i] <= times[t][j]
  BY OpenTimes
<1> SUFFICES ASSUME NEW i \in Samples(t), NEW j \in Samples(t), i < j
             PROVE  times[t][i] < times[t][j]
  OBVIOUS
<1>4. i # j /\ i <= j
  BY OpenTimes DEF Samples
<1>5. times[t][i] # times[t][j]
  BY <1>1, <1>2, <1>4
<1>6. times[t][i] <= times[t][j]
  BY <1>3, <1>4
<1> QED  BY <1>3, <1>5, <1>6

(* The estimate that the search begins with does not matter. *)
LEMMA StartIs ==
  ASSUME DemuxInv, phase = "open", Distinct, NEW t \in Tracks, NEW ts \in Nat
  PROVE  LET start == SeekStart(t, ts)
         IN /\ start \in Samples(t)
            /\ \A i \in Samples(t) : times[t][i] <= ts <=> i <= start
            /\ Promise!AtOrBefore(t, ts) = start
<1> DEFINE start == SeekStart(t, ts)
           n == Count(t)
           S == {i \in DOMAIN times[t] : times[t][i] <= ts}
<1>1. /\ start \in Samples(t) /\ times[t][start] <= ts
  BY SeekStartFacts
<1>2. PICK forward \in Samples(t) :
           /\ times[t][forward] >= ts \/ forward = Count(t)
           /\ \A i \in 1 .. forward : times[t][i] <= ts => i <= start
  BY SeekStartFacts
<1> HIDE DEF start
<1>3. /\ n \in Nat \ {0} /\ Samples(t) = 1 .. n /\ DOMAIN times[t] = 1 .. n
      /\ \A i \in 1 .. n : times[t][i] \in Nat
      /\ \A i, j \in 1 .. n : i <= j => times[t][i] <= times[t][j]
      /\ \A i, j \in 1 .. n : i < j => times[t][i] < times[t][j]
  <2>1. n \in Nat \ {0} /\ Samples(t) = 1 .. n /\ DOMAIN times[t] = 1 .. n
    BY OpenTimes DEF Samples, Count
  <2>2. /\ \A i \in Samples(t) : times[t][i] \in Nat
        /\ \A i, j \in Samples(t) : i <= j => times[t][i] <= times[t][j]
    BY OpenTimes
  <2>3. \A i, j \in Samples(t) : i < j => times[t][i] < times[t][j]
    BY Strictly
  <2> HIDE DEF n
  <2> QED  BY <2>1, <2>2, <2>3
<1>4. ASSUME NEW i \in 1 .. n, times[t][i] <= ts PROVE i <= start
  <2>1. CASE i \in 1 .. forward
    BY <1>2, <1>4, <2>1
  <2>2. CASE i \notin 1 .. forward
    <3>1. forward \in 1 .. n /\ forward < i /\ forward # n
      BY <1>2, <1>3, <2>2
    <3>2. times[t][forward] < times[t][i] /\ times[t][forward] >= ts
      BY <1>2, <1>3, <3>1
    <3>3. times[t][forward] \in Nat /\ times[t][i] \in Nat
      BY <1>3, <3>1
    <3> QED  BY <1>4, <3>2, <3>3
  <2> QED  BY <2>1, <2>2
<1>5. ASSUME NEW i \in 1 .. n, i <= start PROVE times[t][i] <= ts
  <2>1. times[t][i] <= times[t][start] /\ times[t][start] \in Nat
    BY <1>1, <1>3, <1>5
  <2> QED  BY <1>1, <1>3, <2>1
<1> HIDE DEF n
<1>6. Greatest(S) = start
  <2>1. S \in SUBSET (0 .. n) /\ start \in S
    BY <1>1, <1>3
  <2>2. \A j \in S : j <= start
    BY <1>3, <1>4
  <2> HIDE DEF S
  <2> QED  BY <1>3, <2>1, <2>2, GreatestIs
<1>7. Promise!AtOrBefore(t, ts) = Greatest(S)
  <2>1. S # {}
    BY <1>1, <1>3
  <2>2. Promise!AtOrBefore(t, ts) = Promise!Greatest(S)
    BY DEF Promise!AtOrBefore, Promise!Samples
  <2> HIDE DEF S
  <2> QED  BY <2>1, <2>2 DEF Promise!Greatest, Greatest
<1> QED  BY <1>1, <1>3, <1>4, <1>5, <1>6, <1>7 DEF start

Closest(S, away) == {i \in S : \A j \in S : away[i] <= away[j]}

(* The search for the nearest time may stop where the times move away.     *)
LEMMA ClosestVisited ==
  ASSUME NEW all \in SUBSET Nat, NEW away, \A i \in all : away[i] \in Nat,
         NEW start \in Nat, \A i \in all : start <= i,
         \A j, k \in all : start < j /\ j < k => away[j] < away[k]
  PROVE  LET visited == {i \in all : \A j, k \in all :
                           j < k /\ k < i => away[k] <= away[j]}
         IN /\ Closest(visited, away) = Closest(all, away)
            /\ all # {} => Closest(all, away) # {}
<1> DEFINE visited == {i \in all : \A j, k \in all :
                         j < k /\ k < i => away[k] <= away[j]}
<1>1. ASSUME all # {} PROVE \E i \in all : \A j \in all : away[i] <= away[j]
  <2> DEFINE T == {away[i] : i \in all}
  <2>1. T \in SUBSET Nat /\ T # {}
    BY <1>1
  <2>2. PICK x \in T : \A y \in T : x <= y
    <3> HIDE DEF T
    <3> QED  BY <2>1, LeastNumber
  <2>3. PICK i \in all : x = away[i]
    BY <2>2
  <2> QED  BY <2>2, <2>3
<1>2. ASSUME NEW i \in all, \A j \in all : away[i] <= away[j]
      PROVE  i \in visited
  <2> SUFFICES ASSUME NEW j \in all, NEW k \in all, j < k, k < i
               PROVE  FALSE
    OBVIOUS
  <2>1. start <= j /\ j \in Nat /\ k \in Nat /\ i \in Nat
    OBVIOUS
  <2>2. start < k
    BY <2>1
  <2>3. away[k] < away[i]
    BY <2>2
  <2>4. away[i] <= away[k] /\ away[i] \in Nat /\ away[k] \in Nat
    BY <1>2
  <2> QED  BY <2>3, <2>4
<1>3. visited \subseteq all
  OBVIOUS
<1> HIDE DEF visited
<1>4. ASSUME NEW i \in Closest(visited, away) PROVE i \in Closest(all, away)
  <2>1. i \in all /\ \A j \in visited : away[i] <= away[j]
    BY <1>3, <1>4 DEF Closest
  <2>2. PICK m \in all : \A j \in all : away[m] <= away[j]
    BY <1>1, <2>1
  <2>3. away[i] <= away[m]
    BY <1>2, <2>1, <2>2
  <2>4. ASSUME NEW j \in all PROVE away[i] <= away[j]
    <3>1. /\ away[i] \in Nat /\ away[m] \in Nat /\ away[j] \in Nat
          /\ away[m] <= away[j]
      BY <2>1, <2>2
    <3> QED  BY <2>3, <3>1
  <2> QED  BY <2>1, <2>4 DEF Closest
<1>5. ASSUME NEW i \in Closest(all, away) PROVE i \in Closest(visited, away)
  <2>1. i \in all /\ \A j \in all : away[i] <= away[j]
    BY <1>5 DEF Closest
  <2>2. i \in visited
    BY <1>2, <2>1
  <2> QED  BY <1>3, <2>1, <2>2 DEF Closest
<1>6. Closest(visited, away) = Closest(all, away)
  BY <1>4, <1>5
<1>7. all # {} => Closest(all, away) # {}
  BY <1>1 DEF Closest
<1> QED  BY <1>6, <1>7 DEF visited

Away(t, ts) == [i \in Samples(t) |-> Gap(times[t][i], ts)]

Ahead(t, start, sync) == {i \in start .. Count(t) : Searchable(t, i, sync)}

LEMMA AwayFacts ==
  ASSUME DemuxInv, phase = "open", Distinct, NEW t \in Tracks, NEW ts \in Nat
  PROVE  LET start == SeekStart(t, ts)
             away  == Away(t, ts)
         IN /\ \A i \in Samples(t) : away[i] \in Nat
            /\ \A j, k \in Samples(t) :
                 start < j /\ j < k => away[j] < away[k]
            /\ \A j \in Samples(t) : j < start => away[start] < away[j]
<1> DEFINE start == SeekStart(t, ts)
           away == Away(t, ts)
           n == Count(t)
<1>1. /\ start \in 1 .. n /\ \A i \in 1 .. n : times[t][i] <= ts <=> i <= start
      /\ n \in Nat /\ \A i \in 1 .. n : times[t][i] \in Nat
      /\ \A i, j \in 1 .. n : i < j => times[t][i] < times[t][j]
  BY StartIs, OpenTimes, Strictly DEF Samples
<1>2. Samples(t) = 1 .. n
  BY DEF Samples
<1> HIDE DEF start, n
<1>3. ASSUME NEW i \in 1 .. n
      PROVE  /\ away[i] \in Nat
             /\ i <= start => away[i] = ts - times[t][i]
             /\ i > start => away[i] = times[t][i] - ts
  <2>1. away[i] = Gap(times[t][i], ts)
    BY <1>2 DEF Away
  <2>2. times[t][i] \in Nat /\ (times[t][i] <= ts <=> i <= start)
    BY <1>1
  <2>3. i \in Nat /\ start \in Nat
    BY <1>1
  <2> HIDE DEF away
  <2> QED  BY <2>1, <2>2, <2>3 DEF Gap
<1> HIDE DEF away
<1>4. ASSUME NEW j \in 1 .. n, NEW k \in 1 .. n, start < j, j < k
      PROVE  away[j] < away[k]
  <2>1. start \in Nat /\ j \in Nat /\ k \in Nat
    BY <1>1
  <2>2. start < k
    BY <1>4, <2>1
  <2>3. /\ away[j] = times[t][j] - ts /\ away[k] = times[t][k] - ts
        /\ times[t][j] < times[t][k]
        /\ times[t][j] \in Nat /\ times[t][k] \in Nat
    BY <1>1, <1>3, <1>4, <2>1, <2>2
  <2> QED  BY <2>3
<1>5. ASSUME NEW j \in 1 .. n, j < start PROVE away[start] < away[j]
  <2>1. start \in Nat /\ j \in Nat /\ j <= start
    BY <1>1, <1>5
  <2>2. /\ away[j] = ts - times[t][j] /\ away[start] = ts - times[t][start]
        /\ times[t][j] < times[t][start]
        /\ times[t][j] \in Nat /\ times[t][start] \in Nat
    BY <1>1, <1>3, <1>5, <2>1
  <2> QED  BY <2>2
<1> QED  BY <1>2, <1>3, <1>4, <1>5 DEF start, away

LEMMA PromisedNearest ==
  ASSUME DemuxInv, phase = "open", NEW t \in Tracks, NEW ts \in Nat,
         NEW S \in SUBSET Samples(t)
  PROVE  Promise!Nearest(t, S, ts) = Promise!Least(Closest(S, Away(t, ts)))
<1>1. ASSUME NEW i \in S PROVE Promise!Distance(t, i, ts) = Away(t, ts)[i]
  BY DEF Promise!Distance, Away, Gap
<1>2. {i \in S : \A j \in S :
         Promise!Distance(t, i, ts) <= Promise!Distance(t, j, ts)}
        = Closest(S, Away(t, ts))
  BY <1>1 DEF Closest
<1> QED  BY <1>2 DEF Promise!Nearest

LEMMA PromisedLeast ==
  ASSUME NEW S, S # {} PROVE Promise!Least(S) = Least(S)
BY DEF Promise!Least, Least

LEMMA NearestFound ==
  ASSUME DemuxInv, phase = "open", Distinct, NEW t \in Tracks, NEW ts \in Nat,
         NEW sync \in BOOLEAN
  PROVE  LET start == SeekStart(t, ts)
             all == Ahead(t, start, sync)
             found == FindNearest(t, ts, sync, start)
         IN IF all = {} THEN found = 0
            ELSE found \in all /\ found = Promise!Nearest(t, all, ts)
<1> DEFINE start == SeekStart(t, ts)
           all == Ahead(t, start, sync)
           away == Away(t, ts)
           visited == {i \in all : \A j, k \in all :
                         j < k /\ k < i => away[k] <= away[j]}
           found == FindNearest(t, ts, sync, start)
<1>1. /\ start \in Samples(t)
      /\ \A i \in Samples(t) : away[i] \in Nat
      /\ \A j, k \in Samples(t) : start < j /\ j < k => away[j] < away[k]
  BY StartIs, AwayFacts
<1>2. found = Least(Closest(visited, away))
  BY DEF FindNearest, Closest, Ahead, Away
<1> HIDE DEF start, away
<1>3. all \subseteq Samples(t) /\ \A i \in all : start <= i
  BY <1>1 DEF Ahead, Samples
<1>4. Samples(t) \subseteq Nat
  BY DEF Samples
<1> HIDE DEF all
<1>5. /\ Closest(visited, away) = Closest(all, away)
      /\ all # {} => Closest(all, away) # {}
  <2>1. all \in SUBSET Nat /\ start \in Nat
    BY <1>1, <1>3, <1>4
  <2>2. /\ \A i \in all : away[i] \in Nat
        /\ \A j, k \in all : start < j /\ j < k => away[j] < away[k]
    BY <1>1, <1>3
  <2> QED  BY <1>3, <2>1, <2>2, ClosestVisited
<1> HIDE DEF visited
<1> DEFINE C == Closest(all, away)
<1>6. C \subseteq all
  BY DEF Closest
<1>7. found = Least(C) /\ (all # {} => C # {})
  BY <1>2, <1>5
<1> HIDE DEF C, found
<1>8. CASE all = {}
  <2>1. C = {}
    BY <1>6, <1>8
  <2>2. Least({}) = 0
    BY DEF Least
  <2> QED  BY <1>7, <1>8, <2>1, <2>2 DEF all, found, start
<1>9. CASE all # {}
  <2>1. C \in SUBSET Nat /\ C # {}
    BY <1>3, <1>4, <1>6, <1>7, <1>9
  <2>2. Least(C) \in C
    BY <2>1, LeastFacts
  <2>3. Promise!Nearest(t, all, ts) = Promise!Least(C)
    BY <1>3, PromisedNearest DEF C, away
  <2>4. Promise!Least(C) = Least(C)
    BY <2>1, PromisedLeast
  <2>5. found \in all /\ found = Promise!Nearest(t, all, ts)
    BY <1>6, <1>7, <2>2, <2>3, <2>4
  <2> QED  BY <1>9, <2>5 DEF all, found, start
<1> QED  BY <1>8, <1>9

(* No sample before the start is as near. *)
LEMMA NearestOfAll ==
  ASSUME DemuxInv, phase = "open", Distinct, NEW t \in Tracks, NEW ts \in Nat
  PROVE  LET all == Ahead(t, SeekStart(t, ts), FALSE)
         IN /\ all # {}
            /\ Promise!Nearest(t, all, ts) = Promise!Nearest(t, Samples(t), ts)
<1> DEFINE start == SeekStart(t, ts)
           all == Ahead(t, start, FALSE)
           away == Away(t, ts)
<1>1. /\ start \in Samples(t)
      /\ \A i \in Samples(t) : away[i] \in Nat
      /\ \A j \in Samples(t) : j < start => away[start] < away[j]
  BY StartIs, AwayFacts
<1> HIDE DEF start, away
<1>2. /\ all \subseteq Samples(t) /\ start \in all
      /\ \A i \in Samples(t) : i \in all \/ i < start
  BY <1>1 DEF Ahead, Samples, Searchable
<1> HIDE DEF all
<1>3. ASSUME NEW i \in Closest(all, away) PROVE i \in Closest(Samples(t), away)
  <2>1. i \in Samples(t) /\ \A j \in all : away[i] <= away[j]
    BY <1>2, <1>3 DEF Closest
  <2>2. ASSUME NEW j \in Samples(t) PROVE away[i] <= away[j]
    <3>1. CASE j \in all
      BY <2>1, <3>1
    <3>2. CASE j < start
      <4>1. away[i] <= away[start] /\ away[start] < away[j]
        BY <1>1, <1>2, <2>1, <3>2
      <4>2. away[i] \in Nat /\ away[start] \in Nat /\ away[j] \in Nat
        BY <1>1, <2>1
      <4> QED  BY <4>1, <4>2
    <3> QED  BY <1>2, <3>1, <3>2
  <2> QED  BY <2>1, <2>2 DEF Closest
<1>4. ASSUME NEW i \in Closest(Samples(t), away) PROVE i \in Closest(all, away)
  <2>1. i \in Samples(t) /\ \A j \in Samples(t) : away[i] <= away[j]
    BY <1>4 DEF Closest
  <2>2. ~(i < start)
    <3> SUFFICES ASSUME i < start PROVE FALSE
      OBVIOUS
    <3>1. away[start] < away[i] /\ away[i] <= away[start]
      BY <1>1, <2>1
    <3>2. away[i] \in Nat /\ away[start] \in Nat
      BY <1>1, <2>1
    <3> QED  BY <3>1, <3>2
  <2> QED  BY <1>2, <2>1, <2>2 DEF Closest
<1>5. Closest(all, away) = Closest(Samples(t), away)
  BY <1>3, <1>4
<1>6. /\ Promise!Nearest(t, all, ts) = Promise!Least(Closest(all, away))
      /\ Promise!Nearest(t, Samples(t), ts)
           = Promise!Least(Closest(Samples(t), away))
  BY <1>2, PromisedNearest DEF away
<1> QED  BY <1>2, <1>5, <1>6 DEF all, start

LEMMA AfterFound ==
  ASSUME DemuxInv, phase = "open", Distinct, NEW t \in Tracks, NEW ts \in Nat,
         NEW sync \in BOOLEAN
  PROVE  LET start == SeekStart(t, ts)
             after == {i \in Samples(t) : start < i /\ Searchable(t, i, sync)}
             found == FindAfter(t, times[t][start], sync, start)
         IN /\ found = Least(after)
            /\ IF after = {} THEN found = 0
               ELSE found \in after /\ found = Promise!Least(after)
<1> DEFINE start == SeekStart(t, ts)
           n == Count(t)
           after == {i \in Samples(t) : start < i /\ Searchable(t, i, sync)}
           found == FindAfter(t, times[t][start], sync, start)
           S == {i \in start .. n :
                   times[t][i] > times[t][start] /\ Searchable(t, i, sync)}
<1>1. /\ start \in 1 .. n /\ n \in Nat /\ Samples(t) = 1 .. n
      /\ \A i \in 1 .. n : times[t][i] \in Nat
      /\ \A i, j \in 1 .. n : i < j => times[t][i] < times[t][j]
  BY StartIs, OpenTimes, Strictly DEF Samples
<1>2. found = Least(S)
  BY DEF FindAfter
<1> HIDE DEF start, n
<1>3. ASSUME NEW i \in 1 .. n
      PROVE  i \in start .. n /\ times[t][i] > times[t][start] <=> start < i
  <2>1. i \in Nat /\ start \in Nat /\ n \in Nat
    BY <1>1
  <2>2. CASE start < i
    <3>1. times[t][start] < times[t][i] /\ i \in start .. n
      BY <1>1, <2>1, <2>2
    <3>2. times[t][start] \in Nat /\ times[t][i] \in Nat
      BY <1>1
    <3> QED  BY <2>2, <3>1, <3>2
  <2>3. CASE i = start
    <3>1. times[t][start] \in Nat
      BY <1>1
    <3> QED  BY <2>1, <2>3, <3>1
  <2>4. CASE i < start
    BY <2>1, <2>4
  <2> QED  BY <2>1, <2>2, <2>3, <2>4
<1>4. \A i \in start .. n : i \in 1 .. n
  BY <1>1
<1>5. S = after
  BY <1>1, <1>3, <1>4
<1>6. after \in SUBSET Nat
  BY <1>1
<1> HIDE DEF S, after, found
<1>7. /\ after = {} => Least(after) = 0
      /\ after # {} => Least(after) \in after
  BY <1>6, LeastFacts
<1>8. after # {} => Promise!Least(after) = Least(after)
  BY PromisedLeast
<1>9. /\ found = Least(after)
      /\ IF after = {} THEN found = 0
         ELSE found \in after /\ found = Promise!Least(after)
  BY <1>2, <1>5, <1>7, <1>8
<1> QED  BY <1>9 DEF found, after, start

Syncs(t) == {i \in Samples(t) : IsSync(t, i)}

(* Promise!Aims, with the sync samples of the track. *)
Aims(t, ts, method) ==
  LET last == SeekStart(t, ts)
      ahead == {i \in Syncs(t) : i >= last}
  IN CASE method = "previous" -> {last}
       [] method = "previous_sync" ->
            IF \E i \in Syncs(t) : i <= last THEN {last}
            ELSE IF ahead # {} THEN {Promise!Least(ahead)} ELSE {}
       [] method = "nearest" -> {Promise!Nearest(t, Samples(t), ts)}
       [] method = "nearest_sync" ->
            IF ahead # {} THEN {Promise!Nearest(t, ahead, ts)} ELSE {}
       [] method = "next" -> IF last < Count(t) THEN {last + 1} ELSE {}
       [] method = "next_sync" ->
            IF ahead \ {last} # {} THEN {Promise!Least(ahead \ {last})} ELSE {}

LEMMA AimsAre ==
  ASSUME DemuxInv, phase = "open", Distinct, NEW t \in Tracks, NEW ts \in Nat,
         NEW method \in Methods
  PROVE  Promise!Aims(t, ts, method) = Aims(t, ts, method)
<1> DEFINE syncs == [u \in Tracks |-> {i \in Samples(u) : IsSync(u, i)}]
<1>1. syncs[t] = Syncs(t)
  BY DEF Syncs
<1>2. Promise!AtOrBefore(t, ts) = SeekStart(t, ts)
  BY StartIs
<1>3. Promise!Samples(t) = Samples(t)
  BY OpenTimes DEF Promise!Samples, Samples, Count
<1>4. Promise!After(t, ts) # {} <=> SeekStart(t, ts) < Count(t)
  <2>1. /\ Count(t) \in Nat /\ Samples(t) = 1 .. Count(t)
        /\ SeekStart(t, ts) \in 1 .. Count(t)
    BY OpenTimes, StartIs DEF Samples
  <2> DEFINE last == SeekStart(t, ts)
             n == Count(t)
  <2>2. Promise!After(t, ts) = {i \in 1 .. n : i > last}
    BY <1>2, <1>3, <2>1 DEF Promise!After
  <2>3. last \in 1 .. n /\ n \in Nat
    BY <2>1
  <2> HIDE DEF last, n
  <2>4. {i \in 1 .. n : i > last} # {} <=> last < n
    <3>1. last < n => n \in {i \in 1 .. n : i > last}
      BY <2>3
    <3>2. ASSUME NEW i \in {j \in 1 .. n : j > last} PROVE last < n
      BY <2>3
    <3> QED  BY <3>1, <3>2
  <2> QED  BY <2>2, <2>4 DEF last, n
<1> HIDE DEF syncs
<1>5. CASE method = "previous"
  BY <1>2, <1>5 DEF Promise!Aims, Aims
<1>6. CASE method = "previous_sync"
  BY <1>1, <1>2, <1>6 DEF Promise!Aims, Aims, syncs
<1>7. CASE method = "nearest"
  BY <1>3, <1>7 DEF Promise!Aims, Aims
<1>8. CASE method = "nearest_sync"
  BY <1>1, <1>2, <1>8 DEF Promise!Aims, Aims, syncs
<1>9. CASE method = "next"
  BY <1>2, <1>4, <1>9 DEF Promise!Aims, Aims
<1>10. CASE method = "next_sync"
  BY <1>1, <1>2, <1>10 DEF Promise!Aims, Aims, syncs
<1> QED  BY <1>5, <1>6, <1>7, <1>8, <1>9, <1>10 DEF Methods

ShownFirst(t, ts, method) ==
  IF SeekStart(t, ts) <= Found(t, ts, method) THEN Found(t, ts, method)
  ELSE SeekStart(t, ts)

LEMMA SeekAims ==
  ASSUME DemuxInv, phase = "open", Distinct, NEW t \in Tracks, NEW ts \in Nat,
         NEW method \in Methods
  PROVE  IF Found(t, ts, method) = 0 THEN Aims(t, ts, method) = {}
         ELSE Aims(t, ts, method) = {ShownFirst(t, ts, method)}
<1> DEFINE start == SeekStart(t, ts)
           n == Count(t)
           found == Found(t, ts, method)
           after(sync) ==
             {i \in Samples(t) : start < i /\ Searchable(t, i, sync)}
           next(sync) == FindAfter(t, times[t][start], sync, start)
           ahead == {i \in Syncs(t) : i >= start}
           near(sync) == FindNearest(t, ts, sync, start)
<1>1. /\ n \in Nat \ {0} /\ start \in 1 .. n /\ Samples(t) = 1 .. n
      /\ keys[t] \subseteq 1 .. n
  BY OpenTimes, StartIs DEF Samples
<1>2. /\ next(TRUE) = Least(after(TRUE)) /\ next(FALSE) = Least(after(FALSE))
      /\ IF after(TRUE) = {} THEN next(TRUE) = 0
         ELSE next(TRUE) \in after(TRUE)
              /\ next(TRUE) = Promise!Least(after(TRUE))
  BY AfterFound
<1>3. /\ IF Ahead(t, start, TRUE) = {} THEN near(TRUE) = 0
         ELSE /\ near(TRUE) \in Ahead(t, start, TRUE)
              /\ near(TRUE) = Promise!Nearest(t, Ahead(t, start, TRUE), ts)
      /\ near(FALSE) \in Ahead(t, start, FALSE)
      /\ near(FALSE) = Promise!Nearest(t, Samples(t), ts)
  BY NearestFound, NearestOfAll
<1>4. /\ start \in Samples(t)
      /\ PrevSync(t, start) \in {0} \cup {j \in keys[t] : j < start}
      /\ PrevSync(t, start) = 0 => \A j \in keys[t] : ~(j < start)
  BY <1>1, PrevSyncFacts
<1>5. /\ method = "previous"      => found = start
      /\ method = "previous_sync" =>
           found = IF IsSync(t, start) THEN start
                   ELSE IF PrevSync(t, start) # 0 THEN PrevSync(t, start)
                   ELSE next(TRUE)
      /\ method = "nearest"       => found = near(FALSE)
      /\ method = "nearest_sync"  => found = near(TRUE)
      /\ method = "next"          => found = next(FALSE)
      /\ method = "next_sync"     => found = next(TRUE)
  BY DEF Found, SeekSample
<1>6. /\ \A i \in Ahead(t, start, TRUE) : i \in Nat /\ start <= i
      /\ \A i \in Ahead(t, start, FALSE) : i \in Nat /\ start <= i
  <2>1. \A i \in start .. n : i \in Nat /\ start <= i
    <3>1. start \in Nat /\ n \in Nat
      BY <1>1
    <3> HIDE DEF start, n
    <3> QED  BY <3>1
  <2> HIDE DEF start
  <2> QED  BY <2>1 DEF Ahead
<1>7. \A sync \in BOOLEAN : \A i \in after(sync) :
        i \in Nat /\ start <= i /\ i # 0
  BY <1>1
<1>8. /\ ahead = Ahead(t, start, TRUE)
      /\ \A i \in 1 .. n : i \in Syncs(t) <=> IsSync(t, i)
      /\ Syncs(t) \subseteq 1 .. n
  BY <1>1 DEF Ahead, Syncs, Searchable
<1>9. ahead \ {start} = after(TRUE)
  BY <1>1 DEF Syncs, Searchable
<1>10. /\ method = "previous" => Aims(t, ts, method) = {start}
       /\ method = "previous_sync" =>
            Aims(t, ts, method) =
              IF \E i \in Syncs(t) : i <= start THEN {start}
              ELSE IF ahead # {} THEN {Promise!Least(ahead)} ELSE {}
       /\ method = "nearest" =>
            Aims(t, ts, method) = {Promise!Nearest(t, Samples(t), ts)}
       /\ method = "nearest_sync" =>
            Aims(t, ts, method) =
              IF ahead # {} THEN {Promise!Nearest(t, ahead, ts)} ELSE {}
       /\ method = "next" =>
            Aims(t, ts, method) = IF start < n THEN {start + 1} ELSE {}
       /\ method = "next_sync" =>
            Aims(t, ts, method) =
              IF ahead \ {start} # {} THEN {Promise!Least(ahead \ {start})}
              ELSE {}
  BY DEF Aims
<1> DEFINE aims == Aims(t, ts, method)
           shown == IF start <= found THEN found ELSE start
           Goal == IF found = 0 THEN aims = {} ELSE aims = {shown}
<1> SUFFICES Goal
  BY DEF ShownFirst
<1>11. start # 0 /\ start \in Nat /\ start <= start
  BY <1>1
<1> HIDE DEF start, n, found, aims
<1>12. CASE method = "previous"
  BY <1>5, <1>10, <1>11, <1>12 DEF aims
<1>13. CASE method = "previous_sync"
  <2>1. CASE IsSync(t, start)
    <3>1. found = start /\ start \in Syncs(t)
      BY <1>1, <1>5, <1>8, <1>13, <2>1
    <3>2. aims = {start}
      BY <1>10, <1>11, <1>13, <3>1 DEF aims
    <3> QED  BY <1>11, <3>1, <3>2
  <2>2. CASE ~IsSync(t, start) /\ PrevSync(t, start) # 0
    <3> DEFINE p == PrevSync(t, start)
    <3>1. found = p /\ p \in keys[t] /\ p < start /\ p \in 1 .. n
      BY <1>1, <1>4, <1>5, <1>13, <2>2
    <3>2. p \in Syncs(t) /\ p <= start
      BY <1>8, <1>11, <3>1 DEF IsSync
    <3>3. aims = {start}
      BY <1>10, <1>13, <3>2 DEF aims
    <3>4. found # 0 /\ ~(start <= found)
      BY <1>11, <3>1
    <3> QED  BY <3>3, <3>4
  <2>3. CASE ~IsSync(t, start) /\ PrevSync(t, start) = 0
    <3>1. found = next(TRUE)
      BY <1>5, <1>13, <2>3
    <3>2. start \notin Syncs(t) /\ \A i \in Syncs(t) : ~(i <= start)
      <4>1. keys[t] # {} /\ \A j \in keys[t] : ~(j < start) /\ j # start
        BY <1>4, <2>3 DEF IsSync
      <4>2. \A i \in Syncs(t) : i \in keys[t] /\ i \in Nat
        BY <1>8, <4>1 DEF IsSync
      <4> QED  BY <1>11, <4>1, <4>2
    <3>3. ahead = after(TRUE)
      BY <1>9, <3>2
    <3>4. aims = IF ahead # {} THEN {Promise!Least(ahead)} ELSE {}
      BY <1>10, <1>13, <3>2 DEF aims
    <3> HIDE DEF ahead
    <3>5. CASE after(TRUE) = {}
      BY <1>2, <3>1, <3>3, <3>4, <3>5
    <3>6. CASE after(TRUE) # {}
      <4>1. found \in after(TRUE) /\ found = Promise!Least(after(TRUE))
        BY <1>2, <3>1, <3>6
      <4>2. found # 0 /\ start <= found
        BY <1>7, <4>1
      <4>3. aims = {found}
        BY <3>3, <3>4, <3>6, <4>1
      <4> QED  BY <4>2, <4>3
    <3> QED  BY <3>5, <3>6
  <2> QED  BY <2>1, <2>2, <2>3
<1>14. CASE method = "nearest"
  <2>1. found = near(FALSE) /\ aims = {near(FALSE)}
    BY <1>3, <1>5, <1>10, <1>14 DEF aims
  <2>2. found \in Ahead(t, start, FALSE)
    BY <1>3, <2>1
  <2>3. start <= found /\ found \in Nat
    BY <1>6, <2>2
  <2>4. found # 0
    BY <1>11, <2>3
  <2> QED  BY <2>1, <2>3, <2>4
<1>15. CASE method = "nearest_sync"
  <2>1. found = near(TRUE)
    BY <1>5, <1>15
  <2>2. aims = IF ahead # {} THEN {Promise!Nearest(t, ahead, ts)} ELSE {}
    BY <1>10, <1>15 DEF aims
  <2> HIDE DEF ahead
  <2>3. CASE ahead = {}
    BY <1>3, <1>8, <2>1, <2>2, <2>3
  <2>4. CASE ahead # {}
    <3>1. found \in Ahead(t, start, TRUE) /\ aims = {found}
      BY <1>3, <1>8, <2>1, <2>2, <2>4
    <3>2. start <= found /\ found \in Nat
      BY <1>6, <3>1
    <3>3. found # 0
      BY <1>11, <3>2
    <3> QED  BY <3>1, <3>2, <3>3
  <2> QED  BY <2>3, <2>4
<1>16. CASE method = "next"
  <2>1. found = Least(after(FALSE))
    BY <1>2, <1>5, <1>16
  <2>2. \A i \in 1 .. n : i \in after(FALSE) <=> start < i
    BY <1>1 DEF Searchable
  <2>3. after(FALSE) \subseteq 1 .. n
    BY <1>1
  <2> DEFINE A == after(FALSE)
  <2>6. /\ A \subseteq 1 .. n /\ n \in Nat /\ start \in 1 .. n
        /\ \A i \in 1 .. n : i \in A <=> start < i
    BY <1>1, <2>2, <2>3
  <2>7. found = Least(A)
    BY <2>1
  <2> HIDE DEF A
  <2>4. CASE start < n
    <3>1. start + 1 \in A /\ \A j \in A : start + 1 <= j
      BY <2>4, <2>6
    <3>2. A \in SUBSET Nat
      BY <2>6
    <3>3. found = start + 1
      BY <2>7, <3>1, <3>2, LeastIs
    <3>4. aims = {start + 1}
      BY <1>10, <1>16, <2>4 DEF aims
    <3> QED  BY <1>11, <3>3, <3>4
  <2>5. CASE ~(start < n)
    <3>1. A = {}
      BY <2>5, <2>6
    <3>2. Least({}) = 0
      BY DEF Least
    <3>3. found = 0
      BY <2>7, <3>1, <3>2
    <3>4. aims = {}
      BY <1>10, <1>16, <2>5 DEF aims
    <3> QED  BY <3>3, <3>4
  <2> QED  BY <2>4, <2>5
<1>17. CASE method = "next_sync"
  <2>1. found = next(TRUE)
    BY <1>5, <1>17
  <2>2. aims = IF after(TRUE) # {} THEN {Promise!Least(after(TRUE))} ELSE {}
    BY <1>9, <1>10, <1>17 DEF aims
  <2>3. CASE after(TRUE) = {}
    BY <1>2, <2>1, <2>2, <2>3
  <2>4. CASE after(TRUE) # {}
    <3>1. found \in after(TRUE) /\ found = Promise!Least(after(TRUE))
      BY <1>2, <2>1, <2>4
    <3>2. found # 0 /\ start <= found
      BY <1>7, <3>1
    <3>3. aims = {found}
      BY <2>2, <2>4, <3>1
    <3> QED  BY <3>2, <3>3
  <2> QED  BY <2>3, <2>4
<1> QED  BY <1>12, <1>13, <1>14, <1>15, <1>16, <1>17 DEF Methods

(* The sample at which a seek has a track, and the one it then shows first,*)
(* are the ones the method names, whatever the estimate that the search    *)
(* begins with; and it only fails where there is no such sample.           *)
THEOREM SeeksFindThem == Spec => []SeeksFindAims
<1>1. ASSUME DemuxInv PROVE SeeksFindAims
  <2> SUFFICES ASSUME phase = "open", Distinct, NEW t \in Tracks,
                      NEW time \in Sought, NEW method \in Methods
               PROVE  LET ts    == UsecToSampleTime(time, Timescale[t])
                          start == SeekStart(t, ts)
                          found == SeekSample(t, start, ts, method)
                          shown == IF start <= found THEN found ELSE start
                          aims  == Promise!Aims(t, ts, method)
                      IN IF found = 0 THEN aims = {}
                         ELSE /\ shown \in aims
                              /\ method \in {"previous_sync", "nearest_sync",
                                             "next_sync"}
                                   => IsSync(t, found)
    BY DEF SeeksFindAims
  <2> DEFINE ts    == UsecToSampleTime(time, Timescale[t])
             start == SeekStart(t, ts)
             found == SeekSample(t, start, ts, method)
             shown == IF start <= found THEN found ELSE start
             aims  == Promise!Aims(t, ts, method)
  <2>1. ts \in Nat
    <3>1. time \in Nat /\ Timescale[t] \in Nat
      BY Constants
    <3> QED  BY <3>1, UsecToSampleTimeType
  <2> HIDE DEF ts
  <2>2. aims = Aims(t, ts, method)
    BY <1>1, <2>1, AimsAre
  <2>3. IF found = 0 THEN aims = {} ELSE aims = {shown}
    BY <1>1, <2>1, <2>2, SeekAims DEF Found, ShownFirst
  <2>4. Exact(method) /\ found # 0 => IsSync(t, found)
    BY <1>1, <2>1, FoundType DEF Found
  <2>5. method \in {"previous_sync", "nearest_sync", "next_sync"}
          <=> Exact(method)
    BY DEF Exact
  <2> HIDE DEF aims, found, start
  <2>6. IF found = 0 THEN aims = {}
        ELSE /\ shown \in aims
             /\ method \in {"previous_sync", "nearest_sync", "next_sync"}
                  => IsSync(t, found)
    BY <2>3, <2>4, <2>5
  <2> QED  BY <2>6 DEF aims, found, start, ts
<1> QED  BY <1>1, InvHolds, PTL

-----------------------------------------------------------------------------
(* The next sample to be shown.                                            *)

ShownFrom(next, pending, ts) ==
  IF pending = 0 THEN next
  ELSE Least({i \in next .. Len(ts) + 1 :
                i \in 1 .. Len(ts) => ts[i] >= pending})

LEMMA AudibleIs ==
  ASSUME NEW t \in Tracks
  PROVE  /\ Audible(t) = ShownFrom(nextSample[t], pendingSeekTime[t], times[t])
         /\ Audible(t)'
              = ShownFrom(nextSample'[t], pendingSeekTime'[t], times'[t])
BY DEF Audible, ShownFrom, Samples, Count

LEMMA ShownFromType ==
  ASSUME NEW ts \in Seq(Nat), NEW next \in 1 .. Len(ts) + 1, NEW pending
  PROVE  ShownFrom(next, pending, ts) \in Nat
<1> DEFINE S == {i \in next .. Len(ts) + 1 :
                   i \in 1 .. Len(ts) => ts[i] >= pending}
<1>1. Len(ts) \in Nat
  OBVIOUS
<1>2. S \in SUBSET Nat
  BY <1>1
<1>3. next \in Nat
  BY <1>1
<1>4. \/ ShownFrom(next, pending, ts) = next
      \/ ShownFrom(next, pending, ts) = Least(S)
  BY DEF ShownFrom
<1> HIDE DEF S
<1>5. Least(S) \in Nat
  <2>1. CASE S = {}
    <3>1. Least(S) = 0
      BY <1>2, <2>1, LeastFacts
    <3> QED  BY <3>1
  <2>2. CASE S # {}
    <3>1. Least(S) \in S
      BY <1>2, <2>2, LeastFacts
    <3> QED  BY <1>2, <3>1
  <2> QED  BY <2>1, <2>2
<1> QED  BY <1>3, <1>4, <1>5

LEMMA AudibleType ==
  ASSUME DemuxInv, NEW t \in Tracks PROVE Audible(t) \in Nat
<1>1. times[t] \in Seq(Nat) /\ nextSample[t] \in 1 .. Len(times[t]) + 1
  BY DEF DemuxInv, TypeOK, Count
<1> QED  BY <1>1, AudibleIs, ShownFromType

(* A silent sample is passed over, and another one is shown. *)
LEMMA ShownFromStep ==
  ASSUME NEW ts \in Seq(Nat), NEW next \in 1 .. Len(ts), NEW pending \in Nat
  PROVE  IF ts[next] >= pending
         THEN ShownFrom(next, pending, ts) = next
         ELSE ShownFrom(next, pending, ts) = ShownFrom(next + 1, pending, ts)
<1> DEFINE n == Len(ts)
           S(k) == {i \in k .. n + 1 : i \in 1 .. n => ts[i] >= pending}
<1>1. n \in Nat /\ next \in Nat /\ ts[next] \in Nat
  OBVIOUS
<1>2. ASSUME ts[next] >= pending, pending # 0
      PROVE  ShownFrom(next, pending, ts) = next
  <2>1. S(next) \in SUBSET Nat /\ next \in S(next)
        /\ \A j \in S(next) : next <= j
    BY <1>1, <1>2
  <2>2. ShownFrom(next, pending, ts) = Least(S(next))
    BY <1>2 DEF ShownFrom
  <2> HIDE DEF S
  <2> QED  BY <2>1, <2>2, LeastIs
<1>3. ASSUME ~(ts[next] >= pending)
      PROVE  ShownFrom(next, pending, ts) = ShownFrom(next + 1, pending, ts)
  <2>1. pending # 0
    BY <1>1, <1>3
  <2>2. S(next) = S(next + 1)
    <3>1. next \notin S(next)
      BY <1>3
    <3>2. \A i \in next .. n + 1 : i = next \/ i \in next + 1 .. n + 1
      BY <1>1
    <3>3. \A i \in next + 1 .. n + 1 : i \in next .. n + 1
      BY <1>1
    <3>4. ASSUME NEW i \in S(next) PROVE i \in S(next + 1)
      BY <3>1, <3>2
    <3>5. ASSUME NEW i \in S(next + 1) PROVE i \in S(next)
      BY <3>3
    <3> HIDE DEF S
    <3> QED  BY <3>4, <3>5
  <2>3. /\ ShownFrom(next, pending, ts) = Least(S(next))
        /\ ShownFrom(next + 1, pending, ts) = Least(S(next + 1))
    BY <2>1 DEF ShownFrom
  <2> HIDE DEF S
  <2> QED  BY <2>2, <2>3
<1>4. pending = 0 => ShownFrom(next, pending, ts) = next
  BY DEF ShownFrom
<1> QED  BY <1>1, <1>2, <1>3, <1>4

(* After a seek, the sample shown first is the one found or, where that is *)
(* before it, the last one that is not after the time.                     *)
LEMMA MovedShows ==
  ASSUME DemuxInv, phase = "open", Distinct, NEW t \in Tracks,
         NEW time \in Nat, NEW method \in Methods, times' = times,
         Moved(t, time, method)
  PROVE  Audible(t)' = ShownFirst(t, At(t, time), method)
<1> DEFINE f == Found(t, At(t, time), method)
           s == SeekStart(t, At(t, time))
           ts == times[t]
           n == Len(ts)
           shown == IF s <= f THEN f ELSE s
<1>1. /\ f \in 0 .. n /\ f # 0 /\ s \in 1 .. n /\ n \in Nat
      /\ ts[1] = 0 /\ \A i \in 1 .. n : ts[i] \in Nat
      /\ \A i, j \in 1 .. n : i < j => ts[i] < ts[j]
  BY AtType, FoundType, StartIs, OpenTimes, Strictly DEF Moved, Samples, Count
<1>2. /\ nextSample'[t] = f
      /\ pendingSeekTime'[t] = IF f = s THEN 0 ELSE ts[s]
  BY DEF Moved
<1>3. Audible(t)' = ShownFrom(f, IF f = s THEN 0 ELSE ts[s], ts)
  BY <1>2, AudibleIs
<1>4. ShownFirst(t, At(t, time), method) = shown
  BY DEF ShownFirst
<1> HIDE DEF f, s, ts, n
<1>5. f \in 1 .. n /\ f \in Nat /\ s \in Nat
  BY <1>1
<1>6. CASE f = s
  BY <1>3, <1>4, <1>5, <1>6 DEF ShownFrom
<1>7. CASE f # s /\ ts[s] = 0
  <2>1. s = 1
    <3>1. 1 \in 1 .. n /\ (s # 1 => 1 < s)
      BY <1>1
    <3>2. s # 1 => ts[1] < ts[s]
      BY <1>1, <3>1
    <3> QED  BY <1>1, <1>7, <3>2
  <2>2. s <= f
    BY <1>5, <2>1
  <2> QED  BY <1>3, <1>4, <1>7, <2>2 DEF ShownFrom
<1>8. CASE f # s /\ ts[s] # 0
  <2> DEFINE S == {i \in f .. n + 1 : i \in 1 .. n => ts[i] >= ts[s]}
  <2>1. Audible(t)' = Least(S)
    BY <1>3, <1>8 DEF ShownFrom, n
  <2>2. \A i \in 1 .. n : ts[i] >= ts[s] <=> i >= s
    <3> SUFFICES ASSUME NEW i \in 1 .. n PROVE ts[i] >= ts[s] <=> i >= s
      OBVIOUS
    <3>1. ts[i] \in Nat /\ ts[s] \in Nat /\ i \in Nat
      BY <1>1
    <3>2. /\ i < s => ts[i] < ts[s]
          /\ s < i => ts[s] < ts[i]
      BY <1>1
    <3>3. CASE i = s
      BY <1>5, <3>1, <3>3
    <3>4. CASE i < s
      BY <1>5, <3>1, <3>2, <3>4
    <3>5. CASE s < i
      BY <1>5, <3>1, <3>2, <3>5
    <3> QED  BY <1>5, <3>1, <3>3, <3>4, <3>5
  <2>3. shown \in f .. n + 1 /\ shown >= s /\ shown \in Nat /\ shown \in 1 .. n
    BY <1>1, <1>5
  <2>4. shown \in S
    BY <2>2, <2>3
  <2>5. ASSUME NEW j \in S PROVE shown <= j
    <3>1. j \in Nat /\ f <= j /\ j \in f .. n + 1
      BY <1>1, <1>5
    <3>2. CASE j \in 1 .. n
      <4>1. j >= s
        BY <2>2, <3>2
      <4> QED  BY <1>5, <3>1, <4>1
    <3>3. CASE j = n + 1
      BY <1>1, <2>3, <3>3
    <3> QED  BY <1>1, <1>5, <3>1, <3>2, <3>3
  <2>6. S \in SUBSET Nat
    BY <1>1, <1>5
  <2> HIDE DEF S, shown
  <2> QED  BY <1>4, <2>1, <2>4, <2>5, <2>6, LeastIs
<1> QED  BY <1>6, <1>7, <1>8

(* The times sought are among the moments. *)
LEMMA SoughtMoments ==
  ASSUME DemuxInv, phase = "open", NEW time \in Nat,
         \/ time \in Sought
         \/ \E t \in Tracks : \E i \in Samples(t) : time = SampleUsec(t, i)
  PROVE  [t \in Tracks |-> At(t, time)] \in Moments
<1> DEFINE samples == UNION {{SampleTimeToUsec(x, Timescale[t]) :
                                x \in 0 .. (MaxSamples[t] - 1) * (Wrap - 1)} :
                               t \in Tracks}
<1>1. ASSUME NEW t \in Tracks, NEW i \in Samples(t), time = SampleUsec(t, i)
      PROVE  time \in samples
  <2> DEFINE w == Wrap - 1
             x == times[t][i]
             m == MaxSamples[t]
  <2>1. x \in Nat /\ x <= (i - 1) * w /\ i \in 1 .. Count(t)
    BY OpenTimes DEF Samples
  <2>2. Count(t) = Len(dts[t]) /\ Len(dts[t]) <= m /\ Count(t) \in Nat
    BY OpenTimes DEF DemuxInv
  <2>3. w \in Nat /\ m \in Nat
    BY Constants
  <2> HIDE DEF w, x, m
  <2>4. i \in Nat /\ i - 1 \in Nat /\ m - i \in Nat
    BY <2>1, <2>2, <2>3
  <2>5. (m - 1) * w = (i - 1) * w + (m - i) * w
    <3> DEFINE a == i - 1
               b == m - i
    <3>1. a \in Nat /\ b \in Nat /\ m - 1 = a + b
      BY <2>3, <2>4
    <3> HIDE DEF a, b
    <3>2. (a + b) * w = a * w + b * w
      BY <2>3, <3>1
    <3> QED  BY <3>1, <3>2 DEF a, b
  <2>6. (i - 1) * w \in Nat /\ (m - i) * w \in Nat
    BY <2>3, <2>4, ProductType
  <2> DEFINE p == (i - 1) * w
             q == (m - i) * w
             r == (m - 1) * w
  <2>7. r = p + q /\ p \in Nat /\ q \in Nat /\ x <= p
    BY <2>1, <2>5, <2>6
  <2> HIDE DEF p, q, r
  <2>8. x \in 0 .. r
    BY <2>1, <2>7
  <2>9. x \in 0 .. (MaxSamples[t] - 1) * (Wrap - 1)
    BY <2>8 DEF r, m, w
  <2> QED  BY <1>1, <2>9 DEF SampleUsec, x
<1>2. time \in Sought \cup samples
  BY <1>1
<1> HIDE DEF samples
<1>3. [t \in Tracks |-> At(t, time)]
        \in {[t \in Tracks |-> UsecToSampleTime(u, Timescale[t])] :
               u \in Sought \cup samples}
  BY <1>2 DEF At
<1> QED  BY <1>3 DEF Moments, samples

-----------------------------------------------------------------------------
(* The demuxer implements Playback.                                        *)

SyncOf == [t \in Tracks |-> Syncs(t)]
AtOf   == [t \in Tracks |-> Audible(t)]

(* Promise!Next, one disjunct after the other. *)
LEMMA PromisedQuiet ==
  ASSUME UNCHANGED times, SyncOf' = SyncOf, AtOf' = AtOf
  PROVE  UNCHANGED Promise!vars
BY DEF Promise!vars, SyncOf, AtOf, Syncs

LEMMA PromisedOpen ==
  ASSUME \A t \in Tracks : times[t] = <<>>,
         times' \in [Tracks -> Seq(Nat)], SyncOf' \in [Tracks -> SUBSET Nat],
         AtOf' = [t \in Tracks |-> 1]
  PROVE  Promise!Next
<1>1. Promise!Open
  BY DEF Promise!Open, Promise!Samples, SyncOf, AtOf, Syncs
<1> QED  BY <1>1 DEF Promise!Next

LEMMA PromisedShow ==
  ASSUME NEW t \in Tracks, AtOf[t] \in DOMAIN times[t],
         AtOf' = [AtOf EXCEPT ![t] = AtOf[t] + 1],
         UNCHANGED times, SyncOf' = SyncOf
  PROVE  Promise!Next
<1>1. Promise!Show(t)
  BY DEF Promise!Show, Promise!Samples, SyncOf, AtOf, Syncs
<1> QED  BY <1>1 DEF Promise!Next

LEMMA PromisedAmongEquals ==
  ASSUME ~Distinct, AtOf' \in [Tracks -> Nat],
         UNCHANGED times, SyncOf' = SyncOf
  PROVE  Promise!Next
<1>1. Promise!SeekAmongEquals
  BY DEF Promise!SeekAmongEquals, Distinct, SyncOf, AtOf, Syncs
<1> QED  BY <1>1 DEF Promise!Next

PromisedMove(ts, method, t) ==
  IF \A u \in 1 .. t : Promise!Aims(u, ts[u], method) # {}
  THEN AtOf'[t] \in Promise!Aims(t, ts[t], method)
  ELSE AtOf'[t] = AtOf[t]

LEMMA PromisedSeek ==
  ASSUME NEW ts \in Moments, NEW method \in Methods,
         AtOf' \in [Tracks -> Nat],
         \A t \in Tracks : PromisedMove(ts, method, t),
         UNCHANGED times, SyncOf' = SyncOf
  PROVE  Promise!Next
<1> DEFINE aims == [t \in Tracks |-> Promise!Aims(t, ts[t], method)]
           moved == {t \in Tracks : \A u \in 1 .. t : aims[u] # {}}
           at == [t \in Tracks |-> Audible(t)]
           sync == [t \in Tracks |-> {i \in Samples(t) : IsSync(t, i)}]
<1>1. at = AtOf /\ at' = AtOf' /\ sync = SyncOf /\ sync' = SyncOf'
  BY DEF AtOf, SyncOf, Syncs
<1>2. ASSUME NEW t \in Tracks
      PROVE  IF t \in moved THEN at'[t] \in aims[t] ELSE at'[t] = at[t]
  <2>1. PromisedMove(ts, method, t) /\ aims[t] = Promise!Aims(t, ts[t], method)
    OBVIOUS
  <2>2. \A u \in 1 .. t : aims[u] = Promise!Aims(u, ts[u], method)
    BY Constants
  <2>3. t \in moved <=>
          \A u \in 1 .. t : Promise!Aims(u, ts[u], method) # {}
    <3> HIDE DEF aims
    <3> QED  BY <2>2
  <2> HIDE DEF aims, moved, at
  <2> QED  BY <1>1, <2>1, <2>3 DEF PromisedMove
<1>3. Promise!Seek(ts, method)
  <2>1. /\ at' \in [Tracks -> Nat]
        /\ \A t \in Tracks : IF t \in moved THEN at'[t] \in aims[t]
                              ELSE at'[t] = at[t]
        /\ UNCHANGED <<times, sync>>
    BY <1>1, <1>2
  <2> QED  BY <2>1 DEF Promise!Seek
<1>4. method \in Promise!Methods
  BY DEF Promise!Methods, Methods
<1> QED  BY <1>3, <1>4 DEF Promise!Next

(* What becomes of the sync samples. *)
LEMMA SyncsAre ==
  ASSUME UNCHANGED <<times, keys>> PROVE SyncOf' = SyncOf
BY DEF SyncOf, Syncs, Samples, Count, IsSync

LEMMA AudibleAtFirst ==
  ASSUME NEW t \in Tracks, Untouched(t) PROVE Audible(t) = 1
BY AudibleIs DEF Untouched, ShownFrom

LEMMA AtOfType == ASSUME DemuxInv PROVE AtOf \in [Tracks -> Nat]
BY AudibleType DEF AtOf

(* Its steps. *)
AudibleSame(t) == Audible(t)' = Audible(t)

LEMMA SameAudible ==
  ASSUME NEW t \in Tracks, times' = times, nextSample'[t] = nextSample[t],
         pendingSeekTime'[t] = pendingSeekTime[t]
  PROVE  AudibleSame(t)
BY AudibleIs DEF AudibleSame

LEMMA AllSame ==
  ASSUME \A t \in Tracks : AudibleSame(t) PROVE AtOf' = AtOf
BY DEF AudibleSame, AtOf

LEMMA AddPromised ==
  ASSUME DemuxInv, NEW t \in Tracks, NEW time \in Dts, NEW sync \in BOOLEAN,
         AddSample(t, time, sync)
  PROVE  UNCHANGED Promise!vars
<1>1. /\ phase = "mux" /\ times' = times /\ nextSample' = nextSample
      /\ pendingSeekTime' = pendingSeekTime
  BY DEF AddSample
<1>2. ASSUME NEW u \in Tracks
      PROVE  Samples(u) = {} /\ Samples(u)' = {} /\ AudibleSame(u)
  <2>1. times[u] = <<>> /\ times'[u] = <<>>
    BY <1>1 DEF DemuxInv, Untouched
  <2>2. Samples(u) = {} /\ Samples(u)' = {}
    BY <2>1 DEF Samples, Count
  <2>3. AudibleSame(u)
    BY <1>1, SameAudible
  <2> QED  BY <2>2, <2>3
<1>3. SyncOf = [u \in Tracks |-> {}] /\ SyncOf' = [u \in Tracks |-> {}]
  BY <1>2 DEF SyncOf, Syncs
<1> QED  BY <1>1, <1>2, <1>3, AllSame, PromisedQuiet

LEMMA OpenPromised ==
  ASSUME DemuxInv, DemuxInv', Open
  PROVE  Promise!Next \/ UNCHANGED Promise!vars
<1>1. /\ phase = "mux" /\ keys' = keys /\ nextSample' = nextSample
      /\ pendingSeekTime' = pendingSeekTime
      /\ times' = times \/ phase' = "open"
  BY DEF Open
<1>2. \A u \in Tracks : Untouched(u)
  BY <1>1 DEF DemuxInv
<1>3. CASE times' = times
  <2>1. SyncOf' = SyncOf
    BY <1>1, <1>3, SyncsAre
  <2>2. \A u \in Tracks : AudibleSame(u)
    BY <1>1, <1>3, SameAudible
  <2> QED  BY <1>3, <2>1, <2>2, AllSame, PromisedQuiet
<1>4. CASE phase' = "open"
  <2>1. times' \in [Tracks -> Seq(Nat)]
    BY DEF DemuxInv, TypeOK
  <2>2. SyncOf' \in [Tracks -> SUBSET Nat]
    <3>1. ASSUME NEW u \in Tracks PROVE Syncs(u)' \in SUBSET Nat
      <4>1. times'[u] \in Seq(Nat)
        BY <2>1
      <4>2. Len(times'[u]) \in Nat
        BY <4>1
      <4>3. Samples(u)' \in SUBSET Nat
        BY <4>2 DEF Samples, Count
      <4> QED  BY <4>3 DEF Syncs
    <3> QED  BY <3>1 DEF SyncOf
  <2>3. AtOf' = [u \in Tracks |-> 1]
    <3>1. ASSUME NEW u \in Tracks PROVE Audible(u)' = 1
      <4>1. nextSample'[u] = 1 /\ pendingSeekTime'[u] = 0
        BY <1>1, <1>2 DEF Untouched
      <4> QED  BY <4>1, AudibleIs DEF ShownFrom
    <3> QED  BY <3>1 DEF AtOf
  <2>4. \A u \in Tracks : times[u] = <<>>
    BY <1>2 DEF Untouched
  <2> QED  BY <2>1, <2>2, <2>3, <2>4, PromisedOpen
<1> QED  BY <1>1, <1>3, <1>4

LEMMA GetPromised ==
  ASSUME DemuxInv, NEW t \in Tracks, NEW advance \in BOOLEAN,
         GetSample(t, advance)
  PROVE  Promise!Next \/ UNCHANGED Promise!vars
<1> DEFINE next == nextSample[t]
           pending == pendingSeekTime[t]
           ts == times[t]
<1>1. /\ phase = "open" /\ next <= Count(t) /\ times' = times /\ keys' = keys
      /\ pendingSeekTime' =
           [pendingSeekTime EXCEPT ![t] = IF ts[next] >= @ THEN 0 ELSE @]
      /\ nextSample' = IF advance THEN [nextSample EXCEPT ![t] = @ + 1]
                       ELSE nextSample
  BY DEF GetSample, media
<1>2. /\ ts \in Seq(Nat) /\ next \in 1 .. Len(ts) /\ pending \in Nat
      /\ nextSample \in [Tracks -> Nat] /\ pendingSeekTime \in [Tracks -> Nat]
      /\ DOMAIN ts = 1 .. Len(ts)
  <2>1. ts \in Seq(Nat) /\ next \in 1 .. Count(t) + 1 /\ pending \in Nat
        /\ nextSample \in [Tracks -> Nat]
        /\ pendingSeekTime \in [Tracks -> Nat]
    BY DEF DemuxInv, TypeOK
  <2>2. next \in 1 .. Len(ts)
    BY <1>1, <2>1 DEF Count
  <2> QED  BY <2>1, <2>2
<1>3. /\ pendingSeekTime'[t] = IF ts[next] >= pending THEN 0 ELSE pending
      /\ nextSample'[t] = IF advance THEN next + 1 ELSE next
      /\ \A u \in Tracks \ {t} : pendingSeekTime'[u] = pendingSeekTime[u]
                                 /\ nextSample'[u] = nextSample[u]
  BY <1>1, <1>2
<1>4. SyncOf' = SyncOf
  BY <1>1, SyncsAre
<1>5. \A u \in Tracks \ {t} : AudibleSame(u)
  BY <1>1, <1>3, SameAudible
<1>6. /\ Audible(t) = ShownFrom(next, pending, ts)
      /\ Audible(t)' = ShownFrom(nextSample'[t], pendingSeekTime'[t], ts)
  BY <1>1, AudibleIs
<1> HIDE DEF next, pending, ts
<1>7. IF ts[next] >= pending THEN ShownFrom(next, pending, ts) = next
      ELSE ShownFrom(next, pending, ts) = ShownFrom(next + 1, pending, ts)
  BY <1>2, ShownFromStep
<1>8. CASE ~(ts[next] >= pending)
  <2>1. AudibleSame(t)
    BY <1>3, <1>6, <1>7, <1>8 DEF AudibleSame
  <2>2. \A u \in Tracks : AudibleSame(u)
    BY <1>5, <2>1
  <2> QED  BY <1>1, <1>4, <2>2, AllSame, PromisedQuiet
<1>9. CASE ts[next] >= pending /\ ~advance
  <2>1. AudibleSame(t)
    BY <1>3, <1>6, <1>7, <1>9 DEF AudibleSame, ShownFrom
  <2>2. \A u \in Tracks : AudibleSame(u)
    BY <1>5, <2>1
  <2> QED  BY <1>1, <1>4, <2>2, AllSame, PromisedQuiet
<1>10. CASE ts[next] >= pending /\ advance
  <2>1. Audible(t) = next /\ Audible(t)' = next + 1
    BY <1>3, <1>6, <1>7, <1>10 DEF ShownFrom
  <2>2. AtOf[t] = next /\ AtOf[t] \in DOMAIN times[t]
    BY <1>2, <2>1 DEF AtOf, ts
  <2>3. \A u \in Tracks : Audible(u)' = IF u = t THEN AtOf[t] + 1 ELSE AtOf[u]
    BY <1>5, <2>1 DEF AtOf, AudibleSame
  <2>4. AtOf' = [AtOf EXCEPT ![t] = AtOf[t] + 1]
    BY <2>3 DEF AtOf
  <2> QED  BY <1>1, <1>4, <2>2, <2>4, PromisedShow
<1> QED  BY <1>8, <1>9, <1>10

LEMMA SeekPromised ==
  ASSUME DemuxInv, DemuxInv', phase = "open", NEW time \in Nat,
         NEW method \in Methods, SeekTo(time, method),
         \/ time \in Sought
         \/ \E t \in Tracks : \E i \in Samples(t) : time = SampleUsec(t, i)
  PROVE  Promise!Next
<1>1. times' = times /\ keys' = keys
  BY SeekMoves DEF media
<1>2. SyncOf' = SyncOf
  BY <1>1, SyncsAre
<1>3. AtOf' \in [Tracks -> Nat]
  <2>1. \A t \in Tracks : Audible(t)' \in Nat
    <3> SUFFICES ASSUME NEW t \in Tracks PROVE Audible(t)' \in Nat
      OBVIOUS
    <3>1. times'[t] \in Seq(Nat) /\ nextSample'[t] \in 1 .. Len(times'[t]) + 1
      BY DEF DemuxInv, TypeOK, Count
    <3> QED  BY <3>1, AudibleIs, ShownFromType
  <2> QED  BY <2>1 DEF AtOf
<1>4. CASE ~Distinct
  BY <1>1, <1>2, <1>3, <1>4, PromisedAmongEquals
<1>5. CASE Distinct
  <2> DEFINE ts == [t \in Tracks |-> At(t, time)]
  <2>1. ts \in Moments
    BY SoughtMoments
  <2>2. ASSUME NEW u \in Tracks
        PROVE  /\ ts[u] = At(u, time)
               /\ Promise!Aims(u, ts[u], method) # {}
                    <=> Found(u, At(u, time), method) # 0
               /\ Found(u, At(u, time), method) # 0 =>
                    ShownFirst(u, At(u, time), method)
                      \in Promise!Aims(u, ts[u], method)
    <3>1. ts[u] = At(u, time) /\ At(u, time) \in Nat
      BY AtType
    <3>2. Promise!Aims(u, At(u, time), method) = Aims(u, At(u, time), method)
      BY <1>5, <3>1, AimsAre
    <3>3. IF Found(u, At(u, time), method) = 0
          THEN Aims(u, At(u, time), method) = {}
          ELSE Aims(u, At(u, time), method)
                 = {ShownFirst(u, At(u, time), method)}
      BY <1>5, <3>1, SeekAims
    <3> QED  BY <3>1, <3>2, <3>3
  <2> HIDE DEF ts
  <2>3. ASSUME NEW t \in Tracks PROVE PromisedMove(ts, method, t)
    <3>1. 1 .. t \subseteq Tracks /\ t \in 1 .. t
      BY Constants
    <3>2. Moves(t, time, method)
            <=> \A u \in 1 .. t : Promise!Aims(u, ts[u], method) # {}
      BY <2>2, <3>1 DEF Moves
    <3>3. AtOf[t] = Audible(t) /\ AtOf'[t] = Audible(t)'
      BY DEF AtOf
    <3>4. CASE Moves(t, time, method)
      <4>1. Moved(t, time, method)
        BY <3>4, SeekOfEach
      <4>2. Audible(t)' = ShownFirst(t, At(t, time), method)
        BY <1>1, <1>5, <4>1, MovedShows
      <4>3. Found(t, At(t, time), method) # 0
        BY <4>1 DEF Moved
      <4>4. AtOf'[t] \in Promise!Aims(t, ts[t], method)
        BY <2>2, <3>3, <4>2, <4>3
      <4> QED  BY <3>2, <3>4, <4>4 DEF PromisedMove
    <3>5. CASE ~Moves(t, time, method)
      <4>1. Stays(t)
        BY <3>5, SeekOfEach
      <4>2. AudibleSame(t)
        BY <1>1, <4>1, SameAudible DEF Stays
      <4> QED  BY <3>2, <3>3, <3>5, <4>2 DEF PromisedMove, AudibleSame
    <3> QED  BY <3>4, <3>5
  <2> QED  BY <1>1, <1>2, <1>3, <2>1, <2>3, PromisedSeek
<1> QED  BY <1>4, <1>5

LEMMA PromisedStep ==
  DemuxInv /\ DemuxInv' /\ [Next]_vars => [Promise!Next]_(Promise!vars)
<1> SUFFICES ASSUME DemuxInv, DemuxInv', [Next]_vars
             PROVE  Promise!Next \/ UNCHANGED Promise!vars
  OBVIOUS
<1>1. ASSUME NEW t \in Tracks, NEW time \in Dts, NEW sync \in BOOLEAN,
             AddSample(t, time, sync)
      PROVE  UNCHANGED Promise!vars
  BY <1>1, AddPromised
<1>2. CASE Open
  BY <1>2, OpenPromised
<1>3. CASE SeekKills \/ UNCHANGED vars
  <2>1. /\ times' = times /\ keys' = keys /\ nextSample' = nextSample
        /\ pendingSeekTime' = pendingSeekTime
    BY <1>3 DEF SeekKills, vars
  <2>2. SyncOf' = SyncOf
    BY <2>1, SyncsAre
  <2>3. \A u \in Tracks : AudibleSame(u)
    BY <2>1, SameAudible
  <2> QED  BY <2>1, <2>2, <2>3, AllSame, PromisedQuiet
<1>4. ASSUME NEW t \in Tracks, NEW advance \in BOOLEAN, GetSample(t, advance)
      PROVE  Promise!Next \/ UNCHANGED Promise!vars
  BY <1>4, GetPromised
<1>5. ASSUME phase = "open", NEW time \in Nat, NEW method \in Methods,
             SeekTo(time, method),
             \/ time \in Sought
             \/ \E t \in Tracks : \E i \in Samples(t) : time = SampleUsec(t, i)
      PROVE  Promise!Next
  BY <1>5, SeekPromised
<1>6. CASE Next
  BY <1>1, <1>2, <1>3, <1>4, <1>5, <1>6, Seeks
<1> QED  BY <1>3, <1>6

LEMMA PromisedInit == Init => Promise!Init
<1> SUFFICES ASSUME Init PROVE Promise!Init
  OBVIOUS
<1>1. times = [t \in Tracks |-> <<>>]
  BY DEF Init
<1>2. SyncOf = [t \in Tracks |-> {}]
  BY <1>1 DEF SyncOf, Syncs, Samples, Count
<1>3. AtOf = [t \in Tracks |-> 1]
  <2>1. \A t \in Tracks : Audible(t) = 1
    BY DEF Init, Audible
  <2> QED  BY <2>1 DEF AtOf
<1> QED  BY <1>1, <1>2, <1>3 DEF Promise!Init, SyncOf, AtOf, Syncs

(* The demuxer implements Playback: reading moves a track one sample on,   *)
(* but for silent samples, which are not seen to be read; every other step *)
(* is a seek of all tracks to one time, up to a track that has no such     *)
(* sample.                                                                 *)
THEOREM PromiseIsPlayed == Spec => PlaysAsPromised
<1>1. Spec => [][Promise!Next]_(Promise!vars)
  BY InvHolds, PromisedStep, PTL DEF Spec
<1>2. Spec => Promise!Init
  BY PromisedInit DEF Spec
<1> QED  BY <1>1, <1>2, PTL DEF PlaysAsPromised, Promise!Spec

-----------------------------------------------------------------------------
(* From a time of a sample to microseconds and back.                       *)

LEMMA DivFacts ==
  ASSUME NEW a \in Nat, NEW d \in Nat \ {0}
  PROVE  /\ a \div d \in Nat
         /\ d * (a \div d) <= a /\ a < d * (a \div d) + d
OBVIOUS

LEMMA TimesMonotone ==
  ASSUME NEW d \in Nat, NEW p \in Nat, NEW q \in Nat, p <= q
  PROVE  d * p <= d * q
<1>1. PICK r \in Nat : q = p + r
  <2>1. q - p \in Nat /\ q = p + (q - p)
    OBVIOUS
  <2> QED  BY <2>1
<1>2. d * (p + r) = d * p + d * r
  OBVIOUS
<1>3. d * p \in Nat /\ d * r \in Nat
  BY ProductType
<1> DEFINE x == d * p
           y == d * r
<1>4. x \in Nat /\ y \in Nat
  BY <1>3
<1>5. d * q = x + y
  BY <1>1, <1>2
<1> HIDE DEF x, y
<1>6. x <= x + y
  BY <1>4
<1> QED  BY <1>5, <1>6 DEF x

LEMMA DivIs ==
  ASSUME NEW a \in Nat, NEW d \in Nat \ {0}, NEW q \in Nat,
         d * q <= a, a < d * q + d
  PROVE  a \div d = q
<1> DEFINE r == a \div d
<1>1. r \in Nat /\ d * r <= a /\ a < d * r + d
  BY DivFacts
<1> HIDE DEF r
<1>2. \A p \in Nat : d * (p + 1) = d * p + d
  OBVIOUS
<1>3. \A p \in Nat : d * p \in Nat /\ p + 1 \in Nat
  BY ProductType
<1>4. ~(r < q)
  <2>1. SUFFICES ASSUME r < q PROVE FALSE
    OBVIOUS
  <2>2. r + 1 <= q
    BY <1>1, <2>1
  <2>3. d * (r + 1) <= d * q
    BY <1>1, <1>3, <2>2, TimesMonotone
  <2> DEFINE x == d * r
             y == d * q
  <2>4. x + d <= y /\ y <= a /\ a < x + d /\ x \in Nat /\ y \in Nat
    BY <1>1, <1>2, <1>3, <2>3
  <2> HIDE DEF x, y
  <2> QED  BY <2>4
<1>5. ~(q < r)
  <2>1. SUFFICES ASSUME q < r PROVE FALSE
    OBVIOUS
  <2>2. q + 1 <= r
    BY <1>1, <2>1
  <2>3. d * (q + 1) <= d * r
    BY <1>1, <1>3, <2>2, TimesMonotone
  <2> DEFINE x == d * r
             y == d * q
  <2>4. y + d <= x /\ x <= a /\ a < y + d /\ x \in Nat /\ y \in Nat
    BY <1>1, <1>2, <1>3, <2>3
  <2> HIDE DEF x, y
  <2> QED  BY <2>4
<1>6. r = q
  BY <1>1, <1>4, <1>5
<1> QED  BY <1>6 DEF r

LEMMA HalfFacts ==
  ASSUME NEW n \in Nat
  PROVE  n \div 2 \in Nat /\ 2 * (n \div 2) <= n /\ n <= 2 * (n \div 2) + 1
OBVIOUS

(* Microseconds tell apart the times of a timescale that is not finer. *)
LEMMA RoundTrip ==
  ASSUME NEW x \in Nat, NEW scale \in Nat \ {0}, scale <= Usec
  PROVE  UsecToSampleTime(SampleTimeToUsec(x, scale), scale) = x
<1> DEFINE U == Usec
           h == scale \div 2
           k == U \div 2
           X == U * x
           a == X + h
           u == a \div scale
           P == scale * u
           b == P + k
<1>1. U \in Nat \ {0} /\ scale \in Nat \ {0} /\ scale <= U
  BY Constants
<1>2. /\ h \in Nat /\ 2 * h <= scale /\ scale <= 2 * h + 1
      /\ k \in Nat /\ 2 * k <= U /\ U <= 2 * k + 1
  BY <1>1, HalfFacts
<1>3. x * U = X /\ X \in Nat
  BY <1>1, ProductType
<1>4. SampleTimeToUsec(x, scale) = u
  BY <1>3 DEF SampleTimeToUsec
<1> HIDE DEF U, h, k
<1>5. a \in Nat
  BY <1>2, <1>3
<1> HIDE DEF a
<1>6. u \in Nat /\ P <= a /\ a < P + scale
  BY <1>1, <1>5, DivFacts
<1>7. P \in Nat /\ u * scale = P
  BY <1>1, <1>6, ProductType
<1>8. UsecToSampleTime(u, scale) = b \div U
  BY <1>7 DEF UsecToSampleTime, U, k
<1> HIDE DEF u
<1>9. b \in Nat
  BY <1>2, <1>7
<1>10. X <= b /\ b < X + U
  <2>1. a = X + h
    BY DEF a
  <2>2. b = P + k
    OBVIOUS
  <2> HIDE DEF X, P, b
  <2>3. X <= b
    BY <1>1, <1>2, <1>3, <1>6, <1>7, <2>1, <2>2
  <2>4. CASE scale < U
    <3>1. h + k < U
      BY <1>1, <1>2, <2>4
    <3>2. P <= X + h
      BY <1>6, <2>1
    <3> QED  BY <1>1, <1>2, <1>3, <1>7, <2>2, <2>3, <3>1, <3>2
  <2>5. CASE scale = U
    <3>1. h < scale
      BY <1>1, <1>2
    <3>2. X <= a /\ a < X + scale
      BY <1>1, <1>2, <1>3, <2>1, <3>1
    <3>3. a \div scale = x
      <4>1. scale * x <= a /\ a < scale * x + scale
        BY <2>5, <3>2 DEF X
      <4> QED  BY <1>1, <1>5, <4>1, DivIs
    <3>4. P = X
      BY <2>5, <3>3 DEF P, X, u
    <3>5. k < U
      BY <1>1, <1>2
    <3> QED  BY <1>1, <1>2, <1>3, <2>2, <2>3, <3>4, <3>5
  <2> QED  BY <1>1, <2>4, <2>5
<1>11. b \div U = x
  <2> HIDE DEF b
  <2> QED  BY <1>1, <1>9, <1>10, DivIs
<1> QED  BY <1>4, <1>8, <1>11 DEF u

(* So a seek to the time of a sample starts at the sample. *)
LEMMA SeekBack ==
  ASSUME DemuxInv, phase = "open", Distinct, NEW t \in Tracks,
         Timescale[t] <= Usec, NEW i \in Samples(t)
  PROVE  /\ SampleUsec(t, i) \in Nat
         /\ At(t, SampleUsec(t, i)) = times[t][i]
         /\ SeekStart(t, At(t, SampleUsec(t, i))) = i
<1> DEFINE x == times[t][i]
           start == SeekStart(t, x)
<1>1. x \in Nat /\ Timescale[t] \in Nat \ {0}
  BY OpenTimes, Constants
<1>2. SampleUsec(t, i) \in Nat
  BY <1>1, SampleTimeToUsecType DEF SampleUsec
<1>3. At(t, SampleUsec(t, i)) = x
  BY <1>1, RoundTrip DEF At, SampleUsec
<1>4. /\ start \in Samples(t)
      /\ \A j \in Samples(t) : times[t][j] <= x <=> j <= start
  BY <1>1, StartIs
<1>5. \A j, k \in Samples(t) : j < k => times[t][j] < times[t][k]
  BY Strictly
<1>6. \A j \in Samples(t) : times[t][j] \in Nat /\ j \in Nat
  BY OpenTimes DEF Samples
<1> HIDE DEF start
<1>7. i <= start
  BY <1>1, <1>4
<1>8. ~(i < start)
  <2>1. times[t][start] <= x
    BY <1>4, <1>6
  <2>2. i < start => x < times[t][start]
    BY <1>4, <1>5
  <2> QED  BY <1>1, <1>4, <1>6, <2>1, <2>2
<1>9. start = i
  BY <1>4, <1>6, <1>7, <1>8
<1> QED  BY <1>2, <1>3, <1>9 DEF start

LEMMA PrevReported ==
  ASSUME DemuxInv, phase = "open", Distinct, NEW t \in Tracks,
         NEW i \in Samples(t)
  PROVE  LET prev == PrevSyncSample(t, i)
         IN IF prev = 0 THEN \A j \in Syncs(t) : i <= j
            ELSE /\ prev \in Syncs(t) /\ prev < i
                 /\ \A j \in Syncs(t) : j <= prev \/ i <= j
<1> DEFINE n == Count(t)
           S == {j \in 1 .. i : times[t][j] < times[t][i]
                                /\ Searchable(t, j, TRUE)}
           prev == PrevSyncSample(t, i)
<1>1. n \in Nat \ {0} /\ Samples(t) = 1 .. n /\ i \in 1 .. n
  BY OpenTimes DEF Samples
<1>2. prev = Greatest(S)
  BY DEF PrevSyncSample, FindBefore
<1>3. \A j \in 1 .. n : times[t][j] \in Nat
  BY <1>1, OpenTimes
<1>4. \A j, k \in 1 .. n : j < k => times[t][j] < times[t][k]
  BY <1>1, Strictly
<1>5. \A j \in 1 .. n : j \in S <=> j < i /\ j \in Syncs(t)
  <2> SUFFICES ASSUME NEW j \in 1 .. n
               PROVE  j \in S <=> j < i /\ j \in Syncs(t)
    OBVIOUS
  <2>1. j \in Syncs(t) <=> Searchable(t, j, TRUE)
    BY <1>1 DEF Syncs, Searchable
  <2>2. j < i <=> j \in 1 .. i /\ times[t][j] < times[t][i]
    <3>1. j < i => times[t][j] < times[t][i]
      BY <1>1, <1>4
    <3>2. j = i => ~(times[t][j] < times[t][i])
      BY <1>1, <1>3
    <3> QED  BY <1>1, <3>1, <3>2
  <2> QED  BY <2>1, <2>2
<1>6. S \subseteq 1 .. n /\ S \in SUBSET (0 .. n)
  <2>1. \A j \in 1 .. i : j \in 1 .. n /\ j \in 0 .. n
    BY <1>1
  <2> HIDE DEF n
  <2> QED  BY <2>1
<1>7. Syncs(t) \subseteq 1 .. n
  BY <1>1 DEF Syncs
<1> HIDE DEF S, prev, n
<1>8. CASE S = {}
  <2>1. prev = 0
    BY <1>1, <1>2, <1>6, <1>8, GreatestFacts
  <2>2. ASSUME NEW j \in Syncs(t) PROVE i <= j
    <3>1. j \in 1 .. n /\ ~(j < i)
      BY <1>5, <1>7, <1>8
    <3> QED  BY <1>1, <3>1
  <2> QED  BY <2>1, <2>2 DEF prev
<1>9. CASE S # {}
  <2>1. prev \in S /\ \A j \in S : j <= prev
    BY <1>1, <1>2, <1>6, <1>9, GreatestFacts
  <2>2. prev \in 1 .. n /\ prev \in Syncs(t) /\ prev < i
    BY <1>5, <1>6, <2>1
  <2>3. prev # 0
    BY <1>1, <2>2
  <2>4. ASSUME NEW j \in Syncs(t) PROVE j <= prev \/ i <= j
    <3>1. j \in 1 .. n
      BY <1>7
    <3>2. CASE j < i
      BY <1>5, <2>1, <3>1, <3>2
    <3> QED  BY <1>1, <3>1, <3>2
  <2> QED  BY <2>2, <2>3, <2>4 DEF prev
<1> QED  BY <1>8, <1>9

LEMMA NextReported ==
  ASSUME DemuxInv, phase = "open", Distinct, NEW t \in Tracks,
         NEW i \in Samples(t)
  PROVE  LET next == NextSyncSample(t, i)
         IN IF next = 0 THEN \A j \in Syncs(t) : j <= i
            ELSE /\ next \in Syncs(t) /\ i < next
                 /\ \A j \in Syncs(t) : j <= i \/ next <= j
<1> DEFINE n == Count(t)
           S == {j \in i .. n : times[t][j] > times[t][i]
                                /\ Searchable(t, j, TRUE)}
           next == NextSyncSample(t, i)
<1>1. n \in Nat \ {0} /\ Samples(t) = 1 .. n /\ i \in 1 .. n
  BY OpenTimes DEF Samples
<1>2. next = Least(S)
  BY DEF NextSyncSample, FindAfter
<1>3. \A j \in 1 .. n : times[t][j] \in Nat
  BY <1>1, OpenTimes
<1>4. \A j, k \in 1 .. n : j < k => times[t][j] < times[t][k]
  BY <1>1, Strictly
<1>5. \A j \in 1 .. n : j \in S <=> i < j /\ j \in Syncs(t)
  <2> SUFFICES ASSUME NEW j \in 1 .. n
               PROVE  j \in S <=> i < j /\ j \in Syncs(t)
    OBVIOUS
  <2>1. j \in Syncs(t) <=> Searchable(t, j, TRUE)
    BY <1>1 DEF Syncs, Searchable
  <2>2. i < j <=> j \in i .. n /\ times[t][j] > times[t][i]
    <3>1. i < j => times[t][j] > times[t][i]
      BY <1>1, <1>3, <1>4
    <3>2. j = i => ~(times[t][j] > times[t][i])
      BY <1>1, <1>3
    <3> QED  BY <1>1, <3>1, <3>2
  <2> QED  BY <2>1, <2>2
<1>6. S \subseteq 1 .. n /\ S \in SUBSET Nat
  <2>1. \A j \in i .. n : j \in 1 .. n /\ j \in Nat
    BY <1>1
  <2> HIDE DEF n
  <2> QED  BY <2>1
<1>7. Syncs(t) \subseteq 1 .. n
  BY <1>1 DEF Syncs
<1> HIDE DEF S, next, n
<1>8. CASE S = {}
  <2>1. next = 0
    BY <1>2, <1>6, <1>8, LeastFacts
  <2>2. ASSUME NEW j \in Syncs(t) PROVE j <= i
    <3>1. j \in 1 .. n /\ ~(i < j)
      BY <1>5, <1>7, <1>8
    <3> QED  BY <1>1, <3>1
  <2> QED  BY <2>1, <2>2 DEF next
<1>9. CASE S # {}
  <2>1. next \in S /\ \A j \in S : next <= j
    BY <1>2, <1>6, <1>9, LeastFacts
  <2>2. next \in 1 .. n /\ next \in Syncs(t) /\ i < next
    BY <1>5, <1>6, <2>1
  <2>3. next # 0
    BY <1>1, <2>2
  <2>4. ASSUME NEW j \in Syncs(t) PROVE j <= i \/ next <= j
    <3>1. j \in 1 .. n
      BY <1>7
    <3>2. CASE i < j
      BY <1>5, <2>1, <3>1, <3>2
    <3> QED  BY <1>1, <3>1, <3>2
  <2> QED  BY <2>2, <2>3, <2>4 DEF next
<1> QED  BY <1>8, <1>9

(* The sync samples that are reported around a sample are the closest ones,*)
(* and a seek to their time in microseconds finds them.                    *)
THEOREM SyncsReported ==
  ASSUME \A t \in Tracks : Timescale[t] <= Usec
  PROVE  Spec => []ReportedSyncsFound
<1>1. ASSUME DemuxInv PROVE ReportedSyncsFound
  <2> DEFINE found(t, i) ==
               SeekStart(t, UsecToSampleTime(SampleUsec(t, i), Timescale[t]))
             syncs(t) == {j \in Samples(t) : IsSync(t, j)}
  <2> SUFFICES
        ASSUME phase = "open", Distinct, NEW t \in Tracks, NEW i \in Samples(t)
        PROVE  /\ LET prev == PrevSyncSample(t, i)
                  IN IF prev = 0 THEN \A j \in syncs(t) : i <= j
                     ELSE /\ prev \in syncs(t) /\ found(t, prev) = prev
                          /\ prev < i
                          /\ \A j \in syncs(t) : j <= prev \/ i <= j
               /\ LET next == NextSyncSample(t, i)
                  IN IF next = 0 THEN \A j \in syncs(t) : j <= i
                     ELSE /\ next \in syncs(t) /\ found(t, next) = next
                          /\ i < next
                          /\ \A j \in syncs(t) : j <= i \/ next <= j
    BY DEF ReportedSyncsFound
  <2>1. syncs(t) = Syncs(t) /\ Syncs(t) \subseteq Samples(t)
    BY DEF Syncs
  <2>2. \A j \in Samples(t) : found(t, j) = j
    <3> SUFFICES ASSUME NEW j \in Samples(t) PROVE found(t, j) = j
      OBVIOUS
    <3>1. SeekStart(t, At(t, SampleUsec(t, j))) = j
      BY <1>1, SeekBack
    <3> QED  BY <3>1 DEF At
  <2> DEFINE prev == PrevSyncSample(t, i)
             next == NextSyncSample(t, i)
  <2>3. IF prev = 0 THEN \A j \in Syncs(t) : i <= j
        ELSE /\ prev \in Syncs(t) /\ prev < i
             /\ \A j \in Syncs(t) : j <= prev \/ i <= j
    BY <1>1, PrevReported
  <2>4. IF next = 0 THEN \A j \in Syncs(t) : j <= i
        ELSE /\ next \in Syncs(t) /\ i < next
             /\ \A j \in Syncs(t) : j <= i \/ next <= j
    BY <1>1, NextReported
  <2> HIDE DEF found, syncs, prev, next
  <2>5. IF prev = 0 THEN \A j \in syncs(t) : i <= j
        ELSE /\ prev \in syncs(t) /\ found(t, prev) = prev /\ prev < i
             /\ \A j \in syncs(t) : j <= prev \/ i <= j
    BY <2>1, <2>2, <2>3
  <2>6. IF next = 0 THEN \A j \in syncs(t) : j <= i
        ELSE /\ next \in syncs(t) /\ found(t, next) = next /\ i < next
             /\ \A j \in syncs(t) : j <= i \/ next <= j
    BY <2>1, <2>2, <2>4
  <2> QED  BY <2>5, <2>6 DEF prev, next
<1> QED  BY <1>1, InvHolds, PTL

-----------------------------------------------------------------------------
(* A step by one sample.                                                   *)

(* These seeks never fail: a track always has a sync sample. *)
LEMMA NeverFails ==
  ASSUME DemuxInv, phase = "open", Distinct, NEW t \in Tracks, NEW ts \in Nat,
         NEW method \in {"previous", "previous_sync"}
  PROVE  Found(t, ts, method) # 0
<1> DEFINE last == SeekStart(t, ts)
           ahead == {i \in Syncs(t) : i >= last}
<1>1. method \in Methods
  BY DEF Methods
<1>2. last \in Samples(t)
  BY StartIs
<1>3. Aims(t, ts, method) # {}
  <2>1. CASE method = "previous"
    BY <2>1 DEF Aims
  <2>2. CASE method = "previous_sync"
    <3>1. Aims(t, ts, method) =
            IF \E i \in Syncs(t) : i <= last THEN {last}
            ELSE IF ahead # {} THEN {Promise!Least(ahead)} ELSE {}
      BY <2>2 DEF Aims
    <3>2. PICK i \in Samples(t) : i \in Syncs(t)
      <4>1. CASE keys[t] = {}
        BY <1>2, <4>1 DEF Syncs, IsSync
      <4>2. CASE keys[t] # {}
        <5>1. keys[t] \subseteq Samples(t)
          BY OpenTimes
        <5> QED  BY <4>2, <5>1 DEF Syncs, IsSync
      <4> QED  BY <4>1, <4>2
    <3>3. i \in Nat /\ last \in Nat
      BY <1>2, OpenTimes DEF Samples
    <3>4. i <= last \/ i \in ahead
      BY <3>2, <3>3
    <3> HIDE DEF last, ahead
    <3> QED  BY <3>1, <3>2, <3>4
  <2> QED  BY <2>1, <2>2
<1> QED  BY <1>1, <1>3, SeekAims

(* A seek to the time of a sample shows this sample first. *)
LEMMA SeekShows ==
  ASSUME DemuxInv, phase = "open", Distinct, NEW t \in Tracks,
         Timescale[t] <= Usec, IsSync(t, 1), NEW i \in Samples(t),
         NEW method \in {"previous", "previous_sync"},
         SeekTo(SampleUsec(t, i), method)
  PROVE  Audible(t)' = i
<1> DEFINE time == SampleUsec(t, i)
           ts == At(t, time)
<1>1. time \in Nat /\ SeekStart(t, ts) = i /\ method \in Methods
  BY SeekBack DEF Methods
<1> HIDE DEF time
<1>2. Moves(t, time, method)
  <2>1. ASSUME NEW u \in 1 .. t PROVE Found(u, At(u, time), method) # 0
    <3>1. u \in Tracks
      BY Constants
    <3>2. At(u, time) \in Nat
      BY <1>1, <3>1, AtType
    <3> QED  BY <3>1, <3>2, NeverFails
  <2> QED  BY <2>1 DEF Moves
<1>3. Moved(t, time, method) /\ times' = times
  <2>1. SeekTo(time, method)
    BY DEF time
  <2> QED  BY <1>2, <2>1, SeekOfEach, SeekMoves DEF media
<1>4. Audible(t)' = ShownFirst(t, ts, method)
  BY <1>1, <1>3, MovedShows
<1>5. ts \in Nat
  BY <1>1, AtType
<1>6. Aims(t, ts, method) = {ShownFirst(t, ts, method)}
  <2>1. Found(t, ts, method) # 0
    BY <1>3 DEF Moved
  <2> HIDE DEF ts
  <2> QED  BY <1>1, <1>5, <2>1, SeekAims
<1>7. Aims(t, ts, method) = {i}
  <2>1. CASE method = "previous"
    BY <1>1, <2>1 DEF Aims
  <2>2. CASE method = "previous_sync"
    <3>1. 1 \in Syncs(t) /\ 1 <= i
      BY OpenTimes DEF Syncs, Samples
    <3> QED  BY <1>1, <2>2, <3>1 DEF Aims
  <2> QED  BY <2>1, <2>2
<1> HIDE DEF ts
<1> QED  BY <1>4, <1>6, <1>7

(* The step of StepsByOne. *)
StepByOne ==
  Distinct => \A t \in Tracks : pendingSeekTime[t] = 0 /\ IsSync(t, 1) =>
    /\ SeekPrev(t) /\ nextSample[t] > 2 => Audible(t)' = nextSample[t] - 2
    /\ SeekNext(t, FALSE) => Audible(t)' = nextSample[t] + 1
    /\ SeekNext(t, TRUE)  => Audible(t)' = nextSample[t]

(* With nothing silent pending, mp4_demux_seek_to_track_prev_sample and    *)
(* _next_sample move the track by exactly one sample, although they go     *)
(* through a time in microseconds and move every track; provided that the  *)
(* track begins with a sync sample, and that its timescale is not finer    *)
(* than a microsecond.                                                     *)
THEOREM StepsAreByOne ==
  ASSUME \A t \in Tracks : Timescale[t] <= Usec
  PROVE  Spec => StepsByOne
<1>1. ASSUME DemuxInv PROVE StepByOne
  <2> SUFFICES ASSUME Distinct, NEW t \in Tracks, IsSync(t, 1)
               PROVE  /\ SeekPrev(t) /\ nextSample[t] > 2
                           => Audible(t)' = nextSample[t] - 2
                      /\ SeekNext(t, FALSE) => Audible(t)' = nextSample[t] + 1
                      /\ SeekNext(t, TRUE)  => Audible(t)' = nextSample[t]
    BY DEF StepByOne
  <2>1. nextSample[t] \in 1 .. Count(t) + 1 /\ Timescale[t] <= Usec
    BY <1>1 DEF DemuxInv, TypeOK
  <2>2. phase = "open" => Count(t) \in Nat /\ Samples(t) = 1 .. Count(t)
    BY <1>1, OpenTimes DEF Samples
  <2>3. ASSUME SeekPrev(t), nextSample[t] > 2
        PROVE  Audible(t)' = nextSample[t] - 2
    <3> DEFINE i == nextSample[t] - 2
    <3>1. phase = "open" /\ SeekTo(SampleUsec(t, i), "previous_sync")
      BY <2>3 DEF SeekPrev
    <3>2. i \in Samples(t)
      BY <2>1, <2>2, <2>3, <3>1
    <3> HIDE DEF i
    <3>3. Audible(t)' = i
      BY <1>1, <2>1, <3>1, <3>2, SeekShows
    <3> QED  BY <3>3 DEF i
  <2>4. ASSUME SeekNext(t, FALSE) PROVE Audible(t)' = nextSample[t] + 1
    <3> DEFINE i == nextSample[t] + 1
    <3>1. /\ phase = "open" /\ nextSample[t] <= Count(t) - 1
          /\ SeekTo(SampleUsec(t, i), "previous")
      BY <2>4 DEF SeekNext
    <3>2. i \in Samples(t)
      BY <2>1, <2>2, <3>1
    <3> HIDE DEF i
    <3>3. Audible(t)' = i
      BY <1>1, <2>1, <3>1, <3>2, SeekShows
    <3> QED  BY <3>3 DEF i
  <2>5. ASSUME SeekNext(t, TRUE) PROVE Audible(t)' = nextSample[t]
    <3> DEFINE i == nextSample[t]
    <3>1. /\ phase = "open" /\ nextSample[t] <= Count(t)
          /\ SeekTo(SampleUsec(t, i), "previous_sync")
      BY <2>5 DEF SeekNext
    <3>2. i \in Samples(t)
      BY <2>1, <2>2, <3>1
    <3> HIDE DEF i
    <3>3. Audible(t)' = i
      BY <1>1, <2>1, <3>1, <3>2, SeekShows
    <3> QED  BY <3>3 DEF i
  <2> QED  BY <2>3, <2>4, <2>5
<1>2. DemuxInv => [StepByOne]_vars
  BY <1>1
<1>3. Spec => [][StepByOne]_vars
  BY <1>2, InvHolds, PTL
<1> QED  BY <1>3 DEF StepsByOne, StepByOne

-----------------------------------------------------------------------------
(* The metadata of a sample.                                               *)

LEMMA ConvertType ==
  ASSUME NEW time \in Nat, NEW from \in Nat \ {0}, NEW to \in Nat
  PROVE  ConvertTimescale(time, from, to) \in Nat
<1> DEFINE p == time * to
           h == from \div 2
<1>1. p \in Nat /\ h \in Nat
  BY ProductType, HalfFacts
<1> HIDE DEF p, h
<1>2. p + h \in Nat
  BY <1>1
<1>3. (p + h) \div from \in Nat
  BY <1>2, DivType
<1> QED  BY <1>3 DEF ConvertTimescale, p, h

LEMMA NearestType ==
  ASSUME DemuxInv, phase = "open", NEW t \in Tracks, NEW ts \in Nat
  PROVE  FindNearest(t, ts, FALSE, 1) \in {0} \cup Samples(t)
<1> DEFINE away == [i \in Samples(t) |-> Gap(times[t][i], ts)]
           all == {i \in 1 .. Count(t) : Searchable(t, i, FALSE)}
           visited == {i \in all : \A j, k \in all :
                         j < k /\ k < i => away[k] <= away[j]}
           S == {i \in visited : \A j \in visited : away[i] <= away[j]}
<1>1. FindNearest(t, ts, FALSE, 1) = Least(S)
  BY DEF FindNearest
<1>2. S \subseteq 1 .. Count(t) /\ Count(t) \in Nat
  BY OpenTimes
<1> HIDE DEF S
<1>3. Least(S) \in {0} \cup S
  BY <1>2, LeastOfSamples
<1> QED  BY <1>1, <1>2, <1>3 DEF Samples

(* A sample that is closer to a time than its neighbours. *)
Closer(t, i, time) ==
  \/ Gap(time, times[t][i]) = 0
  \/ \A j \in {i - 1, i + 1} \cap Samples(t) :
       Gap(time, times[t][i]) < Gap(time, times[t][j])

LEMMA MetadataIs ==
  ASSUME DemuxInv, phase = "open", NEW t \in Tracks, NEW i \in Samples(t),
         MetadataSample(t, i) # 0
  PROVE  LET m == Metadata[t]
             time == ConvertTimescale(times[m][MetadataSample(t, i)],
                                      Timescale[m], Timescale[t])
         IN time \in Nat /\ Closer(t, i, time)
<1> DEFINE m == Metadata[t]
           converted == ConvertTimescale(times[t][i], Timescale[t],
                                         Timescale[m])
           found == FindNearest(m, converted, FALSE, 1)
           time == ConvertTimescale(times[m][found], Timescale[m],
                                    Timescale[t])
<1>1. /\ m # 0 /\ found = MetadataSample(t, i) /\ Closer(t, i, time)
  BY DEF MetadataSample, Closer
<1>2. m \in Tracks /\ Timescale[m] \in Nat \ {0} /\ Timescale[t] \in Nat \ {0}
  BY <1>1, Constants
<1>3. converted \in Nat
  BY <1>2, OpenTimes, ConvertType
<1> HIDE DEF converted
<1>4. found \in Samples(m)
  BY <1>1, <1>2, <1>3, NearestType
<1> HIDE DEF found
<1>5. times[m][found] \in Nat
  BY <1>2, <1>4, OpenTimes
<1>6. time \in Nat
  BY <1>2, <1>5, ConvertType
<1> QED  BY <1>1, <1>6

(* Only one sample is. *)
LEMMA CloserOnce ==
  ASSUME DemuxInv, phase = "open", Distinct, NEW t \in Tracks,
         NEW i \in Samples(t), NEW j \in Samples(t), NEW time \in Nat,
         Closer(t, i, time), Closer(t, j, time), i < j
  PROVE  FALSE
<1> DEFINE ts == times[t]
           a == ts[i]
           b == ts[i + 1]
           c == ts[j - 1]
           d == ts[j]
<1>1. /\ i \in Nat /\ j \in Nat /\ i + 1 \in Samples(t) /\ j - 1 \in Samples(t)
      /\ i <= j - 1 /\ i + 1 <= j
  BY OpenTimes DEF Samples
<1>2. /\ a \in Nat /\ b \in Nat /\ c \in Nat /\ d \in Nat
      /\ a <= c /\ b <= d
  BY <1>1, OpenTimes
<1>3. a < b /\ c < d
  BY <1>1, Strictly
<1>4. Gap(time, a) = 0 \/ Gap(time, a) < Gap(time, b)
  BY <1>1 DEF Closer
<1>5. Gap(time, d) = 0 \/ Gap(time, d) < Gap(time, c)
  BY <1>1 DEF Closer
<1> HIDE DEF a, b, c, d
<1>6. time + time < a + b
  BY <1>2, <1>3, <1>4 DEF Gap
<1>7. c + d < time + time
  BY <1>2, <1>3, <1>5 DEF Gap
<1> QED  BY <1>2, <1>6, <1>7

(* A metadata sample goes with one sample of its track at most. *)
THEOREM MetadataGoesOnce == Spec => []MetadataOnce
<1>1. ASSUME DemuxInv PROVE MetadataOnce
  <2> SUFFICES ASSUME phase = "open", Distinct, NEW t \in Tracks,
                      NEW i \in Samples(t), NEW j \in Samples(t),
                      MetadataSample(t, i) # 0,
                      MetadataSample(t, i) = MetadataSample(t, j)
               PROVE  i = j
    BY DEF MetadataOnce
  <2> DEFINE time == ConvertTimescale(times[Metadata[t]][MetadataSample(t, i)],
                                      Timescale[Metadata[t]], Timescale[t])
  <2>1. time \in Nat /\ Closer(t, i, time)
    BY <1>1, MetadataIs
  <2>2. Closer(t, j, time)
    BY <1>1, MetadataIs
  <2> HIDE DEF time
  <2>3. ~(i < j) /\ ~(j < i)
    BY <1>1, <2>1, <2>2, CloserOnce
  <2>4. i \in Nat /\ j \in Nat
    BY <1>1, OpenTimes DEF Samples
  <2> QED  BY <2>3, <2>4
<1> QED  BY <1>1, InvHolds, PTL
=============================================================================
