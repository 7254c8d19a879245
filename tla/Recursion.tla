------------------------------ MODULE Recursion ------------------------------
(***************************************************************************)
(* Induction and recursion in terms of sets and functions, which is what   *)
(* the proofs about the recursive functions of the models rest on; and     *)
(* what FlattenSeq makes of a sequence of sequences.                       *)
(***************************************************************************)
EXTENDS Integers, SequencesExt, WellFoundedInduction, TLAPS

-----------------------------------------------------------------------------
(* Induction.                                                              *)

(* The least counterexample. *)
LEMMA LeastNumber ==
  ASSUME NEW T \in SUBSET Nat, T # {}
  PROVE  \E x \in T : \A y \in T : x <= y
<1>1. IsWellFoundedOn(OpToRel(<, Nat), Nat)
  BY NatLessThanWellFounded
<1>2. PICK x \in T : \A y \in T : ~ (<<y, x>> \in OpToRel(<, Nat))
  BY <1>1, WFMin
<1>3. \A y \in T : ~(y < x)
  BY <1>2 DEF OpToRel
<1> QED  BY <1>3

LEMMA Induction ==
  ASSUME NEW m \in Nat, NEW P, 0 \in P,
         \A i \in 1 .. m : i - 1 \in P => i \in P
  PROVE  \A i \in 0 .. m : i \in P
<1> DEFINE T == {i \in 0 .. m : i \notin P}
<1> SUFFICES ASSUME T # {} PROVE FALSE
  OBVIOUS
<1>1. T \in SUBSET Nat
  OBVIOUS
<1>2. PICK i \in T : \A j \in T : i <= j
  <2> HIDE DEF T
  <2> QED  BY <1>1, LeastNumber
<1>3. i \in 1 .. m /\ i \notin P
  BY <1>2
<1>4. i - 1 \in 0 .. m /\ i - 1 < i
  BY <1>3
<1>5. i - 1 \notin T
  <2>1. i \in Nat /\ i - 1 \in Nat
    BY <1>3, <1>4
  <2> HIDE DEF T
  <2> QED  BY <1>2, <1>4, <2>1
<1> QED  BY <1>3, <1>4, <1>5

(* A function on 0 .. m whose value at i is step[value at i - 1, i]. *)
Follows(f, S, m, base, step) ==
  /\ f \in [0 .. m -> S] /\ f[0] = base
  /\ \A i \in 1 .. m : f[i] = step[<<f[i - 1], i>>]

LEMMA Recursion ==
  ASSUME NEW S, NEW m \in Nat, NEW base \in S,
         NEW step \in [S \X (1 .. m) -> S]
  PROVE  \E f : Follows(f, S, m, base, step)
<1> DEFINE Begun(k, f) ==
             f[0] = base /\ \A i \in 1 .. k : f[i] = step[<<f[i - 1], i>>]
           P == {k \in 0 .. m : \E f \in [0 .. k -> S] : Begun(k, f)}
<1>1. 0 \in P
  <2> DEFINE f == [i \in 0 .. 0 |-> base]
  <2>1. f \in [0 .. 0 -> S] /\ f[0] = base
    OBVIOUS
  <2>2. Begun(0, f)
    <3>1. \A i \in 1 .. 0 : FALSE
      OBVIOUS
    <3> QED  BY <2>1, <3>1
  <2> HIDE DEF f, Begun
  <2>3. 0 \in 0 .. m
    OBVIOUS
  <2> QED  BY <2>1, <2>2, <2>3
<1>2. ASSUME NEW k \in 1 .. m, k - 1 \in P PROVE k \in P
  <2>1. PICK g \in [0 .. k - 1 -> S] : Begun(k - 1, g)
    BY <1>2
  <2> DEFINE new == step[<<g[k - 1], k>>]
             f == [i \in 0 .. k |-> IF i = k THEN new ELSE g[i]]
  <2>2. g[k - 1] \in S /\ new \in S
    <3>1. k - 1 \in 0 .. k - 1
      OBVIOUS
    <3>2. g[k - 1] \in S
      BY <3>1
    <3> QED  BY <3>2
  <2> HIDE DEF new
  <2>3. f \in [0 .. k -> S]
    <3>1. ASSUME NEW i \in 0 .. k PROVE (IF i = k THEN new ELSE g[i]) \in S
      <4>1. CASE i = k
        BY <2>2, <4>1
      <4>2. CASE i # k
        <5>1. i \in 0 .. k - 1
          BY <4>2
        <5> QED  BY <4>2, <5>1
      <4> QED  BY <4>1, <4>2
    <3> QED  BY <3>1
  <2>4. f[0] = base
    <3>1. 0 \in 0 .. k /\ 0 # k
      OBVIOUS
    <3> QED  BY <2>1, <3>1
  <2>5. ASSUME NEW i \in 1 .. k PROVE f[i] = step[<<f[i - 1], i>>]
    <3>1. i - 1 \in 0 .. k /\ i - 1 # k /\ i \in 0 .. k
      OBVIOUS
    <3>2. f[i - 1] = g[i - 1]
      BY <3>1
    <3>3. CASE i = k
      BY <3>1, <3>2, <3>3 DEF new
    <3>4. CASE i # k
      <4>1. i \in 1 .. k - 1
        BY <3>4
      <4>2. g[i] = step[<<g[i - 1], i>>]
        BY <2>1, <4>1
      <4> QED  BY <3>1, <3>2, <3>4, <4>2
    <3> QED  BY <3>3, <3>4
  <2>6. Begun(k, f)
    BY <2>4, <2>5
  <2> HIDE DEF f, Begun
  <2>7. k \in 0 .. m
    OBVIOUS
  <2> QED  BY <2>3, <2>6, <2>7
<1>3. m \in P
  <2> HIDE DEF P, Begun
  <2>1. \A i \in 1 .. m : i - 1 \in P => i \in P
    BY <1>2
  <2>2. \A i \in 0 .. m : i \in P
    BY <1>1, <2>1, Induction
  <2> QED  BY <2>2
<1> QED  BY <1>3 DEF Follows

-----------------------------------------------------------------------------
(* What a list is folded into, from its first item on.                     *)

Lists(T) == Seq(T)

Goes(f, base, step, list) ==
  f[0] = base /\ \A i \in 1 .. Len(list) : f[i] = step[<<f[i - 1], list[i]>>]

GoesOver(f, S, base, step, list) ==
  f \in [0 .. Len(list) -> S] /\ Goes(f, base, step, list)

Begins(list, more) ==
  Len(list) <= Len(more) /\ \A i \in 1 .. Len(list) : more[i] = list[i]

Folded(S, base, step, list) ==
  (CHOOSE f : GoesOver(f, S, base, step, list))[Len(list)]

Steps(S, T) == [S \X T -> S]

LEMMA RunExists ==
  ASSUME NEW S, NEW T, NEW base \in S, NEW step \in Steps(S, T),
         NEW list \in Lists(T)
  PROVE  \E f : GoesOver(f, S, base, step, list)
<1> DEFINE m == Len(list)
           at == [p \in S \X (1 .. m) |-> step[<<p[1], list[p[2]]>>]]
<1>1. m \in Nat /\ \A i \in 1 .. m : list[i] \in T
  BY DEF Lists
<1>2. at \in [S \X (1 .. m) -> S]
  <2>1. ASSUME NEW p \in S \X (1 .. m) PROVE step[<<p[1], list[p[2]]>>] \in S
    <3>1. p[1] \in S /\ list[p[2]] \in T
      BY <1>1
    <3> QED  BY <3>1 DEF Steps
  <2> QED  BY <2>1
<1>3. PICK f : Follows(f, S, m, base, at)
  <2> HIDE DEF m, at
  <2> QED  BY <1>1, <1>2, Recursion
<1>4. ASSUME NEW i \in 1 .. m PROVE f[i] = step[<<f[i - 1], list[i]>>]
  <2>1. f[i] = at[<<f[i - 1], i>>]
    BY <1>3 DEF Follows
  <2>2. f[i - 1] \in S
    <3>1. i - 1 \in 0 .. m
      BY <1>1
    <3> QED  BY <1>3, <3>1 DEF Follows
  <2> QED  BY <2>1, <2>2
<1> QED  BY <1>3, <1>4 DEF Follows, GoesOver, Goes

(* A list that goes on is run through in the same way. *)
LEMMA RunsAgree ==
  ASSUME NEW S, NEW T, NEW base \in S, NEW step, NEW list \in Lists(T),
         NEW more \in Lists(T), Begins(list, more),
         NEW f, GoesOver(f, S, base, step, list), NEW g, Goes(g, base, step, more)
  PROVE  \A i \in 0 .. Len(list) : g[i] = f[i]
<1> DEFINE m == Len(list)
           P == {i \in 0 .. m : g[i] = f[i]}
<1>1. m \in Nat /\ Len(more) \in Nat /\ 0 \in 0 .. m
      /\ \A i \in 1 .. m : i \in 1 .. Len(more) /\ i \in 0 .. m
  BY DEF Lists, Begins
<1>2. 0 \in P
  BY <1>1 DEF GoesOver, Goes
<1>3. ASSUME NEW i \in 1 .. m, i - 1 \in P PROVE i \in P
  BY <1>1, <1>3 DEF GoesOver, Goes, Begins
<1>4. \A i \in 0 .. m : i \in P
  <2> HIDE DEF P, m
  <2> QED  BY <1>1, <1>2, <1>3, Induction
<1> QED  BY <1>4

LEMMA FoldedRuns ==
  ASSUME NEW S, NEW T, NEW base \in S, NEW step \in Steps(S, T),
         NEW list \in Lists(T)
  PROVE  \E f : GoesOver(f, S, base, step, list)
               /\ Folded(S, base, step, list) = f[Len(list)]
<1>1. \E f : GoesOver(f, S, base, step, list)
  BY RunExists
<1> DEFINE R == CHOOSE f : GoesOver(f, S, base, step, list)
<1>2. GoesOver(R, S, base, step, list)
  BY <1>1
<1>3. Folded(S, base, step, list) = R[Len(list)]
  BY DEF Folded
<1> QED  BY <1>2, <1>3

LEMMA FoldedIs ==
  ASSUME NEW S, NEW T, NEW base \in S, NEW step \in Steps(S, T),
         NEW list \in Lists(T), NEW g, Goes(g, base, step, list)
  PROVE  g[Len(list)] = Folded(S, base, step, list)
<1>1. PICK f : GoesOver(f, S, base, step, list)
               /\ Folded(S, base, step, list) = f[Len(list)]
  BY FoldedRuns
<1>2. \A i \in 0 .. Len(list) : g[i] = f[i]
  <2>1. Begins(list, list)
    BY DEF Begins, Lists
  <2> QED  BY <1>1, <2>1, RunsAgree
<1>3. Len(list) \in 0 .. Len(list)
  BY DEF Lists
<1> QED  BY <1>1, <1>2, <1>3

LEMMA FoldedEmpty ==
  ASSUME NEW S, NEW T, NEW base \in S, NEW step \in Steps(S, T)
  PROVE  Folded(S, base, step, <<>>) = base
<1>1. <<>> \in Lists(T) /\ Len(<<>>) = 0
  BY DEF Lists
<1>2. PICK f : GoesOver(f, S, base, step, <<>>)
               /\ Folded(S, base, step, <<>>) = f[Len(<<>>)]
  BY <1>1, FoldedRuns
<1> QED  BY <1>1, <1>2 DEF GoesOver, Goes

LEMMA FoldedType ==
  ASSUME NEW S, NEW T, NEW base \in S, NEW step \in Steps(S, T),
         NEW list \in Lists(T)
  PROVE  Folded(S, base, step, list) \in S
<1>1. PICK f : GoesOver(f, S, base, step, list)
               /\ Folded(S, base, step, list) = f[Len(list)]
  BY FoldedRuns
<1>2. Len(list) \in 0 .. Len(list)
  BY DEF Lists
<1> QED  BY <1>1, <1>2 DEF GoesOver

LEMMA FoldedAppend ==
  ASSUME NEW S, NEW T, NEW base \in S, NEW step \in Steps(S, T),
         NEW list \in Lists(T), NEW x \in T
  PROVE  Folded(S, base, step, Append(list, x))
           = step[<<Folded(S, base, step, list), x>>]
<1> DEFINE more == Append(list, x)
           n == Len(list)
<1>1. more \in Lists(T) /\ Len(more) = n + 1 /\ n \in Nat /\ more[n + 1] = x
      /\ \A i \in 1 .. n : more[i] = list[i]
  BY DEF Lists
<1> HIDE DEF more
<1>2. PICK f : GoesOver(f, S, base, step, list)
               /\ Folded(S, base, step, list) = f[Len(list)]
  BY FoldedRuns
<1>3. PICK g : GoesOver(g, S, base, step, more)
               /\ Folded(S, base, step, more) = g[Len(more)]
  BY <1>1, FoldedRuns
<1>4. g[n] = f[n]
  <2>1. Begins(list, more) /\ n \in 0 .. n
    BY <1>1 DEF Begins
  <2>2. Goes(g, base, step, more)
    BY <1>3 DEF GoesOver
  <2>3. more \in Lists(T) /\ GoesOver(f, S, base, step, list)
    BY <1>1, <1>2
  <2>4. \A i \in 0 .. n : g[i] = f[i]
    BY <2>1, <2>2, <2>3, RunsAgree
  <2> QED  BY <2>1, <2>4
<1>5. g[n + 1] = step[<<g[n], x>>]
  <2>1. n + 1 \in 1 .. Len(more) /\ (n + 1) - 1 = n
    BY <1>1
  <2>2. g[n + 1] = step[<<g[(n + 1) - 1], more[n + 1]>>]
    BY <1>3, <2>1 DEF GoesOver, Goes
  <2> QED  BY <1>1, <2>1, <2>2
<1> QED  BY <1>1, <1>2, <1>3, <1>4, <1>5 DEF more

(* A list after another goes on from where that ended. *)
LEMMA FoldedJoin ==
  ASSUME NEW S, NEW T, NEW base \in S, NEW step \in Steps(S, T),
         NEW a \in Lists(T), NEW b \in Lists(T)
  PROVE  Folded(S, base, step, a \o b)
           = Folded(S, Folded(S, base, step, a), step, b)
<1> DEFINE m == Len(a)
           n == Len(b)
           ab == a \o b
           mid == Folded(S, base, step, a)
<1>1. /\ m \in Nat /\ n \in Nat /\ ab \in Lists(T) /\ Len(ab) = m + n
      /\ \A i \in 1 .. m + n : ab[i] = IF i <= m THEN a[i] ELSE b[i - m]
  BY DEF Lists
<1> HIDE DEF ab
<1>2. PICK f : GoesOver(f, S, base, step, a) /\ mid = f[m]
  BY FoldedRuns
<1>3. mid \in S
  BY FoldedType
<1> HIDE DEF mid
<1>4. PICK g : GoesOver(g, S, mid, step, b) /\ Folded(S, mid, step, b) = g[n]
  BY <1>3, FoldedRuns
<1> DEFINE h == [i \in 0 .. m + n |-> IF i <= m THEN f[i] ELSE g[i - m]]
<1>5. h[0] = base
  BY <1>1, <1>2 DEF GoesOver, Goes
<1>6. ASSUME NEW i \in 1 .. m + n PROVE h[i] = step[<<h[i - 1], ab[i]>>]
  <2>1. i \in 0 .. m + n /\ i - 1 \in 0 .. m + n
    BY <1>1
  <2>2. CASE i <= m
    <3>1. i \in 1 .. m /\ i - 1 <= m
      BY <1>1, <2>2
    <3>2. f[i] = step[<<f[i - 1], a[i]>>]
      BY <1>2, <3>1 DEF GoesOver, Goes
    <3> QED  BY <1>1, <2>1, <2>2, <3>1, <3>2
  <2>3. CASE i = m + 1
    <3>1. 1 \in 1 .. n /\ i - m = 1 /\ i - 1 = m /\ ~(i <= m) /\ m <= m
      BY <1>1, <2>3
    <3>2. g[1] = step[<<g[1 - 1], b[1]>>] /\ g[0] = mid /\ 1 - 1 = 0
      BY <1>4, <3>1 DEF GoesOver, Goes
    <3>3. h[i] = g[1] /\ h[i - 1] = f[m] /\ ab[i] = b[1]
      BY <1>1, <2>1, <3>1
    <3> QED  BY <1>2, <3>2, <3>3
  <2>4. CASE i > m + 1
    <3>1. i - m \in 1 .. n /\ (i - 1) - m = (i - m) - 1
          /\ ~(i <= m) /\ ~(i - 1 <= m)
      BY <1>1, <2>4
    <3>2. g[i - m] = step[<<g[(i - m) - 1], b[i - m]>>]
      BY <1>4, <3>1 DEF GoesOver, Goes
    <3>3. h[i] = g[i - m] /\ h[i - 1] = g[(i - m) - 1] /\ ab[i] = b[i - m]
      BY <1>1, <2>1, <3>1
    <3> QED  BY <3>2, <3>3
  <2> HIDE DEF h
  <2> QED  BY <1>1, <2>2, <2>3, <2>4
<1>7. Goes(h, base, step, ab)
  <2> HIDE DEF h
  <2> QED  BY <1>1, <1>5, <1>6 DEF Goes
<1>8. h[m + n] = Folded(S, base, step, ab)
  <2> HIDE DEF h
  <2> QED  BY <1>1, <1>7, FoldedIs
<1>9. h[m + n] = g[n]
  <2>1. m + n \in 0 .. m + n
    BY <1>1
  <2>2. CASE n = 0
    BY <1>1, <1>2, <1>4, <2>1, <2>2 DEF GoesOver, Goes
  <2>3. CASE n # 0
    <3>1. ~(m + n <= m) /\ (m + n) - m = n
      BY <1>1, <2>3
    <3> QED  BY <2>1, <3>1
  <2> QED  BY <2>2, <2>3
<1> QED  BY <1>4, <1>8, <1>9 DEF ab, mid

LEMMA FoldedOne ==
  ASSUME NEW S, NEW T, NEW base \in S, NEW step \in Steps(S, T), NEW x \in T
  PROVE  Folded(S, base, step, <<x>>) = step[<<base, x>>]
<1>1. PICK none \in Lists(T) : none = <<>>
  <2>1. <<>> \in Lists(T)
    BY DEF Lists
  <2> QED  BY <2>1
<1>2. Append(none, x) = <<x>>
  BY <1>1
<1>3. Folded(S, base, step, Append(none, x))
        = step[<<Folded(S, base, step, none), x>>]
  BY FoldedAppend
<1> QED  BY <1>1, <1>2, <1>3, FoldedEmpty

-----------------------------------------------------------------------------
(* FlattenSeq.                                                             *)

Joining(T) == [p \in Lists(T) \X Lists(T) |-> p[1] \o p[2]]

LEMMA JoiningType ==
  ASSUME NEW T
  PROVE  /\ Joining(T) \in Steps(Lists(T), Lists(T)) /\ <<>> \in Lists(T)
         /\ \A a, b \in Lists(T) : Joining(T)[<<a, b>>] = a \o b
<1>1. ASSUME NEW a \in Lists(T), NEW b \in Lists(T) PROVE a \o b \in Lists(T)
  BY DEF Lists
<1>2. <<>> \in Lists(T)
  BY DEF Lists
<1> QED  BY <1>1, <1>2 DEF Joining, Steps

LEMMA FlattenFolds ==
  ASSUME NEW T, NEW seqs \in Lists(Lists(T))
  PROVE  FlattenSeq(seqs) = Folded(Lists(T), <<>>, Joining(T), seqs)
<1> DEFINE n == Len(seqs)
           Flat(g) == [i \in 1 .. n |-> IF i = 1 THEN seqs[i] ELSE g[i - 1] \o seqs[i]]
<1>0. <<>> \in Lists(T) /\ n \in Nat /\ \A i \in 1 .. n : seqs[i] \in Lists(T)
  BY DEF Lists
<1>1. CASE n = 0
  <2>1. seqs = <<>>
    BY <1>1 DEF Lists
  <2>2. FlattenSeq(<<>>) = <<>>
    BY DEF FlattenSeq
  <2> QED  BY <1>0, <2>1, <2>2, FoldedEmpty, JoiningType
<1>2. CASE n # 0
  <2>1. PICK f : GoesOver(f, Lists(T), <<>>, Joining(T), seqs)
                 /\ Folded(Lists(T), <<>>, Joining(T), seqs) = f[n]
    BY <1>0, FoldedRuns, JoiningType
  <2>2. ASSUME NEW i \in 1 .. n
        PROVE  f[i] = IF i = 1 THEN seqs[i] ELSE f[i - 1] \o seqs[i]
    <3>1. f[i - 1] \in Lists(T)
      <4>1. i - 1 \in 0 .. n
        BY <1>0
      <4> QED  BY <2>1, <4>1 DEF GoesOver
    <3>2. f[i] = f[i - 1] \o seqs[i]
      BY <1>0, <2>1, <3>1, JoiningType DEF GoesOver, Goes
    <3>3. CASE i = 1
      <4>1. f[i - 1] = <<>>
        BY <2>1, <3>3 DEF GoesOver, Goes
      <4>2. <<>> \o seqs[i] = seqs[i]
        <5>1. seqs[i] \in Seq(T)
          BY <1>0 DEF Lists
        <5> QED  BY <5>1
      <4> QED  BY <3>2, <3>3, <4>1, <4>2
    <3> QED  BY <3>2, <3>3
  <2> DEFINE h == [i \in 1 .. n |-> f[i]]
  <2>3. h = Flat(h)
    <3>1. \A i \in 1 .. n : i # 1 => i - 1 \in 1 .. n
      BY <1>0
    <3> QED  BY <2>2, <3>1
  <2> DEFINE R == CHOOSE g : g = Flat(g)
  <2>4. R = Flat(R)
    <3> HIDE DEF h, Flat
    <3> QED  BY <2>3
  <2>5. FlattenSeq(seqs) = R[n]
    BY <1>2 DEF FlattenSeq
  <2> HIDE DEF R, h
  <2> DEFINE g == [i \in 0 .. n |-> IF i = 0 THEN <<>> ELSE R[i]]
             P == {i \in 0 .. n : g[i] = f[i]}
  <2>6. 0 \in P
    BY <1>0, <2>1 DEF GoesOver, Goes
  <2>7. ASSUME NEW i \in 1 .. n, i - 1 \in P PROVE i \in P
    <3>1. g[i] = R[i] /\ i \in 0 .. n
      BY <1>0
    <3>2. R[i] = IF i = 1 THEN seqs[i] ELSE R[i - 1] \o seqs[i]
      BY <2>4
    <3>3. i # 1 => g[i - 1] = R[i - 1]
      BY <1>0
    <3> QED  BY <2>2, <2>7, <3>1, <3>2, <3>3
  <2>8. \A i \in 0 .. n : i \in P
    <3> HIDE DEF P
    <3> QED  BY <1>0, <2>6, <2>7, Induction
  <2>9. n \in 0 .. n /\ g[n] = R[n]
    BY <1>0, <1>2
  <2> QED  BY <2>1, <2>5, <2>8, <2>9
<1> QED  BY <1>1, <1>2

LEMMA FlattenType ==
  ASSUME NEW T, NEW seqs \in Lists(Lists(T))
  PROVE  FlattenSeq(seqs) \in Lists(T)
<1>1. Folded(Lists(T), <<>>, Joining(T), seqs) \in Lists(T)
  BY FoldedType, JoiningType
<1> QED  BY <1>1, FlattenFolds

LEMMA FlattenEmpty == FlattenSeq(<<>>) = <<>>
BY DEF FlattenSeq

LEMMA FlattenAppend ==
  ASSUME NEW T, NEW seqs \in Lists(Lists(T)), NEW s \in Lists(T)
  PROVE  FlattenSeq(Append(seqs, s)) = FlattenSeq(seqs) \o s
<1> DEFINE F == Folded(Lists(T), <<>>, Joining(T), seqs)
           G == Folded(Lists(T), <<>>, Joining(T), Append(seqs, s))
<1>1. Append(seqs, s) \in Lists(Lists(T))
  BY DEF Lists
<1>2. G = Joining(T)[<<F, s>>]
  BY FoldedAppend, JoiningType
<1>3. F \in Lists(T)
  BY FoldedType, JoiningType
<1>4. F = FlattenSeq(seqs) /\ G = FlattenSeq(Append(seqs, s))
  BY <1>1, FlattenFolds
<1>5. Joining(T)[<<F, s>>] = F \o s
  BY <1>3, JoiningType
<1> QED  BY <1>2, <1>4, <1>5

(* Up to one item more. *)
LEMMA FlattenUpto ==
  ASSUME NEW T, NEW seqs \in Lists(Lists(T)), NEW i \in 1 .. Len(seqs)
  PROVE  /\ SubSeq(seqs, 1, i - 1) \in Lists(Lists(T))
         /\ FlattenSeq(SubSeq(seqs, 1, i))
              = FlattenSeq(SubSeq(seqs, 1, i - 1)) \o seqs[i]
<1> DEFINE a == SubSeq(seqs, 1, i - 1)
           b == SubSeq(seqs, 1, i)
<1>0. seqs \in Seq(Lists(T))
  BY DEF Lists
<1>1. i - 1 \in 0 .. Len(seqs) /\ seqs[i] \in Lists(T) /\ i \in Nat
  BY <1>0
<1>2. a \in Seq(Lists(T)) /\ Len(a) = i - 1 /\ \A j \in 1 .. i - 1 : a[j] = seqs[j]
  BY <1>0, <1>1
<1>3. b \in Seq(Lists(T)) /\ Len(b) = i /\ \A j \in 1 .. i : b[j] = seqs[j]
  BY <1>0, <1>1
<1>4. b = Append(a, seqs[i])
  <2> HIDE DEF a, b
  <2> QED  BY <1>1, <1>2, <1>3
<1>5. a \in Lists(Lists(T))
  <2> HIDE DEF a
  <2> QED  BY <1>2 DEF Lists
<1> HIDE DEF a, b
<1>6. FlattenSeq(b) = FlattenSeq(a) \o seqs[i]
  BY <1>1, <1>4, <1>5, FlattenAppend
<1> QED  BY <1>5, <1>6 DEF a, b

(* A sequence is made of its parts. *)
LEMMA FlattenFirst ==
  ASSUME NEW T, NEW seqs \in Lists(Lists(T))
  PROVE  /\ SubSeq(seqs, 1, 0) = <<>>
         /\ SubSeq(seqs, 1, Len(seqs)) = seqs
<1>1. seqs \in Seq(Lists(T))
  BY DEF Lists
<1> QED  BY <1>1

(* What is in it. *)
LEMMA FlattenItems ==
  ASSUME NEW T, NEW seqs \in Lists(Lists(T))
  PROVE  /\ \A k \in 1 .. Len(FlattenSeq(seqs)) :
              \E i \in 1 .. Len(seqs) : \E j \in 1 .. Len(seqs[i]) :
                FlattenSeq(seqs)[k] = seqs[i][j]
         /\ \A i \in 1 .. Len(seqs) : \A j \in 1 .. Len(seqs[i]) :
              \E k \in 1 .. Len(FlattenSeq(seqs)) :
                FlattenSeq(seqs)[k] = seqs[i][j]
<1> DEFINE n == Len(seqs)
           Flat(m) == FlattenSeq(SubSeq(seqs, 1, m))
           From(m) == \A k \in 1 .. Len(Flat(m)) :
                        \E i \in 1 .. m : \E j \in 1 .. Len(seqs[i]) :
                          Flat(m)[k] = seqs[i][j]
           In(m)   == \A i \in 1 .. m : \A j \in 1 .. Len(seqs[i]) :
                        \E k \in 1 .. Len(Flat(m)) : Flat(m)[k] = seqs[i][j]
           P == {m \in 0 .. n : From(m) /\ In(m)}
<1>1. n \in Nat /\ Flat(0) = <<>> /\ Flat(n) = FlattenSeq(seqs)
  <2>1. n \in Nat
    BY DEF Lists
  <2>2. SubSeq(seqs, 1, 0) = <<>> /\ SubSeq(seqs, 1, n) = seqs
    BY FlattenFirst
  <2> QED  BY <2>1, <2>2, FlattenEmpty
<1>2. 0 \in P
  <2>1. Len(Flat(0)) = 0
    BY <1>1
  <2> HIDE DEF Flat
  <2> QED  BY <1>1, <2>1
<1>3. ASSUME NEW m \in 1 .. n, m - 1 \in P PROVE m \in P
  <2> DEFINE a == Flat(m - 1)
             s == seqs[m]
             b == Flat(m)
  <2>1. a \in Seq(T) /\ s \in Seq(T) /\ b = a \o s
    <3>1. /\ SubSeq(seqs, 1, m - 1) \in Lists(Lists(T)) /\ b = a \o s
      BY FlattenUpto
    <3>2. a \in Lists(T)
      BY <3>1, FlattenType
    <3>3. s \in Lists(T)
      <4>1. seqs \in Seq(Lists(T))
        BY DEF Lists
      <4> QED  BY <4>1
    <3> HIDE DEF a, s, b
    <3> QED  BY <3>1, <3>2, <3>3 DEF Lists
  <2>2. From(m - 1) /\ In(m - 1) /\ m \in Nat
    BY <1>3
  <2>3. /\ Len(b) = Len(a) + Len(s) /\ Len(a) \in Nat /\ Len(s) \in Nat
        /\ \A k \in 1 .. Len(a) : b[k] = a[k] /\ k \in 1 .. Len(b)
        /\ \A j \in 1 .. Len(s) : b[Len(a) + j] = s[j] /\ Len(a) + j \in 1 .. Len(b)
    <3> HIDE DEF a, s, b
    <3> QED  BY <2>1
  <2>4. From(m)
    <3> SUFFICES ASSUME NEW k \in 1 .. Len(b)
                 PROVE  \E i \in 1 .. m : \E j \in 1 .. Len(seqs[i]) :
                          b[k] = seqs[i][j]
      OBVIOUS
    <3>1. CASE k <= Len(a)
      <4>1. k \in 1 .. Len(a)
        <5> HIDE DEF a, b
        <5> QED  BY <2>3, <3>1
      <4>2. PICK i \in 1 .. m - 1 : \E j \in 1 .. Len(seqs[i]) : a[k] = seqs[i][j]
        BY <2>2, <4>1
      <4>3. i \in 1 .. m
        BY <2>2
      <4> QED  BY <2>3, <4>1, <4>2, <4>3
    <3>2. CASE k > Len(a)
      <4>1. k - Len(a) \in 1 .. Len(s) /\ b[k] = s[k - Len(a)]
        <5>1. k - Len(a) \in 1 .. Len(s) /\ Len(a) + (k - Len(a)) = k
          <6> HIDE DEF a, s, b
          <6> QED  BY <2>3, <3>2
        <5> QED  BY <2>3, <5>1
      <4>2. m \in 1 .. m
        BY <2>2
      <4> QED  BY <4>1, <4>2
    <3> HIDE DEF a, b
    <3> QED  BY <2>3, <3>1, <3>2
  <2>5. In(m)
    <3> SUFFICES ASSUME NEW i \in 1 .. m, NEW j \in 1 .. Len(seqs[i])
                 PROVE  \E k \in 1 .. Len(b) : b[k] = seqs[i][j]
      OBVIOUS
    <3>1. CASE i = m
      BY <2>3, <3>1
    <3>2. CASE i # m
      <4>1. i \in 1 .. m - 1
        BY <2>2, <3>2
      <4>2. PICK k \in 1 .. Len(a) : a[k] = seqs[i][j]
        BY <2>2, <4>1
      <4> QED  BY <2>3, <4>2
    <3> QED  BY <3>1, <3>2
  <2>6. m \in 0 .. n
    BY <1>1
  <2> QED  BY <2>4, <2>5, <2>6
<1>4. \A m \in 0 .. n : m \in P
  <2> HIDE DEF P
  <2> QED  BY <1>1, <1>2, <1>3, Induction
<1>5. n \in P
  <2> HIDE DEF P
  <2> QED  BY <1>1, <1>4
<1>6. From(n) /\ In(n)
  BY <1>5
<1> HIDE DEF Flat
<1> QED  BY <1>1, <1>6

(* Parts are folded one after the other. *)
LEMMA FoldedFlatten ==
  ASSUME NEW S, NEW T, NEW base \in S, NEW step \in Steps(S, T),
         NEW seqs \in Lists(Lists(T))
  PROVE  \E f \in [0 .. Len(seqs) -> S] :
           /\ f[0] = base
           /\ \A k \in 1 .. Len(seqs) : f[k] = Folded(S, f[k - 1], step, seqs[k])
           /\ f[Len(seqs)] = Folded(S, base, step, FlattenSeq(seqs))
<1> DEFINE n == Len(seqs)
           Flat(k) == FlattenSeq(SubSeq(seqs, 1, k))
           f == [k \in 0 .. n |-> Folded(S, base, step, Flat(k))]
<1>1. n \in Nat /\ \A k \in 1 .. n : seqs[k] \in Lists(T)
  BY DEF Lists
<1>2. Flat(0) = <<>> /\ Flat(n) = FlattenSeq(seqs) /\ <<>> \in Lists(T)
  BY FlattenFirst, FlattenEmpty, JoiningType
<1>3. ASSUME NEW k \in 1 .. n
      PROVE  Flat(k - 1) \in Lists(T) /\ Flat(k) = Flat(k - 1) \o seqs[k]
  <2>1. SubSeq(seqs, 1, k - 1) \in Lists(Lists(T))
    BY FlattenUpto
  <2>2. Flat(k - 1) \in Lists(T)
    BY <2>1, FlattenType
  <2>3. Flat(k) = Flat(k - 1) \o seqs[k]
    BY FlattenUpto
  <2> QED  BY <2>2, <2>3
<1>4. ASSUME NEW k \in 0 .. n PROVE Flat(k) \in Lists(T)
  <2>1. CASE k = n
    BY <1>2, <2>1, FlattenType
  <2>2. CASE k # n
    <3>1. k + 1 \in 1 .. n /\ (k + 1) - 1 = k
      BY <1>1, <2>2
    <3>2. Flat((k + 1) - 1) \in Lists(T)
      BY <1>3, <3>1
    <3> HIDE DEF Flat
    <3> QED  BY <3>1, <3>2
  <2> QED  BY <2>1, <2>2
<1> HIDE DEF Flat
<1>5. f \in [0 .. n -> S]
  BY <1>4, FoldedType
<1>6. ASSUME NEW k \in 1 .. n PROVE f[k] = Folded(S, f[k - 1], step, seqs[k])
  <2>1. k \in 0 .. n /\ k - 1 \in 0 .. n
    BY <1>1
  <2>2. seqs[k] \in Lists(T) /\ Flat(k - 1) \in Lists(T)
    BY <1>1, <1>3
  <2>3. Folded(S, base, step, Flat(k - 1) \o seqs[k])
          = Folded(S, Folded(S, base, step, Flat(k - 1)), step, seqs[k])
    BY <2>2, FoldedJoin
  <2> QED  BY <1>3, <2>1, <2>3
<1>7. 0 \in 0 .. n /\ n \in 0 .. n
  BY <1>1
<1>8. f[0] = base /\ f[n] = Folded(S, base, step, FlattenSeq(seqs))
  BY <1>2, <1>7, FoldedEmpty
<1> HIDE DEF f
<1> QED  BY <1>5, <1>6, <1>8

-----------------------------------------------------------------------------
(* Where the items of a sequence are in the flat one.                      *)
LEMMA FlattenPlaces ==
  ASSUME NEW T, NEW seqs \in Lists(Lists(T))
  PROVE  \E start \in [0 .. Len(seqs) -> Nat] :
           /\ start[0] = 0 /\ start[Len(seqs)] = Len(FlattenSeq(seqs))
           /\ \A i \in 1 .. Len(seqs) : start[i] = start[i - 1] + Len(seqs[i])
           /\ \A i \in 1 .. Len(seqs) : \A j \in 1 .. Len(seqs[i]) :
                /\ start[i - 1] + j \in 1 .. Len(FlattenSeq(seqs))
                /\ FlattenSeq(seqs)[start[i - 1] + j] = seqs[i][j]
           /\ \A k \in 1 .. Len(FlattenSeq(seqs)) :
                \E i \in 1 .. Len(seqs) : \E j \in 1 .. Len(seqs[i]) :
                  k = start[i - 1] + j
<1> DEFINE n == Len(seqs)
           flat == [m \in 0 .. n |-> FlattenSeq(SubSeq(seqs, 1, m))]
           start == [m \in 0 .. n |-> Len(flat[m])]
           At(m) == \A i \in 1 .. m : \A j \in 1 .. Len(seqs[i]) :
                      /\ start[i - 1] + j \in 1 .. Len(flat[m])
                      /\ flat[m][start[i - 1] + j] = seqs[i][j]
           Of(m) == \A k \in 1 .. Len(flat[m]) :
                      \E i \in 1 .. m : \E j \in 1 .. Len(seqs[i]) :
                        k = start[i - 1] + j
           P == {m \in 0 .. n : At(m) /\ Of(m)}
<1>1. n \in Nat /\ flat[0] = <<>> /\ flat[n] = FlattenSeq(seqs)
  <2>1. n \in Nat
    BY DEF Lists
  <2>2. SubSeq(seqs, 1, 0) = <<>> /\ SubSeq(seqs, 1, n) = seqs
    BY FlattenFirst
  <2>3. 0 \in 0 .. n /\ n \in 0 .. n
    BY <2>1
  <2> QED  BY <2>1, <2>2, <2>3, FlattenEmpty
<1>2. ASSUME NEW m \in 1 .. n
      PROVE  /\ m - 1 \in 0 .. n /\ m \in 0 .. n
             /\ flat[m - 1] \in Seq(T) /\ seqs[m] \in Seq(T)
             /\ flat[m] = flat[m - 1] \o seqs[m]
  <2>1. m - 1 \in 0 .. n /\ m \in 0 .. n
    BY <1>1
  <2>2. SubSeq(seqs, 1, m - 1) \in Lists(Lists(T)) /\ flat[m] = flat[m - 1] \o seqs[m]
    BY <2>1, FlattenUpto
  <2>3. flat[m - 1] \in Lists(T)
    BY <2>1, <2>2, FlattenType
  <2>4. seqs[m] \in Lists(T)
    <3>1. seqs \in Seq(Lists(T))
      BY DEF Lists
    <3> QED  BY <3>1
  <2> HIDE DEF flat
  <2> QED  BY <2>1, <2>2, <2>3, <2>4 DEF Lists
<1> HIDE DEF flat
<1>3. ASSUME NEW m \in 1 .. n
      PROVE  /\ m - 1 \in 0 .. n /\ m \in 0 .. n /\ start[m - 1] = Len(flat[m - 1])
             /\ start[m] = start[m - 1] + Len(seqs[m])
             /\ start[m - 1] \in Nat /\ start[m] = Len(flat[m]) /\ Len(seqs[m]) \in Nat
             /\ \A k \in 1 .. start[m - 1] : flat[m][k] = flat[m - 1][k]
             /\ \A j \in 1 .. Len(seqs[m]) : flat[m][start[m - 1] + j] = seqs[m][j]
  <2> DEFINE a == flat[m - 1]
             s == seqs[m]
             b == flat[m]
  <2>1. m - 1 \in 0 .. n /\ m \in 0 .. n
    BY <1>1
  <2>2. start[m - 1] = Len(a) /\ start[m] = Len(b)
    BY <2>1
  <2>3. a \in Seq(T) /\ s \in Seq(T) /\ b = a \o s
    BY <1>2
  <2>4. /\ Len(b) = Len(a) + Len(s) /\ Len(a) \in Nat /\ Len(s) \in Nat
        /\ \A k \in 1 .. Len(a) : b[k] = a[k]
        /\ \A j \in 1 .. Len(s) : b[Len(a) + j] = s[j]
    <3> HIDE DEF a, s, b
    <3> QED  BY <2>3
  <2> HIDE DEF start
  <2> QED  BY <2>1, <2>2, <2>4
<1>4. start[0] = 0 /\ start[n] = Len(FlattenSeq(seqs))
  BY <1>1
<1> HIDE DEF start
<1>5. start \in [0 .. n -> Nat]
  <2>1. \A m \in 0 .. n : start[m] \in Nat
    <3> SUFFICES ASSUME NEW m \in 0 .. n PROVE start[m] \in Nat
      OBVIOUS
    <3>1. CASE m = 0
      BY <1>4, <3>1
    <3>2. CASE m # 0
      <4>1. m \in 1 .. n
        BY <1>1, <3>2
      <4>2. start[m] = start[m - 1] + Len(seqs[m]) /\ start[m - 1] \in Nat
            /\ Len(seqs[m]) \in Nat
        BY <1>3, <4>1
      <4> QED  BY <4>2
    <3> QED  BY <3>1, <3>2
  <2> QED  BY <2>1 DEF start
<1>6. 0 \in P
  <2>1. Len(flat[0]) = 0
    BY <1>1
  <2> QED  BY <1>1, <2>1
<1>7. ASSUME NEW m \in 1 .. n, m - 1 \in P PROVE m \in P
  <2>0. m \in 0 .. n /\ m \in Nat
    BY <1>1
  <2>1. At(m - 1) /\ Of(m - 1)
    BY <1>7
  <2>2. /\ start[m - 1] = Len(flat[m - 1]) /\ start[m - 1] \in Nat /\ Len(seqs[m]) \in Nat
        /\ Len(flat[m]) = start[m - 1] + Len(seqs[m])
        /\ \A k \in 1 .. start[m - 1] : flat[m][k] = flat[m - 1][k]
        /\ \A j \in 1 .. Len(seqs[m]) : flat[m][start[m - 1] + j] = seqs[m][j]
    BY <1>3
  <2> DEFINE more == Len(flat[m])
             size == Len(seqs[m])
             from == start[m - 1]
  <2>9. from \in Nat /\ size \in Nat /\ more = from + size /\ from = Len(flat[m - 1])
    BY <2>2
  <2> HIDE DEF more, size, from
  <2>3. At(m)
    <3> SUFFICES ASSUME NEW i \in 1 .. m, NEW j \in 1 .. Len(seqs[i])
                 PROVE  /\ start[i - 1] + j \in 1 .. Len(flat[m])
                        /\ flat[m][start[i - 1] + j] = seqs[i][j]
      OBVIOUS
    <3>1. CASE i = m
      <4>1. j \in 1 .. Len(seqs[m])
        BY <3>1
      <4>2. start[m - 1] + j \in 1 .. Len(flat[m])
        <5>1. j \in 1 .. size
          BY <4>1 DEF size
        <5>2. from + j \in 1 .. more
          BY <2>9, <5>1
        <5> QED  BY <5>2 DEF from, more
      <4>3. flat[m][start[m - 1] + j] = seqs[m][j]
        BY <2>2, <4>1
      <4> QED  BY <3>1, <4>2, <4>3
    <3>2. CASE i # m
      <4>1. i \in 1 .. m - 1
        BY <2>0, <3>2
      <4>2. start[i - 1] + j \in 1 .. Len(flat[m - 1])
            /\ flat[m - 1][start[i - 1] + j] = seqs[i][j]
        BY <2>1, <4>1
      <4>3. start[i - 1] + j \in 1 .. start[m - 1]
            /\ start[i - 1] + j \in 1 .. Len(flat[m])
        <5>1. start[i - 1] + j \in 1 .. from
          BY <2>9, <4>2
        <5>2. \A x \in 1 .. from : x \in 1 .. more
          BY <2>9
        <5> QED  BY <5>1, <5>2 DEF from, more
      <4> QED  BY <2>2, <4>2, <4>3
    <3> QED  BY <3>1, <3>2
  <2>4. Of(m)
    <3> SUFFICES ASSUME NEW k \in 1 .. Len(flat[m])
                 PROVE  \E i \in 1 .. m : \E j \in 1 .. Len(seqs[i]) : k = start[i - 1] + j
      OBVIOUS
    <3>1. CASE k <= start[m - 1]
      <4>1. k \in 1 .. Len(flat[m - 1])
        BY <2>2, <3>1
      <4>2. PICK i \in 1 .. m - 1 : \E j \in 1 .. Len(seqs[i]) : k = start[i - 1] + j
        BY <2>1, <4>1
      <4>3. i \in 1 .. m
        BY <2>0
      <4> QED  BY <4>2, <4>3
    <3>2. CASE k > start[m - 1]
      <4>0. k \in 1 .. more /\ k > from
        BY <3>2 DEF more, from
      <4>3. k - from \in 1 .. size /\ k = from + (k - from)
        BY <2>9, <4>0
      <4>1. k - start[m - 1] \in 1 .. Len(seqs[m]) /\ k = start[m - 1] + (k - start[m - 1])
        BY <4>3 DEF from, size
      <4>2. m \in 1 .. m
        BY <2>0
      <4> QED  BY <4>1, <4>2
    <3> QED  BY <2>2, <3>1, <3>2
  <2> QED  BY <2>0, <2>3, <2>4
<1>8. \A m \in 0 .. n : m \in P
  <2> HIDE DEF P
  <2> QED  BY <1>1, <1>6, <1>7, Induction
<1>9. At(n) /\ Of(n)
  <2>1. n \in P
    <3> HIDE DEF P
    <3> QED  BY <1>1, <1>8
  <2> QED  BY <2>1
<1>10. \A i \in 1 .. n : start[i] = start[i - 1] + Len(seqs[i])
  BY <1>3
<1>11. flat[n] = FlattenSeq(seqs)
  BY <1>1
<1> WITNESS start \in [0 .. n -> Nat]
<1> QED  BY <1>4, <1>9, <1>10, <1>11

(* Places of different items.                                              *)
LEMMA PlacesGrow ==
  ASSUME NEW n \in Nat, NEW start \in [0 .. n -> Nat], NEW size \in [1 .. n -> Nat],
         \A i \in 1 .. n : start[i] = start[i - 1] + size[i]
  PROVE  \A j \in 0 .. n : \A i \in 0 .. j : start[i] <= start[j]
<1> DEFINE P == {j \in 0 .. n : \A i \in 0 .. j : start[i] <= start[j]}
<1>1. 0 \in P
  OBVIOUS
<1>2. ASSUME NEW j \in 1 .. n, j - 1 \in P PROVE j \in P
  <2>1. \A i \in 0 .. j - 1 : start[i] <= start[j - 1]
    BY <1>2
  <2>2. start[j] = start[j - 1] + size[j] /\ size[j] \in Nat /\ start[j - 1] \in Nat
    BY DEF Lists
  <2>3. ASSUME NEW i \in 0 .. j PROVE start[i] <= start[j]
    <3>1. i = j \/ i \in 0 .. j - 1
      OBVIOUS
    <3>2. start[i] \in Nat /\ start[j] \in Nat
      OBVIOUS
    <3> QED  BY <2>1, <2>2, <3>1, <3>2
  <2> QED  BY <2>3
<1>3. \A j \in 0 .. n : j \in P
  <2> HIDE DEF P
  <2> QED  BY <1>1, <1>2, Induction
<1> QED  BY <1>3
=============================================================================
