----------------------------- MODULE BoxTreeProofs -----------------------------
(***************************************************************************)
(* For every tree, every size of the reserved space, every cut and every   *)
(* word lost: the boxes stay inside the memory that tables.buf has         *)
(* (RoomInv), and what is read is in the file (ReaderInv).                 *)
(*                                                                         *)
(* For every file that is cut or not: it is opened with all boxes of the   *)
(* moov or with none, and only one that ends in the header of an 'mdat' of *)
(* 64 bits is refused.  Four invariants follow the moov from the memory to *)
(* the reader: in memory each box begins where the words of those before   *)
(* it end, and has its size once its call returned (WriterInv); the file   *)
(* falls into boxes, one of them the moov, and no other word of it is      *)
(* taken for the type of one (PlacesInv); of the nested calls of the       *)
(* reader each is in a box inside the one before, and the innermost at the *)
(* next box, having seen all before it (SearchInv).                        *)
(***************************************************************************)
EXTENDS BoxTree, Recursion, SequenceTheorems, TLAPS

(* The limits that the nested calls are given all name the same end, each  *)
(* call has its header in the buffer, and there is no second box at the    *)
(* level of the moov.                                                      *)
RoomInv ==
  /\ tree \in Trees /\ reserve \in Nat
  /\ buf \in Seq(Nat) /\ bufSize \in Nat
  /\ writers \in Seq([start : Nat, max : Int])
  /\ next \in Nat \ {0} /\ factor \in Nat \ {0}
  /\ factor = 1 => bufSize = Header + reserve
  /\ Bytes(buf) <= Limit
  /\ \A i \in DOMAIN writers : writers[i].start + writers[i].max = Limit
  /\ \A i \in DOMAIN writers : writers[i].start + Header <= Bytes(buf)
  /\ next = 1 => Len(buf) = 0

(* The words of a box that come before its children.                       *)
LEMMA OwnWordsType ==
  ASSUME NEW box \in [kind : Kinds, level : Nat \ {0}, words : Nat]
  PROVE  /\ OwnWords(box) \in Seq(Nat)
         /\ box.kind \in {Moov, Container} => Len(OwnWords(box)) = 2
<1>1. \A word \in Nat, n \in Nat : Copies(word, n) \in Seq(Nat)
  BY DEF Copies
<1>2. \A type \in Nat, words \in Seq(Nat) : Box(type, words) \in Seq(Nat)
  BY DEF Box, Bytes, Header
<1>3. Moov \in Nat /\ Container \in Nat /\ Leaf \in Nat /\ Table \in Nat /\ Body \in Nat
  BY WordAssumption
<1>4. Copies(Body, box.words) \in Seq(Nat)
  BY <1>1, <1>3
<1>5. <<0, box.words>> \o Copies(Body, box.words) \in Seq(Nat)
  BY <1>4
<1>6. CASE box.kind \in {Moov, Container}
  BY <1>3, <1>6 DEF OwnWords
<1>7. CASE box.kind \notin {Moov, Container} /\ box.kind = Leaf
  BY <1>2, <1>3, <1>4, <1>7 DEF OwnWords
<1>8. CASE box.kind \notin {Moov, Container} /\ box.kind # Leaf
  <2>1. \/ OwnWords(box) = <<>>
        \/ OwnWords(box) = Box(Table, <<0, box.words>> \o Copies(Body, box.words))
    BY <1>8 DEF OwnWords
  <2>2. Box(Table, <<0, box.words>> \o Copies(Body, box.words)) \in Seq(Nat)
    BY <1>2, <1>3, <1>5
  <2>3. <<>> \in Seq(Nat)
    OBVIOUS
  <2>4. OwnWords(box) \in Seq(Nat)
    BY <2>1, <2>2, <2>3, Zenon
  <2> QED  BY <1>8, <2>4
<1> QED  BY <1>6, <1>7, <1>8

(* The top of a stack is one of its elements.                              *)
LEMMA LastOfSeq ==
  ASSUME NEW S, NEW s \in Seq(S), s # <<>>
  PROVE  s[Len(s)] \in S
  BY ElementOfSeq

(* A size put in place changes no length.                                  *)
LEMMA ReplacedWord ==
  ASSUME NEW words \in Seq(Nat), NEW at, NEW word \in Nat
  PROVE  /\ [words EXCEPT ![at] = word] \in Seq(Nat)
         /\ Len([words EXCEPT ![at] = word]) = Len(words)
<1>1. CASE at \in 1 .. Len(words)
  BY <1>1, ExceptSeq
<1>2. CASE at \notin 1 .. Len(words)
  BY <1>2, [words EXCEPT ![at] = word] = words
<1> QED  BY <1>1, <1>2

(* A fresh buffer is empty.                                                *)
LEMMA RoomInit == Init => RoomInv
<1> SUFFICES ASSUME Init PROVE RoomInv
  OBVIOUS
<1>1. tree \in Trees /\ reserve \in Nat /\ reserve >= Header
  BY TreeAssumption DEF Init
<1>2. buf = <<>> /\ writers = <<>> /\ next = 1 /\ factor = 1
  BY DEF Init
<1>3. bufSize = Header + reserve
  BY DEF Init
<1> QED  BY <1>1, <1>2, <1>3 DEF RoomInv, Bytes, Limit, Header

(* What the next call may write is what is left up to the limit.           *)
LEMMA RoomIsLeft ==
  ASSUME RoomInv, Pending
  PROVE  Room = Limit - Bytes(buf)
<1>1. CASE writers = <<>>
  <2>1. tree[next].level = 1 /\ next \in 1 .. Len(tree)
    BY <1>1 DEF Pending, RoomInv
  <2>2. next = 1
    <3>1. tree \in Trees
      BY DEF RoomInv
    <3>2. ASSUME next \in 2 .. Len(tree) PROVE tree[next].level >= 2
      BY <3>1, <3>2, TreeAssumption, Z3
    <3>3. next = 1 \/ next \in 2 .. Len(tree)
      BY <2>1
    <3> QED  BY <2>1, <3>2, <3>3
  <2> QED  BY <1>1, <2>2 DEF Room, RoomInv, Bytes, Limit, Header
<1>2. CASE writers # <<>>
  <2> DEFINE last == writers[Len(writers)]
  <2>1. Len(writers) \in DOMAIN writers
    BY <1>2 DEF RoomInv
  <2>2. last.start \in Nat /\ last.max \in Int /\ last.start + last.max = Limit
    <3>1. /\ writers \in Seq([start : Nat, max : Int])
          /\ \A i \in DOMAIN writers : writers[i].start + writers[i].max = Limit
      BY DEF RoomInv
    <3>2. last \in [start : Nat, max : Int]
      BY <1>2, <3>1, LastOfSeq, Zenon
    <3> QED  BY <2>1, <3>1, <3>2
  <2>3. Bytes(buf) \in Int
    BY DEF RoomInv, Bytes
  <2>4. Room = last.max - (Bytes(buf) - last.start)
    BY <1>2 DEF Room, ChildRoom
  <2> HIDE DEF last
  <2> QED  BY <2>2, <2>3, <2>4
<1> QED  BY <1>1, <1>2

(* A box that fits in its room fits under the limit, and a container gets  *)
(* a limit that ends where the room of its caller ends.                    *)
LEMMA WriteBoxRoom == ASSUME RoomInv, WriteBox PROVE RoomInv'
<1> DEFINE own == OwnWords(tree[next])
<1>1. tree[next] \in [kind : Kinds, level : Nat \ {0}, words : Nat]
  <2>1. tree \in Trees /\ next \in 1 .. Len(tree)
    BY DEF RoomInv, WriteBox, Pending
  <2>2. tree \in Seq([kind : Kinds, level : Nat \ {0}, words : Nat])
    BY <2>1, TreeAssumption
  <2> QED  BY <2>1, <2>2, ElementOfSeq
<1>2. /\ own \in Seq(Nat)
      /\ tree[next].kind \in {Moov, Container} => Len(own) = 2
  BY <1>1, OwnWordsType
<1>3. Room = Limit - Bytes(buf) /\ Bytes(own) <= Room
  BY RoomIsLeft DEF WriteBox, Fits
<1>4. buf' = buf \o own /\ next' = next + 1
  BY DEF WriteBox
<1>5. Limit' = Limit /\ Limit \in Int
  BY DEF WriteBox, Limit, RoomInv, Header
<1> HIDE DEF own
<1>6. buf' \in Seq(Nat) /\ Bytes(buf') = Bytes(buf) + Bytes(own)
  BY <1>2, <1>4 DEF RoomInv, Bytes
<1>7. Bytes(buf') <= Limit'
  BY <1>2, <1>3, <1>5, <1>6 DEF RoomInv, Bytes
<1>8. /\ writers' \in Seq([start : Nat, max : Int])
      /\ \A i \in DOMAIN writers' : writers'[i].start + writers'[i].max = Limit'
      /\ \A i \in DOMAIN writers' : writers'[i].start + Header <= Bytes(buf')
  <2> DEFINE new == [start |-> Bytes(buf), max |-> Room]
  <2>1. Bytes(buf) \in Nat
    BY DEF RoomInv, Bytes
  <2>2. new \in [start : Nat, max : Int] /\ new.start + new.max = Limit
    BY <1>3, <1>5, <2>1
  <2>3. /\ writers \in Seq([start : Nat, max : Int])
        /\ \A i \in DOMAIN writers : writers[i].start + writers[i].max = Limit
        /\ \A i \in DOMAIN writers : writers[i].start + Header <= Bytes(buf)
        /\ \A i \in DOMAIN writers : writers[i].start \in Nat
    <3>1. writers \in Seq([start : Nat, max : Int])
      BY DEF RoomInv
    <3>2. ASSUME NEW i \in DOMAIN writers PROVE writers[i].start \in Nat
      <4>1. i \in 1 .. Len(writers)
        BY <3>1
      <4>2. writers[i] \in [start : Nat, max : Int]
        BY <3>1, <4>1, ElementOfSeq
      <4> QED  BY <4>2
    <3> QED  BY <3>2 DEF RoomInv
  <2>4. \/ writers' = writers
        \/ writers' = Append(writers, new) /\ new.start + Header = Bytes(buf')
    <3>1. \/ writers' = writers
          \/ writers' = Append(writers, new) /\ tree[next].kind \in {Moov, Container}
      BY DEF WriteBox
    <3>2. ASSUME tree[next].kind \in {Moov, Container} PROVE Bytes(own) = Header
      <4>1. Len(own) = 2
        BY <1>2, <3>2
      <4> QED  BY <4>1 DEF Bytes, Header
    <3> QED  BY <1>6, <3>1, <3>2
  <2>7. Bytes(buf) <= Bytes(buf') /\ Bytes(buf') \in Nat
    BY <1>2, <1>6, <2>1 DEF Bytes
  <2> HIDE DEF new
  <2>5. CASE writers' = writers
    <3>1. ASSUME NEW i \in DOMAIN writers PROVE writers[i].start + Header <= Bytes(buf')
      <4>1. writers[i].start \in Nat /\ writers[i].start + Header <= Bytes(buf)
        BY <2>3
      <4> QED  BY <2>1, <2>7, <4>1 DEF Header
    <3> QED  BY <1>5, <2>3, <2>5, <3>1
  <2>6. CASE writers' = Append(writers, new) /\ new.start + Header = Bytes(buf')
    <3>1. /\ writers' \in Seq([start : Nat, max : Int])
          /\ DOMAIN writers' = 1 .. Len(writers) + 1
          /\ \A i \in 1 .. Len(writers) + 1 :
               writers'[i] = IF i <= Len(writers) THEN writers[i] ELSE new
      BY <2>2, <2>3, <2>6
    <3>2. DOMAIN writers = 1 .. Len(writers) /\ Len(writers) \in Nat
      BY <2>3
    <3>3. ASSUME NEW i \in DOMAIN writers'
          PROVE  writers'[i].start + writers'[i].max = Limit'
      <4>1. CASE i = Len(writers) + 1
        <5>1. writers'[i] = new
          BY <3>1, <3>2, <4>1
        <5> QED  BY <1>5, <2>2, <5>1
      <4>2. CASE i \in 1 .. Len(writers)
        BY SMTT(20), <1>5, <2>3, <3>1, <3>2, <4>2
      <4> QED  BY <2>3, <3>1, <3>3, <4>1, <4>2
    <3>4. ASSUME NEW i \in DOMAIN writers'
          PROVE  writers'[i].start + Header <= Bytes(buf')
      <4>1. CASE i = Len(writers) + 1
        <5>1. writers'[i] = new
          BY <3>1, <3>2, <4>1
        <5> QED  BY <2>6, <2>7, <5>1
      <4>2. CASE i \in 1 .. Len(writers)
        <5>1. /\ writers'[i] = writers[i] /\ writers[i].start \in Nat
              /\ writers[i].start + Header <= Bytes(buf)
          BY <2>3, <3>1, <3>2, <4>2
        <5> QED  BY <2>1, <2>7, <5>1 DEF Header
      <4> QED  BY <2>3, <3>1, <3>4, <4>1, <4>2
    <3> QED  BY <3>1, <3>3, <3>4
  <2> QED  BY <2>4, <2>5, <2>6
<1>9. UNCHANGED <<tree, reserve, bufSize, factor>>
  BY DEF WriteBox
<1> QED  BY <1>4, <1>6, <1>7, <1>8, <1>9 DEF RoomInv

(* The size of a finished box is put in place of a word that is there.     *)
LEMMA CloseBoxRoom == ASSUME RoomInv, CloseBox PROVE RoomInv'
<1> DEFINE last == Len(writers)
           start == writers[last].start
           Call  == [start : Nat, max : Int]
<1>1. writers \in Seq(Call) /\ writers # <<>> /\ last \in Nat \ {0}
  BY DEF RoomInv, CloseBox
<1>2. start \in Nat
  <2>1. writers[last] \in Call
    BY <1>1, LastOfSeq, Zenon
  <2> QED  BY <2>1
<1>3. buf' = [buf EXCEPT ![start \div 4 + 1] = Bytes(buf) - start]
  BY DEF CloseBox, Sized
<1>4. writers' = SubSeq(writers, 1, last - 1)
  BY DEF CloseBox
<1>5. Bytes(buf) - start \in Nat /\ buf \in Seq(Nat)
  <2>1. last \in DOMAIN writers
    BY <1>1
  <2>2. start + Header <= Bytes(buf) /\ buf \in Seq(Nat)
    BY <2>1 DEF RoomInv
  <2> HIDE DEF start
  <2> QED  BY <1>2, <2>2 DEF Bytes, Header
<1>6. \A i \in 1 .. last : /\ writers[i] \in Call
                          /\ writers[i].start + writers[i].max = Limit
                          /\ writers[i].start + Header <= Bytes(buf)
  <2>1. DOMAIN writers = 1 .. last
    BY <1>1, LenProperties
  <2>2. \A i \in 1 .. last : writers[i] \in Call
    BY <1>1, ElementOfSeq
  <2>3. \A i \in DOMAIN writers : /\ writers[i].start + writers[i].max = Limit
                                 /\ writers[i].start + Header <= Bytes(buf)
    BY DEF RoomInv
  <2> QED  BY <2>1, <2>2, <2>3
<1> HIDE DEF start, last, Call
<1>7. buf' \in Seq(Nat) /\ Len(buf') = Len(buf)
  BY <1>3, <1>5, ReplacedWord
<1>8. Limit' = Limit
  BY DEF CloseBox, Limit
<1>9. Bytes(buf') <= Limit'
  BY <1>7, <1>8 DEF RoomInv, Bytes
<1>10. /\ writers' \in Seq(Call)
       /\ \A i \in DOMAIN writers' : writers'[i].start + writers'[i].max = Limit'
       /\ \A i \in DOMAIN writers' : writers'[i].start + Header <= Bytes(buf')
  <2>1. \A i \in 1 .. last - 1 : writers[i] \in Call
    BY <1>1, <1>6
  <2>2. /\ writers' \in Seq(Call) /\ Len(writers') = last - 1
        /\ \A i \in 1 .. last - 1 : writers'[i] = writers[i]
    BY <1>1, <1>4, <2>1, SubSeqProperties
  <2>3. DOMAIN writers' = 1 .. last - 1
    BY <2>2, LenProperties
  <2>4. Bytes(buf') = Bytes(buf)
    BY <1>7 DEF Bytes
  <2> QED  BY <1>1, <1>6, <1>8, <2>2, <2>3, <2>4
<1>11. UNCHANGED <<tree, reserve, bufSize, next, factor>>
  BY DEF CloseBox
<1> QED  BY <1>7, <1>8, <1>9, <1>10, <1>11 DEF RoomInv, Call

(* A new attempt starts empty, in all of the larger memory.                *)
LEMMA GrowRoom == ASSUME RoomInv, Grow PROVE RoomInv'
<1>1. factor' = factor + 1 /\ bufSize' = (Header + reserve) * factor'
  BY DEF Grow, NextFactor, DataOffset
<1>2. factor' \in Nat \ {0} /\ factor' # 1
  BY <1>1 DEF RoomInv
<1>3. bufSize' \in Nat
  <2>1. Header + reserve \in Nat
    BY DEF RoomInv, Header
  <2>2. \A a, b \in Nat : a * b \in Nat
    OBVIOUS
  <2> QED  BY <1>1, <1>2, <2>1, <2>2
<1>4. buf' = <<>> /\ writers' = <<>> /\ next' = 1 /\ UNCHANGED <<tree, reserve>>
  BY DEF Grow
<1>5. Limit' = bufSize'
  <2>1. Limit' = bufSize' - 0
    BY <1>2 DEF Limit
  <2>2. \A bytes \in Nat : bytes - 0 = bytes
    OBVIOUS
  <2> QED  BY <1>3, <2>1, <2>2, Zenon
<1>6. buf' \in Seq(Nat) /\ Len(buf') = 0 /\ Bytes(buf') = 0
  BY <1>4 DEF Bytes
<1>7. /\ writers' \in Seq([start : Nat, max : Int])
      /\ \A i \in DOMAIN writers' : writers'[i].start + writers'[i].max = Limit'
      /\ \A i \in DOMAIN writers' : writers'[i].start + Header <= Bytes(buf')
  BY <1>4
<1>8. tree' \in Trees /\ reserve' \in Nat
  BY <1>4 DEF RoomInv
<1> QED  BY <1>2, <1>3, <1>4, <1>5, <1>6, <1>7, <1>8 DEF RoomInv

(* Every step keeps the invariant; what happens to the file and to the     *)
(* reader leaves the memory of the writer alone.                           *)
LEMMA RoomStep == RoomInv /\ [Next]_vars => RoomInv'
<1> SUFFICES ASSUME RoomInv, [Next]_vars PROVE RoomInv'
  OBVIOUS
<1> USE DEF writeVars
<1>1. ASSUME UNCHANGED writeVars PROVE RoomInv'
  BY <1>1 DEF RoomInv, Limit, Bytes
<1>2. CASE Write
  <2>1. CASE Flush
    BY <1>1, <2>1 DEF Flush
  <2>2. CASE GiveUp
    BY <1>1, <2>2 DEF GiveUp
  <2> QED  BY <1>2, <2>1, <2>2, WriteBoxRoom, CloseBoxRoom, GrowRoom DEF Write
<1>3. CASE OpenEmpty
  BY <1>1, <1>3 DEF OpenEmpty
<1>4. ASSUME NEW words \in 1 .. Len(file), Open(words) PROVE RoomInv'
  BY <1>1, <1>4 DEF Open, Start
<1>5. ASSUME NEW at \in 1 .. Len(file), NEW word \in Lost, OpenDamaged(at, word)
      PROVE RoomInv'
  BY <1>1, <1>5 DEF OpenDamaged, Start
<1>6. CASE Read
  <2>1. ASSUME NEW bytes, NEW from, Return(bytes, from) PROVE RoomInv'
    BY <1>1, <2>1 DEF Return
  <2>2. CASE ReadBad
    BY <1>1, <2>2 DEF ReadBad, Refuse
  <2>3. CASE ReadTruncated
    BY <2>1, <2>3 DEF ReadTruncated
  <2>4. CASE Enter
    BY <1>1, <2>4 DEF Enter
  <2>5. CASE ReadLeaf
    BY <1>1, <2>5 DEF ReadLeaf, Skip
  <2>6. CASE ReadTable
    BY <1>1, <2>6 DEF ReadTable, Skip, Refuse
  <2>7. CASE ReadAll
    BY <2>1, <2>7 DEF ReadAll
  <2> QED  BY <1>6, <2>2, <2>3, <2>4, <2>5, <2>6, <2>7 DEF Read
<1>7. CASE UNCHANGED vars
  BY <1>1, <1>7 DEF vars
<1> QED  BY <1>2, <1>3, <1>4, <1>5, <1>6, <1>7 DEF Next

(* The invariant implies the property.                                     *)
LEMMA RoomHolds == RoomInv => RoomKept
<1> SUFFICES ASSUME RoomInv PROVE RoomKept
  OBVIOUS
<1> QED  BY DEF RoomInv, RoomKept, Limit, Bytes, Header

(* mp4_box_container_write gives each child maxBytes - bytesWritten: for   *)
(* every tree, however deep, the boxes stay inside tables.buf, and a moov  *)
(* written in place inside the reserved space.                             *)
THEOREM RoomIsKept == Spec => []RoomKept
<1>1. Init => RoomInv
  BY RoomInit
<1>2. RoomInv /\ [Next]_vars => RoomInv'
  BY RoomStep
<1>3. RoomInv => RoomKept
  BY RoomHolds
<1> QED  BY <1>1, <1>2, <1>3, PTL DEF Spec

-----------------------------------------------------------------------------
(***************************************************************************)
(* The reader.  A box that a call enters lies inside what the call may     *)
(* still read, so that the parts of the file that the nested calls may     *)
(* read end one before the other, the outermost at the end of the file:    *)
(* what keeps every word that is read inside the file, a file with a       *)
(* damaged word included.                                                  *)
(***************************************************************************)
Calls == [type : {"root"} \cup Nat, max : Nat, read : Nat, size : Nat,
          boxRead : Nat, last : BOOLEAN]

(* Where the part of each call ends, from the outermost.                   *)
EndsAt(e) ==
  /\ e \in [1 .. Len(readers) -> Nat]
  /\ \A i \in 1 .. Len(readers) : e[i] <= Size
  /\ pos + (Top.max - Top.read) <= e[Len(readers)]
  /\ \A i \in 1 .. Len(readers) : i > 1 =>
       e[i] + (readers[i - 1].max - (readers[i - 1].read + readers[i - 1].size))
         <= e[i - 1]

(* Of two nested calls, the inner one reads what is left of the box the    *)
(* outer one is in, which is inside the part of the outer one.             *)
Nested ==
  \A i \in 1 .. Len(readers) :
    /\ readers[i].read <= readers[i].max
    /\ i > 1 => /\ readers[i].max = readers[i - 1].size - readers[i - 1].boxRead
                /\ readers[i - 1].read + readers[i - 1].size <= readers[i - 1].max

FileInv ==
  /\ phase \in {"writing", "written", "reading", "opened", "refused"}
  /\ closing \in BOOLEAN /\ reserve \in Reserves
  /\ next \in 1 .. Len(tree) + 1
  /\ file \in Seq(Nat) /\ moovEnd \in Nat

ReaderInv ==
  /\ pos \in Nat /\ readers \in Seq(Calls)
  /\ phase \in {"writing", "written"} => pos = 0 /\ readers = <<>>
  /\ phase = "reading" => readers # <<>> /\ \E e : EndsAt(e)
  /\ Nested

TreeInv == RoomInv /\ FileInv /\ ReaderInv

(* A word whose offset is inside the file is one of its words.             *)
LEMMA WordInFile ==
  ASSUME file \in Seq(Nat), NEW offset \in Nat, offset < Size
  PROVE  Word(offset) \in Nat
<1>1. Len(file) \in Nat /\ offset < 4 * Len(file)
  BY DEF Size, Bytes
<1>2. offset \div 4 + 1 \in 1 .. Len(file)
  BY <1>1
<1> QED  BY <1>2, ElementOfSeq DEF Word

(* The innermost call, and what may still be read inside it.               *)
LEMMA TopType ==
  ASSUME ReaderInv, FileInv, phase = "reading"
  PROVE  /\ Len(readers) \in Nat \ {0} /\ Size \in Nat
         /\ Top \in Calls /\ Top.max \in Nat /\ Top.read \in Nat
         /\ Top.read <= Top.max /\ pos + (Top.max - Top.read) <= Size
<1>1. readers \in Seq(Calls) /\ readers # <<>> /\ Nested
  BY DEF ReaderInv
<1>2. Len(readers) \in Nat \ {0} /\ Len(readers) \in 1 .. Len(readers)
  BY <1>1
<1>3. Size \in Nat
  BY DEF FileInv, Size, Bytes
<1>4. Top \in Calls
  BY <1>1, LastOfSeq, Zenon DEF Top
<1>5. Top.max \in Nat /\ Top.read \in Nat
  BY <1>4 DEF Calls
<1>6. Top.read <= Top.max
  BY <1>1, <1>2 DEF Nested, Top
<1>7. PICK e : EndsAt(e)
  BY DEF ReaderInv
<1>8. /\ pos + (Top.max - Top.read) <= e[Len(readers)]
      /\ e[Len(readers)] \in Nat /\ e[Len(readers)] <= Size
  BY <1>2, <1>7 DEF EndsAt
<1>9. pos + (Top.max - Top.read) <= Size
  <2> DEFINE a == Top.max - Top.read
             b == e[Len(readers)]
  <2>1. a \in Int /\ pos \in Nat
    BY <1>5 DEF ReaderInv
  <2> HIDE DEF a, b
  <2> QED  BY <1>3, <1>8, <2>1 DEF a, b
<1> QED  BY <1>2, <1>3, <1>4, <1>5, <1>6, <1>9

(* The header of the next box is inside the file, and so its sizes are     *)
(* words.                                                                  *)
LEMMA HeaderInFile ==
  ASSUME ReaderInv, FileInv, More, IsLarge => LargeFits
  PROVE  /\ RealSize \in Nat /\ HeaderSize \in {Header, 2 * Header}
         /\ HeaderSize <= Top.max - Top.read /\ Type \in Nat
<1>1. phase = "reading" /\ pos < Size /\ Top.read + Header < Top.max /\ pos \in Nat
      /\ file \in Seq(Nat)
  BY DEF More, ReaderInv, FileInv
<1>2. /\ Size \in Nat /\ Top.max \in Nat /\ Top.read \in Nat
      /\ pos + (Top.max - Top.read) <= Size
  BY <1>1, TopType
<1>3. Word(pos) \in Nat /\ Word(pos + 4) \in Nat
  <2>1. pos + 4 \in Nat /\ pos + 4 < Size
    BY <1>1, <1>2 DEF Header
  <2> QED  BY <1>1, <2>1, WordInFile
<1>4. CASE IsLarge
  <2>1. Top.max >= Top.read + 16
    BY <1>4 DEF LargeFits, Header
  <2>2. pos + 12 \in Nat /\ pos + 12 < Size
    BY <1>1, <1>2, <2>1
  <2>3. Word(pos + 12) \in Nat
    BY <1>1, <2>2, WordInFile
  <2>4. RealSize \in Nat
    <3>1. RealSize \in {Size, Word(pos + 12), Size + 1, Word(pos)}
      BY DEF RealSize
    <3> QED  BY <1>2, <1>3, <2>3, <3>1
  <2> QED  BY <1>2, <1>3, <1>4, <2>1, <2>4 DEF HeaderSize, Header, Type
<1>5. CASE ~IsLarge
  <2>1. RealSize \in Nat
    BY <1>2, <1>3, <1>5 DEF RealSize
  <2> QED  BY <1>1, <1>2, <1>3, <1>5, <2>1 DEF HeaderSize, Header, Type
<1> QED  BY <1>4, <1>5

-----------------------------------------------------------------------------
(* What the writers put into the file are words.                           *)
LEMMA CopiesOfWord ==
  ASSUME NEW word \in Nat, NEW n \in Int
  PROVE  Copies(word, n) \in Seq(Nat)
<1>1. CASE n \in Nat
  BY <1>1 DEF Copies
<1>2. CASE n \notin Nat
  <2>1. 1 .. n = 1 .. 0
    BY <1>2
  <2>2. Copies(word, 0) \in Seq(Nat)
    BY DEF Copies
  <2> QED  BY <2>1, <2>2 DEF Copies
<1> QED  BY <1>1, <1>2

LEMMA BoxOfWords ==
  ASSUME NEW type \in Nat, NEW words \in Seq(Nat)
  PROVE  Box(type, words) \in Seq(Nat)
<1>1. Bytes(words) \in Nat
  BY DEF Bytes
<1>2. <<Header + Bytes(words), type>> \in Seq(Nat)
  BY <1>1 DEF Header
<1> QED  BY <1>2, ConcatProperties DEF Box

(* A free box that pads or reserves.                                       *)
LEMMA FreeType ==
  ASSUME NEW bytes \in Int, bytes >= Header
  PROVE  Box(Free, Copies(Body, (bytes - Header) \div 4)) \in Seq(Nat)
<1>1. (bytes - Header) \div 4 \in Int /\ Body \in Nat /\ Free \in Nat
  BY WordAssumption DEF Header
<1> QED  BY <1>1, CopiesOfWord, BoxOfWords

LEMMA PaddingType ==
  ASSUME NEW bytes \in Int, NEW old \in Nat
  PROVE  Padding(bytes, old) \in Seq(Nat)
<1>1. CASE bytes >= Header
  BY <1>1, FreeType DEF Padding
<1>2. CASE ~(bytes >= Header)
  <2>1. Padding(bytes, old) = Copies(old, bytes \div 4)
    BY <1>2 DEF Padding
  <2>2. bytes \div 4 \in Int
    OBVIOUS
  <2> QED  BY <2>1, <2>2, CopiesOfWord
<1> QED  BY <1>1, <1>2

LEMMA FilePartsType ==
  ASSUME NEW wide \in BOOLEAN
  PROVE  /\ MdatBoxes(wide) \in Seq(Nat)
         /\ Box(Ftyp, <<>>) \in Seq(Nat)
         /\ reserve \in Reserves => Reserved \in Seq(Nat)
<1>1. /\ <<>> \in Seq(Nat) /\ <<Body>> \in Seq(Nat)
      /\ Ftyp \in Nat /\ Free \in Nat /\ Mdat \in Nat /\ Body \in Nat
  BY WordAssumption
<1>2. /\ Box(Ftyp, <<>>) \in Seq(Nat) /\ Box(Free, <<>>) \in Seq(Nat)
      /\ Box(Mdat, <<Body>>) \in Seq(Nat)
  BY <1>1, BoxOfWords
<1>3. <<Large, Mdat, 0, 2 * Header + 4, Body>> \in Seq(Nat)
  BY <1>1 DEF Large, Header
<1>4. Box(Free, <<>>) \o Box(Mdat, <<Body>>) \in Seq(Nat)
  BY <1>2, ConcatProperties
<1>5. MdatBoxes(wide) \in Seq(Nat)
  BY <1>3, <1>4 DEF MdatBoxes
<1>6. ASSUME reserve \in Reserves PROVE Reserved \in Seq(Nat)
  <2>1. reserve \in Int /\ reserve >= Header
    BY <1>6, TreeAssumption
  <2> QED  BY <2>1, FreeType DEF Reserved
<1> QED  BY <1>2, <1>5, <1>6

(* The file that is left with or without a moov.                           *)
LEMMA FlushFile == ASSUME RoomInv, FileInv, Flush PROVE FileInv'
<1> DEFINE ftyp == Box(Ftyp, <<>>)
<1>1. reserve \in Reserves /\ buf \in Seq(Nat) /\ Len(buf) \in Nat /\ reserve \in Nat
  BY DEF RoomInv, FileInv
<1>2. PICK wide \in BOOLEAN, old \in Stale :
        IF factor = 1
        THEN /\ file' = ftyp \o buf \o Padding(reserve - Bytes(buf), old)
                        \o MdatBoxes(wide)
             /\ moovEnd' = Header + Bytes(buf)
        ELSE /\ file' = ftyp \o Reserved \o MdatBoxes(wide) \o buf
             /\ moovEnd' = Bytes(file')
  BY DEF Flush
<1>3. ftyp \in Seq(Nat) /\ MdatBoxes(wide) \in Seq(Nat) /\ Reserved \in Seq(Nat)
  BY <1>1, FilePartsType
<1>4. Padding(reserve - Bytes(buf), old) \in Seq(Nat)
  <2>1. reserve - Bytes(buf) \in Int /\ old \in Nat
    BY <1>1, <1>2, WordAssumption DEF Bytes
  <2> QED  BY <2>1, PaddingType
<1>5. Bytes(buf) \in Nat
  BY <1>1 DEF Bytes
<1> DEFINE mdat == MdatBoxes(wide)
           pad  == Padding(reserve - Bytes(buf), old)
<1> HIDE DEF ftyp, mdat, pad
<1>6. file' \in Seq(Nat) /\ moovEnd' \in Nat
  <2>1. CASE factor = 1
    <3>1. ftyp \o buf \o pad \o mdat \in Seq(Nat)
      BY <1>1, <1>3, <1>4, ConcatProperties DEF pad, mdat
    <3>2. file' = ftyp \o buf \o pad \o mdat /\ moovEnd' = Header + Bytes(buf)
      BY <1>2, <2>1 DEF pad, mdat
    <3> QED  BY <1>5, <3>1, <3>2 DEF Header
  <2>2. CASE factor # 1
    <3>1. ftyp \o Reserved \o mdat \o buf \in Seq(Nat)
      BY <1>1, <1>3, ConcatProperties DEF mdat
    <3>2. file' \in Seq(Nat) /\ moovEnd' = 4 * Len(file')
      BY <1>2, <2>2, <3>1 DEF mdat, Bytes
    <3> QED  BY <3>2
  <2> QED  BY <2>1, <2>2
<1>7. phase' = "written" /\ UNCHANGED <<closing, reserve, next, tree>>
  BY DEF Flush, writeVars
<1> QED  BY <1>6, <1>7 DEF FileInv

LEMMA GiveUpFile == ASSUME RoomInv, FileInv, GiveUp PROVE FileInv'
<1> DEFINE ftyp == Box(Ftyp, <<>>)
<1>1. reserve \in Reserves
  BY DEF FileInv
<1>2. PICK wide \in BOOLEAN : file' = ftyp \o Reserved \o MdatBoxes(wide)
  BY DEF GiveUp
<1>3. ftyp \in Seq(Nat) /\ MdatBoxes(wide) \in Seq(Nat) /\ Reserved \in Seq(Nat)
  BY <1>1, FilePartsType
<1> DEFINE mdat == MdatBoxes(wide)
<1> HIDE DEF ftyp, mdat
<1>4. ftyp \o Reserved \o mdat \in Seq(Nat)
  BY <1>3, ConcatProperties DEF mdat
<1>5. phase' = "written" /\ UNCHANGED <<closing, reserve, next, tree, moovEnd>>
  BY DEF GiveUp, writeVars
<1> QED  BY <1>2, <1>4, <1>5 DEF FileInv, mdat

(* The file stays a sequence of words, whatever happens to it.             *)
LEMMA FileStep == RoomInv /\ FileInv /\ [Next]_vars => FileInv'
<1> SUFFICES ASSUME RoomInv, FileInv, [Next]_vars PROVE FileInv'
  OBVIOUS
<1>1. CASE WriteBox
  <2>1. next' = next + 1 /\ next \in 1 .. Len(tree) /\ Len(tree) \in Nat
    <3>1. tree \in Trees /\ next \in 1 .. Len(tree) + 1 /\ next <= Len(tree)
      BY <1>1 DEF WriteBox, Pending, RoomInv, FileInv
    <3>2. Len(tree) \in Nat
      BY <3>1, TreeAssumption, LenProperties
    <3> QED  BY <1>1, <3>1, <3>2 DEF WriteBox
  <2>2. next' \in 1 .. Len(tree) + 1
    BY <2>1
  <2> QED  BY <1>1, <2>2 DEF WriteBox, FileInv, fileVars
<1>2. CASE CloseBox
  BY <1>2 DEF CloseBox, FileInv, fileVars
<1>3. CASE Grow
  <2>1. tree \in Trees
    BY DEF RoomInv
  <2>2. Len(tree) \in Nat
    BY <2>1, TreeAssumption, LenProperties
  <2>3. 1 \in 1 .. Len(tree) + 1
    BY <2>2
  <2> QED  BY <1>3, <2>3 DEF Grow, FileInv, fileVars
<1>4. CASE Flush
  BY <1>4, FlushFile
<1>5. CASE GiveUp
  BY <1>5, GiveUpFile
<1>6. CASE OpenEmpty
  <2>1. <<>> \in Seq(Nat)
    OBVIOUS
  <2> QED  BY <1>6, <2>1 DEF OpenEmpty, FileInv, writeVars
<1>7. ASSUME NEW words \in 1 .. Len(file), Open(words) PROVE FileInv'
  <2>1. SubSeq(file, 1, words) \in Seq(Nat)
    BY SubSeqProperties DEF FileInv
  <2> QED  BY <1>7, <2>1 DEF Open, Start, FileInv, writeVars
<1>8. ASSUME NEW at \in 1 .. Len(file), NEW word \in Lost, OpenDamaged(at, word)
      PROVE  FileInv'
  <2>1. [file EXCEPT ![at] = word] \in Seq(Nat)
    BY ReplacedWord, WordAssumption DEF FileInv
  <2> QED  BY <1>8, <2>1 DEF OpenDamaged, Start, FileInv, writeVars
<1>9. CASE Read
  <2> DEFINE Kept == /\ UNCHANGED <<writeVars, file, moovEnd>>
                     /\ phase' = phase \/ phase' = "refused" \/ phase' = "opened"
  <2>1. Kept
    <3>1. ASSUME NEW bytes, NEW from, Return(bytes, from) PROVE Kept
      BY <3>1 DEF Return, fileVars
    <3>2. CASE ReadBad
      BY <3>2 DEF ReadBad, Refuse, fileVars
    <3>3. CASE ReadTruncated
      BY <3>1, <3>3 DEF ReadTruncated
    <3>4. CASE Enter
      BY <3>4 DEF Enter, fileVars
    <3>5. CASE ReadLeaf
      BY <3>5 DEF ReadLeaf, Skip, fileVars
    <3>6. CASE ReadTable
      BY <3>6 DEF ReadTable, Skip, Refuse, fileVars
    <3>7. CASE ReadAll
      BY <3>1, <3>7 DEF ReadAll
    <3> QED  BY <1>9, <3>2, <3>3, <3>4, <3>5, <3>6, <3>7 DEF Read
  <2> QED  BY <2>1 DEF FileInv, writeVars
<1>10. CASE UNCHANGED vars
  BY <1>10 DEF vars, FileInv, writeVars, fileVars
<1> QED  BY <1>1, <1>2, <1>3, <1>4, <1>5, <1>6, <1>7, <1>8, <1>9, <1>10 DEF Next, Write

-----------------------------------------------------------------------------
(* The outermost call may read to the end of the file.                     *)
LEMMA StartReader ==
  ASSUME ReaderInv, FileInv, FileInv', NEW words \in Nat, Start(words),
         Len(file') = words
  PROVE  ReaderInv'
<1> DEFINE new == Reader("root", 4 * words)
           e   == [i \in 1 .. 1 |-> 4 * words]
<1>1. pos = 0 /\ pos' = pos /\ phase' = "reading" /\ readers' = <<new>>
  BY DEF Start, ReaderInv
<1>2. new \in Calls /\ new.max = 4 * words /\ new.read = 0
  BY DEF Reader, Calls
<1> HIDE DEF new
<1>3. readers' \in Seq(Calls) /\ Len(readers') = 1 /\ readers'[1] = new
  BY <1>1, <1>2
<1>4. Size' = 4 * words /\ Top' = new
  BY <1>1, <1>3 DEF Size, Bytes, Top
<1>5. EndsAt(e)'
  BY <1>1, <1>2, <1>3, <1>4 DEF EndsAt
<1>6. Nested'
  BY <1>2, <1>3 DEF Nested
<1> HIDE DEF e
<1>7. readers' # <<>>
  BY <1>3
<1> QED  BY <1>1, <1>3, <1>5, <1>6, <1>7 DEF ReaderInv

(* A stack whose top is replaced, and one with a call more.                *)
LEMMA ReplacedTop ==
  ASSUME NEW S, NEW s \in Seq(S), s # <<>>, NEW record \in S
  PROVE  /\ Replaced(s, record) \in Seq(S)
         /\ Len(Replaced(s, record)) = Len(s)
         /\ Replaced(s, record)[Len(s)] = record
         /\ \A i \in 1 .. Len(s) : i # Len(s) => Replaced(s, record)[i] = s[i]
<1>1. Len(s) \in 1 .. Len(s)
  OBVIOUS
<1> QED  BY <1>1, ExceptSeq DEF Replaced

LEMMA AppendTop ==
  ASSUME NEW S, NEW s \in Seq(S), NEW record \in S
  PROVE  /\ Append(s, record) \in Seq(S)
         /\ Len(Append(s, record)) = Len(s) + 1
         /\ Append(s, record)[Len(s) + 1] = record
         /\ \A i \in 1 .. Len(s) : Append(s, record)[i] = s[i]
  OBVIOUS

LEMMA RemovedTop ==
  ASSUME NEW S, NEW s \in Seq(S), s # <<>>
  PROVE  /\ SubSeq(s, 1, Len(s) - 1) \in Seq(S)
         /\ Len(SubSeq(s, 1, Len(s) - 1)) = Len(s) - 1
         /\ \A i \in 1 .. Len(s) - 1 : SubSeq(s, 1, Len(s) - 1)[i] = s[i]
<1>1. Len(s) \in Nat \ {0}
  OBVIOUS
<1> DEFINE m == Len(s) - 1
<1>2. m \in Nat /\ m <= Len(s) /\ m - 1 + 1 = m
  BY <1>1
<1>3. \A i \in 1 .. m : s[i] \in S
  BY <1>1, ElementOfSeq
<1> HIDE DEF m
<1>4. /\ SubSeq(s, 1, m) \in Seq(S) /\ Len(SubSeq(s, 1, m)) = m
      /\ \A i \in 1 .. m : SubSeq(s, 1, m)[i] = s[i]
  BY <1>1, <1>2, <1>3, SubSeqProperties
<1> QED  BY <1>4 DEF m

(* A box is skipped: the call has read it, and the file position is behind *)
(* it.                                                                     *)
LEMMA SkipReader ==
  ASSUME ReaderInv, FileInv, FileInv', Whole, NEW words, Skip(words)
  PROVE  ReaderInv'
<1> DEFINE n   == Len(readers)
           top == readers[n]
           new == [top EXCEPT !.read = top.read + RealSize, !.last = Word(pos) = 0]
<1>1. /\ phase = "reading" /\ More /\ (IsLarge => LargeFits) /\ ~Truncated
      /\ pos \in Nat /\ readers \in Seq(Calls) /\ readers # <<>> /\ Nested
  BY DEF Whole, Complete, More, ReaderInv
<1>2. /\ n \in Nat \ {0} /\ Size \in Nat /\ top \in Calls /\ Top = top
      /\ top.max \in Nat /\ top.read \in Nat
  BY <1>1, TopType DEF Top
<1>3. RealSize \in Nat
  BY <1>1, HeaderInFile
<1>4. top.read + RealSize <= top.max
  BY <1>1, <1>2, <1>3 DEF Truncated
<1>5. /\ new \in Calls /\ new.max = top.max /\ new.read = top.read + RealSize
      /\ new.size = top.size /\ new.boxRead = top.boxRead
  <2> DEFINE read == top.read + RealSize
             word == Word(pos)
  <2>1. read \in Nat
    BY <1>2, <1>3
  <2>2. new = [top EXCEPT !.read = read, !.last = word = 0]
    OBVIOUS
  <2> HIDE DEF top, new, word, read
  <2>3. /\ new \in Calls /\ new.max = top.max /\ new.read = read
        /\ new.size = top.size /\ new.boxRead = top.boxRead
    <3>1. /\ top \in [type : {"root"} \cup Nat, max : Nat, read : Nat, size : Nat,
                      boxRead : Nat, last : BOOLEAN]
          /\ (word = 0) \in BOOLEAN
      BY <1>2 DEF Calls
    <3> QED  BY <2>1, <2>2, <3>1 DEF Calls
  <2> QED  BY <2>3 DEF read
<1>6. readers' = Replaced(readers, new) /\ pos' = pos + RealSize
  BY DEF Skip, Top
<1>7. phase' = phase /\ Size' = Size
  BY DEF Skip, fileVars, Size, Bytes
<1> HIDE DEF new
<1>8. /\ readers' \in Seq(Calls) /\ Len(readers') = n /\ readers'[n] = new
      /\ \A i \in 1 .. n : i # n => readers'[i] = readers[i]
  BY ZenonT(40), <1>1, <1>5, <1>6, ReplacedTop
<1>9. Top' = new
  BY <1>8 DEF Top
<1> HIDE DEF top, n
<1>10. Nested'
  <2> SUFFICES ASSUME NEW i \in 1 .. n
               PROVE  /\ readers'[i].read <= readers'[i].max
                      /\ i > 1 =>
                           /\ readers'[i].max
                                = readers'[i - 1].size - readers'[i - 1].boxRead
                           /\ readers'[i - 1].read + readers'[i - 1].size
                                <= readers'[i - 1].max
    BY <1>8 DEF Nested
  <2>1. /\ readers[i].read <= readers[i].max
        /\ i > 1 => /\ readers[i].max = readers[i - 1].size - readers[i - 1].boxRead
                    /\ readers[i - 1].read + readers[i - 1].size <= readers[i - 1].max
    BY <1>1 DEF Nested, n
  <2>2. i > 1 => i - 1 \in 1 .. n /\ i - 1 # n
    BY <1>2
  <2>3. i > 1 => readers'[i - 1] = readers[i - 1]
    BY <1>8, <2>2
  <2>4. CASE i = n
    BY <1>4, <1>5, <1>8, <2>1, <2>3, <2>4 DEF top
  <2>5. CASE i # n
    BY <1>8, <2>1, <2>3, <2>5
  <2> QED  BY <2>4, <2>5
<1>11. PICK e : EndsAt(e)
  BY <1>1 DEF ReaderInv
<1>12. EndsAt(e)'
  <2>1. /\ e \in [1 .. n -> Nat] /\ \A i \in 1 .. n : e[i] <= Size
        /\ pos + (top.max - top.read) <= e[n]
        /\ \A i \in 1 .. n : i > 1 =>
             e[i] + (readers[i - 1].max - (readers[i - 1].read + readers[i - 1].size))
               <= e[i - 1]
    BY <1>2, <1>11 DEF EndsAt, n
  <2>2. pos' + (new.max - new.read) <= e[n]
    <3>1. e[n] \in Nat
      BY <1>2, <2>1
    <3> DEFINE en == e[n]
               a  == top.max
               b  == top.read
    <3>2. a \in Nat /\ b \in Nat /\ en \in Nat /\ pos + (a - b) <= en
      BY <1>2, <2>1, <3>1
    <3> HIDE DEF en, a, b
    <3>3. (pos + RealSize) + (a - (b + RealSize)) <= en
      BY <1>1, <1>3, <3>2
    <3> QED  BY <1>5, <1>6, <3>3 DEF en, a, b
  <2>3. \A i \in 1 .. n : i > 1 => i - 1 \in 1 .. n /\ i - 1 # n
    BY <1>2
  <2>4. \A i \in 1 .. n : i > 1 => readers'[i - 1] = readers[i - 1]
    BY <1>8, <2>3
  <2> QED  BY <1>7, <1>8, <1>9, <2>1, <2>2, <2>4 DEF EndsAt
<1>13. readers' # <<>>
  BY <1>2, <1>8
<1>14. pos' \in Nat
  BY <1>1, <1>3, <1>6
<1> QED  BY <1>1, <1>7, <1>8, <1>10, <1>12, <1>13, <1>14 DEF ReaderInv

(* A box that is entered: the new call may read what is in the box behind  *)
(* its header, and the box is inside what the call around it may read.     *)
LEMMA EnterReader ==
  ASSUME ReaderInv, FileInv, FileInv', Enter
  PROVE  ReaderInv'
<1> DEFINE n     == Len(readers)
           top   == readers[n]
           outer == [top EXCEPT !.size = RealSize, !.boxRead = HeaderSize]
           inner == Reader(Type, Inner)
<1>1. /\ phase = "reading" /\ More /\ (IsLarge => LargeFits) /\ ~Truncated /\ ~Bad
      /\ pos \in Nat /\ readers \in Seq(Calls) /\ readers # <<>> /\ Nested
  BY DEF Enter, Whole, Complete, More, ReaderInv
<1>2. /\ n \in Nat \ {0} /\ Size \in Nat /\ top \in Calls /\ Top = top
      /\ top.max \in Nat /\ top.read \in Nat
      /\ pos + (top.max - top.read) <= Size
  BY <1>1, TopType DEF Top
<1>3. /\ RealSize \in Nat /\ HeaderSize \in Nat /\ Type \in Nat
      /\ HeaderSize <= RealSize
  BY <1>1, HeaderInFile DEF Bad, Header
<1>4. top.read + RealSize <= top.max
  BY <1>1, <1>2, <1>3 DEF Truncated
<1>5. /\ outer \in Calls /\ outer.max = top.max /\ outer.read = top.read
      /\ outer.size = RealSize /\ outer.boxRead = HeaderSize
  <2> HIDE DEF top
  <2> QED  BY <1>2, <1>3 DEF Calls
<1>6. /\ inner \in Calls /\ inner.max = RealSize - HeaderSize /\ inner.read = 0
  BY <1>3 DEF Reader, Inner, Calls
<1>7. /\ readers' = Append(Replaced(readers, outer), inner)
      /\ pos' = pos + HeaderSize
  BY DEF Enter, Top
<1>8. phase' = phase /\ Size' = Size
  BY DEF Enter, fileVars, Size, Bytes
<1> HIDE DEF outer, inner, top
<1>9. /\ readers' \in Seq(Calls) /\ Len(readers') = n + 1
      /\ readers'[n + 1] = inner /\ readers'[n] = outer
      /\ \A i \in 1 .. n : i # n => readers'[i] = readers[i]
  <2> DEFINE s == Replaced(readers, outer)
  <2>1. /\ s \in Seq(Calls) /\ Len(s) = n /\ s[n] = outer
        /\ \A i \in 1 .. n : i # n => s[i] = readers[i]
    BY <1>1, <1>5, ReplacedTop
  <2>2. readers' = Append(s, inner)
    BY <1>7
  <2> HIDE DEF s, n
  <2>3. /\ readers' \in Seq(Calls) /\ Len(readers') = Len(s) + 1
        /\ readers'[Len(s) + 1] = inner /\ \A i \in 1 .. Len(s) : readers'[i] = s[i]
    BY <1>6, <2>1, <2>2, AppendTop
  <2>4. n \in 1 .. n
    BY <1>2
  <2> QED  BY <2>1, <2>3, <2>4
<1>10. Top' = inner
  BY <1>9 DEF Top
<1>11. \A i \in 1 .. n + 1 : \/ i = n + 1
                             \/ i \in 1 .. n /\ i = n
                             \/ i \in 1 .. n /\ i # n
  BY <1>2
<1>12. \A i \in 1 .. n : i > 1 => i - 1 \in 1 .. n /\ i - 1 # n
  BY <1>2
<1>13. n + 1 - 1 = n
  BY <1>2
<1>14. \A i \in 1 .. n :
         /\ readers[i].read <= readers[i].max
         /\ i > 1 => /\ readers[i].max = readers[i - 1].size - readers[i - 1].boxRead
                     /\ readers[i - 1].read + readers[i - 1].size <= readers[i - 1].max
  BY <1>1 DEF Nested
<1>15. PICK e : EndsAt(e)
  BY <1>1 DEF ReaderInv
<1>16. /\ e \in [1 .. n -> Nat] /\ \A i \in 1 .. n : e[i] <= Size
       /\ pos + (top.max - top.read) <= e[n]
       /\ \A i \in 1 .. n : i > 1 =>
            e[i] + (readers[i - 1].max - (readers[i - 1].read + readers[i - 1].size))
              <= e[i - 1]
  BY <1>2, <1>15 DEF EndsAt
<1> HIDE DEF n
<1>17. Nested'
  <2> SUFFICES ASSUME NEW i \in 1 .. n + 1
               PROVE  /\ readers'[i].read <= readers'[i].max
                      /\ i > 1 =>
                           /\ readers'[i].max
                                = readers'[i - 1].size - readers'[i - 1].boxRead
                           /\ readers'[i - 1].read + readers'[i - 1].size
                                <= readers'[i - 1].max
    BY <1>9 DEF Nested
  <2>1. CASE i = n + 1
    BY <1>2, <1>3, <1>4, <1>5, <1>6, <1>9, <1>13, <2>1
  <2>2. CASE i \in 1 .. n /\ i = n
    <3>1. i > 1 => readers'[i - 1] = readers[i - 1]
      BY <1>9, <1>12, <2>2
    <3>2. readers'[i] = outer /\ outer.max = readers[i].max /\ outer.read = readers[i].read
      BY <1>5, <1>9, <2>2 DEF top
    <3> QED  BY <1>14, <2>2, <3>1, <3>2
  <2>3. CASE i \in 1 .. n /\ i # n
    <3>1. i > 1 => readers'[i - 1] = readers[i - 1]
      BY <1>9, <1>12, <2>3
    <3>2. readers'[i] = readers[i]
      BY <1>9, <2>3
    <3> QED  BY <1>14, <2>3, <3>1, <3>2
  <2> QED  BY <1>11, <2>1, <2>2, <2>3
<1>18. PICK f : f = [i \in 1 .. n + 1 |-> IF i <= n THEN e[i] ELSE pos + RealSize]
  OBVIOUS
<1>19. EndsAt(f)'
  <2> DEFINE end == pos + RealSize
  <2>1. end \in Nat /\ end <= Size
    BY <1>1, <1>2, <1>3, <1>4
  <2>2. /\ end = (pos + HeaderSize) + ((RealSize - HeaderSize) - 0)
        /\ end + (top.max - (top.read + RealSize)) = pos + (top.max - top.read)
    BY <1>1, <1>2, <1>3
  <2>3. \A i \in 1 .. n : i \in Nat /\ i <= n /\ i \in 1 .. n + 1
    BY <1>2
  <2>4. n + 1 \in 1 .. n + 1 /\ ~(n + 1 <= n)
    BY <1>2
  <2>5. f = [i \in 1 .. n + 1 |-> IF i <= n THEN e[i] ELSE end]
    BY <1>18
  <2> HIDE DEF end
  <2>6. f[n + 1] = end /\ \A i \in 1 .. n : f[i] = e[i]
    BY <2>3, <2>4, <2>5
  <2>7. f \in [1 .. n + 1 -> Nat]
    <3>1. \A i \in 1 .. n + 1 : i <= n => i \in 1 .. n
      BY <1>2
    <3> QED  BY <1>16, <2>1, <2>5, <3>1
  <2>8. ASSUME NEW i \in 1 .. n + 1 PROVE f[i] <= Size
    BY <1>11, <1>16, <2>1, <2>6
  <2>9. pos' + (inner.max - inner.read) <= f[n + 1]
    BY <1>6, <1>7, <2>1, <2>2, <2>6
  <2>10. ASSUME NEW i \in 1 .. n + 1, i > 1
         PROVE  f[i] + (readers'[i - 1].max
                          - (readers'[i - 1].read + readers'[i - 1].size))
                  <= f[i - 1]
    <3>1. CASE i = n + 1
      <4>1. f[i] = end /\ readers'[i - 1] = outer /\ f[i - 1] = e[n]
        <5>1. n \in 1 .. n
          BY <1>2
        <5> QED  BY <1>9, <1>13, <2>6, <3>1, <5>1
      <4> QED  BY <1>5, <1>16, <2>2, <4>1
    <3>2. CASE i \in 1 .. n
      <4>1. f[i] = e[i] /\ i - 1 \in 1 .. n /\ f[i - 1] = e[i - 1]
        BY <1>12, <2>6, <2>10, <3>2
      <4>2. readers'[i - 1] = readers[i - 1]
        BY <1>9, <1>12, <2>10, <3>2
      <4> QED  BY <1>16, <2>10, <3>2, <4>1, <4>2
    <3> QED  BY <1>11, <3>1, <3>2
  <2> QED  BY <1>8, <1>9, <1>10, <2>7, <2>8, <2>9, <2>10 DEF EndsAt
<1>20. readers' # <<>> /\ pos' \in Nat
  BY <1>1, <1>2, <1>3, <1>7, <1>9
<1> QED  BY <1>1, <1>8, <1>9, <1>17, <1>19, <1>20 DEF ReaderInv

(* A call returns: the call around it skips what is left of its box, which *)
(* ends no later than what it may read.                                    *)
LEMMA ReturnReader ==
  ASSUME ReaderInv, FileInv, FileInv', phase = "reading",
         NEW bytes \in Nat, NEW from \in Nat, Return(bytes, from),
         bytes <= Top.max,
         from + (Top.max - bytes) <= pos + (Top.max - Top.read)
  PROVE  ReaderInv'
<1> DEFINE n      == Len(readers)
           top    == readers[n]
           parent == readers[n - 1]
           new    == [parent EXCEPT !.read = parent.read + parent.size]
<1>1. pos \in Nat /\ readers \in Seq(Calls) /\ readers # <<>> /\ Nested
  BY DEF ReaderInv
<1>2. /\ n \in Nat \ {0} /\ Size \in Nat /\ top \in Calls /\ Top = top
      /\ top.max \in Nat /\ top.read \in Nat
  BY <1>1, TopType DEF Top
<1>3. CASE n = 1
  <2>1. phase' = "opened" /\ UNCHANGED <<pos, readers>>
    BY <1>3 DEF Return, readVars
  <2> QED  BY <1>1, <2>1 DEF ReaderInv, Nested
<1>4. CASE n # 1
  <2>1. /\ pos' = from + parent.size - (parent.boxRead + bytes)
        /\ readers' = Replaced(SubSeq(readers, 1, n - 1), new)
        /\ phase' = phase /\ UNCHANGED file
    BY <1>4 DEF Return, fileVars
  <2>2. n - 1 \in Nat \ {0} /\ n - 1 \in 1 .. n /\ n \in 1 .. n /\ n > 1
    <3> HIDE DEF n, top
    <3> QED  BY <1>2, <1>4
  <2>3. parent \in Calls
    BY <1>1, <2>2, ElementOfSeq
  <2>4. /\ parent.max \in Nat /\ parent.read \in Nat /\ parent.size \in Nat
        /\ parent.boxRead \in Nat
    BY <2>3 DEF Calls
  <2>5. /\ top.max = parent.size - parent.boxRead
        /\ parent.read + parent.size <= parent.max
    BY <1>1, <2>2 DEF Nested
  <2>6. /\ new \in Calls /\ new.max = parent.max /\ new.boxRead = parent.boxRead
        /\ new.size = parent.size /\ new.read = parent.read + parent.size
    <3> HIDE DEF parent
    <3> QED  BY <2>3, <2>4 DEF Calls
  <2> HIDE DEF parent, new, top, n
  <2>7. pos' = from + (top.max - bytes) /\ pos' \in Nat
    BY <1>2, <2>1, <2>4, <2>5
  <2>8. /\ readers' \in Seq(Calls) /\ Len(readers') = n - 1 /\ readers'[n - 1] = new
        /\ \A i \in 1 .. n - 1 : i # n - 1 => readers'[i] = readers[i]
    <3> DEFINE s == SubSeq(readers, 1, n - 1)
    <3>1. /\ s \in Seq(Calls) /\ Len(s) = n - 1
          /\ \A i \in 1 .. n - 1 : s[i] = readers[i]
      BY <1>1, RemovedTop DEF n
    <3>2. readers' = Replaced(s, new)
      BY <2>1
    <3> HIDE DEF s
    <3>3. s # <<>>
      BY <2>2, <3>1
    <3>4. /\ readers' \in Seq(Calls) /\ Len(readers') = Len(s)
          /\ readers'[Len(s)] = new
          /\ \A i \in 1 .. Len(s) : i # Len(s) => readers'[i] = s[i]
      BY ZenonT(40), <2>6, <3>1, <3>2, <3>3, ReplacedTop
    <3> QED  BY <3>1, <3>4
  <2>9. Top' = new
    BY <2>8 DEF Top
  <2>10. \A i \in 1 .. n - 1 : /\ i \in 1 .. n
                               /\ i > 1 => i - 1 \in 1 .. n - 1 /\ i - 1 # n - 1
    BY <2>2
  <2>11. \A i \in 1 .. n :
           /\ readers[i].read <= readers[i].max
           /\ i > 1 => /\ readers[i].max = readers[i - 1].size - readers[i - 1].boxRead
                       /\ readers[i - 1].read + readers[i - 1].size
                            <= readers[i - 1].max
    BY <1>1 DEF Nested, n
  <2>12. Nested'
    <3> SUFFICES ASSUME NEW i \in 1 .. n - 1
                 PROVE  /\ readers'[i].read <= readers'[i].max
                        /\ i > 1 =>
                             /\ readers'[i].max
                                  = readers'[i - 1].size - readers'[i - 1].boxRead
                             /\ readers'[i - 1].read + readers'[i - 1].size
                                  <= readers'[i - 1].max
      BY <2>8 DEF Nested
    <3>1. i > 1 => readers'[i - 1] = readers[i - 1]
      BY <2>8, <2>10
    <3>2. CASE i = n - 1
      BY <2>5, <2>6, <2>8, <2>10, <2>11, <3>1, <3>2 DEF parent
    <3>3. CASE i # n - 1
      BY <2>8, <2>10, <2>11, <3>1, <3>3
    <3> QED  BY <3>2, <3>3
  <2>13. PICK e : EndsAt(e)
    BY DEF ReaderInv
  <2>14. /\ e \in [1 .. n -> Nat] /\ \A i \in 1 .. n : e[i] <= Size
         /\ pos + (top.max - top.read) <= e[n]
         /\ \A i \in 1 .. n : i > 1 =>
              e[i] + (readers[i - 1].max - (readers[i - 1].read + readers[i - 1].size))
                <= e[i - 1]
    BY <1>2, <2>13 DEF EndsAt, n
  <2>15. PICK f : f = [i \in 1 .. n - 1 |-> e[i]]
    OBVIOUS
  <2>16. f \in [1 .. n - 1 -> Nat] /\ \A i \in 1 .. n - 1 : f[i] = e[i]
    BY <2>10, <2>14, <2>15
  <2>17. pos' + (new.max - new.read) <= f[n - 1]
    <3>1. n - 1 \in 1 .. n - 1
      BY <2>2
    <3>2. f[n - 1] = e[n - 1] /\ e[n - 1] \in Nat /\ e[n] \in Nat
      BY <2>2, <2>14, <2>16, <3>1
    <3>3. e[n] + (parent.max - (parent.read + parent.size)) <= e[n - 1]
      BY <2>2, <2>14 DEF parent
    <3>4. pos' <= e[n]
      <4> DEFINE x == from + (top.max - bytes)
                 y == pos + (top.max - top.read)
                 z == e[n]
      <4>1. x \in Int /\ y \in Int /\ z \in Int
        <5>1. top.max \in Nat /\ top.read \in Nat
          BY <1>2
        <5>2. x \in Int
          BY <5>1
        <5>3. y \in Int
          BY <1>1, <5>1
        <5> QED  BY <3>2, <5>2, <5>3
      <4>2. x <= y /\ y <= z /\ pos' = x
        BY <1>2, <2>7, <2>14
      <4> HIDE DEF x, y, z
      <4>3. pos' <= z
        BY <4>1, <4>2
      <4> QED  BY <4>3 DEF z
    <3> DEFINE p == pos'
               a == e[n]
               b == e[n - 1]
               r == parent.max - (parent.read + parent.size)
    <3>5. p <= a /\ a + r <= b /\ p \in Int /\ a \in Int /\ b \in Int /\ r \in Int
      BY <2>4, <2>7, <3>2, <3>3, <3>4
    <3> HIDE DEF p, a, b, r
    <3>6. p + r <= b
      BY <3>5
    <3> QED  BY <2>6, <3>2, <3>6 DEF p, b, r
  <2>18. ASSUME NEW i \in 1 .. n - 1, i > 1
         PROVE  f[i] + (readers'[i - 1].max
                          - (readers'[i - 1].read + readers'[i - 1].size))
                  <= f[i - 1]
    <3>1. readers'[i - 1] = readers[i - 1] /\ f[i] = e[i] /\ f[i - 1] = e[i - 1]
      BY <2>8, <2>10, <2>16, <2>18
    <3> QED  BY <2>10, <2>14, <2>18, <3>1
  <2>19. Size' = Size
    BY <2>1 DEF Size, Bytes
  <2>20. EndsAt(f)'
    BY <2>8, <2>9, <2>10, <2>14, <2>16, <2>17, <2>18, <2>19 DEF EndsAt
  <2>21. readers' # <<>>
    BY <2>2, <2>8
  <2> QED  BY <2>1, <2>7, <2>8, <2>12, <2>20, <2>21 DEF ReaderInv
<1> QED  BY <1>3, <1>4

(* Every step of the reader keeps its calls nested.                        *)
LEMMA ReaderStep ==
  ASSUME ReaderInv, FileInv, FileInv', Read
  PROVE  ReaderInv'
<1>1. ASSUME Refuse PROVE ReaderInv'
  BY <1>1 DEF Refuse, readVars, ReaderInv, Nested
<1>2. CASE ReadBad
  BY <1>1, <1>2 DEF ReadBad
<1>3. CASE ReadTruncated
  <2>1. /\ phase = "reading" /\ More /\ (IsLarge => LargeFits) /\ pos \in Nat
        /\ Return(Top.max, pos + HeaderSize)
    BY <1>3 DEF ReadTruncated, More, ReaderInv
  <2>2. Top.max \in Nat /\ Top.read \in Nat
    BY <2>1, TopType
  <2>3. HeaderSize \in Nat /\ HeaderSize <= Top.max - Top.read
    BY <2>1, HeaderInFile DEF Header
  <2>4. /\ pos + HeaderSize \in Nat
        /\ (pos + HeaderSize) + (Top.max - Top.max) <= pos + (Top.max - Top.read)
    BY <2>1, <2>2, <2>3
  <2> QED  BY <2>1, <2>2, <2>4, ReturnReader
<1>4. CASE Enter
  BY <1>4, EnterReader
<1>5. CASE ReadLeaf
  <2>1. Whole /\ Skip(Inner \div 4)
    BY <1>5 DEF ReadLeaf
  <2> QED  BY <2>1, SkipReader
<1>6. CASE ReadTable
  <2>1. Whole /\ (Skip(Word(pos + HeaderSize + 4)) \/ Refuse)
    BY <1>6 DEF ReadTable
  <2> QED  BY <1>1, <2>1, SkipReader
<1>7. CASE ReadAll
  <2>1. phase = "reading" /\ pos \in Nat /\ Return(Top.read, pos)
    BY <1>7 DEF ReadAll, ReaderInv
  <2>2. Top.max \in Nat /\ Top.read \in Nat /\ Top.read <= Top.max
    BY <2>1, TopType
  <2>3. pos + (Top.max - Top.read) <= pos + (Top.max - Top.read)
    BY <2>1, <2>2
  <2> QED  BY <2>1, <2>2, <2>3, ReturnReader
<1> QED  BY <1>2, <1>3, <1>4, <1>5, <1>6, <1>7 DEF Read

LEMMA TreeStep == TreeInv /\ [Next]_vars => TreeInv'
<1> SUFFICES ASSUME RoomInv, FileInv, ReaderInv, [Next]_vars PROVE TreeInv'
  BY DEF TreeInv
<1>1. RoomInv' /\ FileInv'
  BY RoomStep, FileStep
<1>2. CASE Write
  <2>1. UNCHANGED readVars /\ phase \in {"writing"} /\ phase' \in {"writing", "written"}
    BY <1>2 DEF Write, WriteBox, CloseBox, Grow, Flush, GiveUp, NoSpace, Ready
  <2> QED  BY <1>1, <2>1 DEF TreeInv, ReaderInv, readVars, Nested
<1>3. CASE OpenEmpty
  BY <1>1, <1>3 DEF OpenEmpty, TreeInv, ReaderInv, readVars, Nested
<1>4. ASSUME NEW words \in 1 .. Len(file), Open(words) PROVE TreeInv'
  <2>1. Start(words) /\ words \in Nat
    BY <1>4 DEF Open, FileInv
  <2>2. Len(file') = words
    <3>1. file \in Seq(Nat) /\ file' = SubSeq(file, 1, words)
      BY <1>4 DEF Open, FileInv
    <3> QED  BY <2>1, <3>1, SubSeqProperties
  <2> QED  BY <1>1, <2>1, <2>2, StartReader DEF TreeInv
<1>5. ASSUME NEW at \in 1 .. Len(file), NEW word \in Lost, OpenDamaged(at, word)
      PROVE  TreeInv'
  <2>1. Start(Len(file)) /\ Len(file) \in Nat /\ Len(file') = Len(file)
    BY <1>5, ReplacedWord, WordAssumption DEF OpenDamaged, FileInv
  <2> QED  BY <1>1, <2>1, StartReader DEF TreeInv
<1>6. CASE Read
  BY <1>1, <1>6, ReaderStep DEF TreeInv
<1>7. CASE UNCHANGED vars
  <2>1. UNCHANGED <<phase, readVars, file>>
    BY <1>7 DEF vars, fileVars
  <2> QED  BY <1>1, <2>1
             DEF TreeInv, ReaderInv, readVars, Nested, EndsAt, Size, Bytes, Top
<1> QED  BY <1>2, <1>3, <1>4, <1>5, <1>6, <1>7 DEF Next

LEMMA TreeInit == Init => TreeInv
<1> SUFFICES ASSUME Init PROVE TreeInv
  OBVIOUS
<1>1. RoomInv
  BY RoomInit
<1>2. Len(tree) \in Nat /\ tree \in Trees
  BY TreeAssumption, LenProperties DEF Init
<1>3. FileInv
  <2>1. 1 \in 1 .. Len(tree) + 1 /\ <<>> \in Seq(Nat)
    BY <1>2
  <2> QED  BY <2>1 DEF Init, FileInv
<1>4. ReaderInv
  BY DEF Init, ReaderInv, Nested
<1> QED  BY <1>1, <1>3, <1>4 DEF TreeInv

LEMMA TreeTypes == TreeInv => TypeOK
<1> SUFFICES ASSUME RoomInv, FileInv, ReaderInv PROVE TypeOK
  BY DEF TreeInv
<1>1. \A i \in 1 .. Len(buf) : buf[i] \in Nat
  BY ElementOfSeq DEF RoomInv
<1>2. \A i \in 1 .. Len(file) : file[i] \in Nat
  BY ElementOfSeq DEF FileInv
<1>3. ASSUME NEW i \in 1 .. Len(writers)
      PROVE  writers[i].start \in 0 .. Bytes(buf) - Header
  <2>1. writers[i] \in [start : Nat, max : Int]
    BY ElementOfSeq DEF RoomInv
  <2>2. i \in DOMAIN writers
    BY DEF RoomInv
  <2>3. writers[i].start + Header <= Bytes(buf) /\ Bytes(buf) \in Nat
    BY <2>2 DEF RoomInv, Bytes
  <2>4. writers[i].start \in Nat
    BY <2>1
  <2> QED  BY <2>3, <2>4 DEF Header
<1>4. \A i \in 1 .. Len(readers) :
        /\ readers[i].read <= readers[i].max
        /\ i > 1 => readers[i].max = readers[i - 1].size - readers[i - 1].boxRead
  BY DEF ReaderInv, Nested
<1> QED  BY <1>1, <1>2, <1>3, <1>4 DEF TypeOK, RoomInv, FileInv, ReaderInv

(* The reader works on words of the file only, in a file that is cut or    *)
(* has a damaged word too, and each of its nested calls on a part of what  *)
(* the call around it may read: what mp4_box_children_read makes sure of   *)
(* with maxBytes.                                                          *)
THEOREM TypeCorrect == Spec => []TypeOK
<1>1. Init => TreeInv
  BY TreeInit
<1>2. TreeInv /\ [Next]_vars => TreeInv'
  BY TreeStep
<1>3. TreeInv => TypeOK
  BY TreeTypes
<1> QED  BY <1>1, <1>2, <1>3, PTL DEF Spec

(* The boxes of a tree.                                                    *)
LEMMA TreeBoxes ==
  ASSUME NEW t \in Trees
  PROVE  /\ t \in Seq([kind : Kinds, level : Nat \ {0}, words : Nat])
         /\ Len(t) \in Nat \ {0} /\ t[1].kind = Moov /\ t[1].level = 1
         /\ \A i \in 1 .. Len(t) :
              /\ t[i].kind \in Kinds /\ t[i].level \in Nat \ {0} /\ t[i].words \in Nat
              /\ t[i] \in [kind : Kinds, level : Nat \ {0}, words : Nat]
              /\ t[i].kind \in {Moov, Container} => t[i].words = 0
         /\ \A i \in 2 .. Len(t) :
              /\ t[i].kind # Moov /\ t[i].level >= 2
              /\ t[i].level <= t[i - 1].level + 1
              /\ t[i - 1].kind \notin {Moov, Container} => t[i].level <= t[i - 1].level
<1> DEFINE B == [kind : Kinds, level : Nat \ {0}, words : Nat]
<1>1. t \in Seq(B) /\ t # <<>> /\ t[1].kind = Moov /\ t[1].level = 1
  BY TreeAssumption
<1>2. Len(t) \in Nat \ {0}
  <2> HIDE DEF B
  <2> QED  BY <1>1
<1>3. \A i \in 1 .. Len(t) : t[i] \in B
  <2> HIDE DEF B
  <2> QED  BY <1>1, ElementOfSeq
<1>4. \A i \in 1 .. Len(t) :
        /\ t[i].kind \in Kinds /\ t[i].level \in Nat \ {0} /\ t[i].words \in Nat
        /\ t[i].kind \in {Moov, Container} => t[i].words = 0
  BY <1>3, TreeAssumption
<1>5. ASSUME NEW i \in 2 .. Len(t)
      PROVE  /\ t[i].kind # Moov /\ t[i].level >= 2
             /\ t[i].level <= t[i - 1].level + 1
             /\ t[i - 1].kind \notin {Moov, Container} => t[i].level <= t[i - 1].level
  <2>1. i - 1 \in 1 .. Len(t) /\ i \in 1 .. Len(t)
    BY <1>2
  <2> DEFINE a == t[i - 1].level
             b == t[i].level
             c == t[i - 1].kind \in {Moov, Container}
  <2>2. a \in Nat /\ b \in Nat
    BY <1>4, <2>1
  <2>3. t[i].kind # Moov /\ b \in 2 .. a + (IF c THEN 1 ELSE 0)
    BY TreeAssumption
  <2> HIDE DEF a, b, c
  <2>4. b >= 2 /\ b <= a + 1 /\ (~c => b <= a)
    BY <2>2, <2>3
  <2> QED  BY <2>3, <2>4 DEF a, b, c
<1> QED  BY <1>1, <1>2, <1>3, <1>4, <1>5

(* What a box writes itself.                                               *)
LEMMA OwnLengths ==
  ASSUME NEW box \in [kind : Kinds, level : Nat \ {0}, words : Nat]
  PROVE  /\ OwnWords(box) \in Seq(Nat) /\ Len(OwnWords(box)) \in Nat
         /\ box.kind \in {Moov, Container} =>
              Len(OwnWords(box)) = 2 /\ OwnWords(box)[2] = box.kind
         /\ box.kind = Leaf =>
              /\ Len(OwnWords(box)) = 2 + box.words
              /\ OwnWords(box)[1] = 8 + 4 * box.words /\ OwnWords(box)[2] = box.kind
         /\ box.kind = Table /\ box.words = 0 => Len(OwnWords(box)) = 0
         /\ box.kind = Table /\ box.words # 0 =>
              /\ Len(OwnWords(box)) = 4 + box.words
              /\ OwnWords(box)[1] = 16 + 4 * box.words /\ OwnWords(box)[2] = box.kind
              /\ OwnWords(box)[4] = box.words
<1>1. OwnWords(box) \in Seq(Nat)
  BY OwnWordsType
<1>2. Leaf \notin {Moov, Container} /\ Table \notin {Moov, Container} /\ Leaf # Table
      /\ Leaf \in Nat /\ Table \in Nat /\ Body \in Nat
  BY WordAssumption
<1>3. box.kind \in Kinds /\ box.words \in Nat
  OBVIOUS
<1>4. CASE box.kind \in {Moov, Container}
  <2>1. OwnWords(box) = <<0, box.kind>>
    BY <1>4 DEF OwnWords
  <2> QED  BY <1>1, <1>2, <1>4, <2>1
<1>5. CASE box.kind = Leaf
  <2> DEFINE c == Copies(Body, box.words)
  <2>1. c \in Seq(Nat) /\ Len(c) = box.words
    BY <1>2, <1>3 DEF Copies
  <2>2. OwnWords(box) = Box(Leaf, c)
    BY <1>2, <1>5 DEF OwnWords
  <2> HIDE DEF c
  <2>3. Box(Leaf, c) = <<8 + 4 * box.words, Leaf>> \o c
    BY <2>1 DEF Box, Bytes, Header
  <2> QED  BY <1>1, <1>2, <1>3, <1>5, <2>1, <2>2, <2>3
<1>6. CASE box.kind = Table /\ box.words = 0
  <2>1. OwnWords(box) = <<>>
    BY <1>2, <1>6 DEF OwnWords
  <2> QED  BY <1>1, <1>2, <1>6, <2>1
<1>7. CASE box.kind = Table /\ box.words # 0
  <2> DEFINE c == Copies(Body, box.words)
             d == <<0, box.words>> \o c
  <2>1. c \in Seq(Nat) /\ Len(c) = box.words
    BY <1>2, <1>3 DEF Copies
  <2>2. OwnWords(box) = Box(Table, d)
    BY <1>2, <1>7 DEF OwnWords
  <2>3. d \in Seq(Nat) /\ Len(d) = 2 + box.words /\ d[2] = box.words
    <3> HIDE DEF c
    <3> QED  BY <1>3, <2>1
  <2> HIDE DEF d
  <2>4. Box(Table, d) = <<16 + 4 * box.words, Table>> \o d
    <3> DEFINE w == box.words
    <3>1. w \in Nat /\ Len(d) = 2 + w
      BY <1>3, <2>3
    <3> HIDE DEF w
    <3>2. 8 + 4 * Len(d) = 16 + 4 * w
      BY <3>1
    <3> QED  BY <3>2 DEF Box, Bytes, Header, w
  <2> QED  BY SMTT(30), <1>1, <1>2, <1>3, <1>7, <2>2, <2>3, <2>4
<1> QED  BY <1>1, <1>3, <1>4, <1>5, <1>6, <1>7 DEF Kinds

-----------------------------------------------------------------------------
(* How many words the first boxes write.                                   *)
LEMMA WordsToIs ==
  ASSUME NEW t \in Trees
  PROVE  /\ WordsTo(t) \in [0 .. Len(t) -> Nat] /\ WordsTo(t)[0] = 0
         /\ \A n \in 1 .. Len(t) :
              /\ n - 1 \in 0 .. Len(t)
              /\ Len(OwnWords(t[n])) \in Nat
              /\ WordsTo(t)[n] = WordsTo(t)[n - 1] + Len(OwnWords(t[n]))
<1> DEFINE m    == Len(t)
           own  == [n \in 1 .. m |-> Len(OwnWords(t[n]))]
           step == [p \in Nat \X (1 .. m) |-> p[1] + own[p[2]]]
           W(g) == [n \in 0 .. m |-> IF n = 0 THEN 0 ELSE g[n - 1] + Len(OwnWords(t[n]))]
           R    == CHOOSE g : g = W(g)
<1>1. m \in Nat \ {0}
  BY TreeBoxes
<1>2. \A n \in 1 .. m : Len(OwnWords(t[n])) \in Nat
  BY TreeBoxes, OwnLengths
<1>3. own \in [1 .. m -> Nat]
  BY <1>2
<1>4. step \in [Nat \X (1 .. m) -> Nat]
  <2> HIDE DEF own
  <2> QED  BY <1>3
<1>5. \A a \in Nat : \A n \in 1 .. m : step[<<a, n>>] = a + Len(OwnWords(t[n]))
  OBVIOUS
<1> HIDE DEF step
<1>6. PICK f : Follows(f, Nat, m, 0, step)
  <2> HIDE DEF m
  <2> QED  BY <1>1, <1>4, Recursion
<1>7. f \in [0 .. m -> Nat] /\ f[0] = 0 /\ \A n \in 1 .. m : f[n] = step[<<f[n - 1], n>>]
  BY <1>6 DEF Follows
<1>8. f = W(f)
  <2>1. ASSUME NEW n \in 0 .. m
        PROVE  f[n] = IF n = 0 THEN 0 ELSE f[n - 1] + Len(OwnWords(t[n]))
    <3>1. CASE n = 0
      BY <1>7, <3>1
    <3>2. CASE n # 0
      <4>1. n \in 1 .. m /\ n - 1 \in 0 .. m
        BY <1>1, <3>2
      <4> QED  BY <1>5, <1>7, <3>2, <4>1
    <3> QED  BY <3>1, <3>2
  <2> QED  BY <1>7, <2>1
<1>9. R = W(R)
  <2> HIDE DEF W
  <2> QED  BY <1>8
<1>10. WordsTo(t) = R
  BY DEF WordsTo
<1> HIDE DEF R
<1>11. \A n \in 1 .. m : n - 1 \in 0 .. m /\ n \in 0 .. m /\ n # 0
  BY <1>1
<1>12. R[0] = 0 /\ \A n \in 1 .. m : R[n] = R[n - 1] + Len(OwnWords(t[n]))
  <2>1. 0 \in 0 .. m
    BY <1>1
  <2> QED  BY <1>9, <1>11, <2>1
<1> DEFINE P == {n \in 0 .. m : R[n] \in Nat}
<1>13. \A n \in 0 .. m : n \in P
  <2>1. 0 \in P
    BY <1>1, <1>12
  <2>2. \A n \in 1 .. m : n - 1 \in P => n \in P
    <3> SUFFICES ASSUME NEW n \in 1 .. m, R[n - 1] \in Nat PROVE R[n] \in Nat
      BY <1>11
    <3> QED  BY <1>2, <1>12
  <2> HIDE DEF P
  <2> QED  BY <1>1, <2>1, <2>2, Induction
<1>14. R \in [0 .. m -> Nat]
  <2>1. R = [n \in 0 .. m |-> R[n]]
    BY <1>9
  <2> QED  BY <1>13, <2>1
<1> QED  BY <1>2, <1>10, <1>11, <1>12, <1>14

LEMMA WordsToGrows ==
  ASSUME NEW t \in Trees, NEW a \in 0 .. Len(t), NEW b \in 0 .. Len(t), a <= b
  PROVE  /\ WordsTo(t)[a] \in Nat /\ WordsTo(t)[b] \in Nat
         /\ WordsTo(t)[a] <= WordsTo(t)[b]
<1> DEFINE W == WordsTo(t)
           m == Len(t)
           P == {n \in 0 .. m : a <= n => W[a] <= W[n]}
<1>1. /\ W \in [0 .. m -> Nat] /\ m \in Nat /\ a \in Nat
      /\ \A n \in 1 .. m : n - 1 \in 0 .. m /\ W[n] >= W[n - 1]
  <2>1. /\ W \in [0 .. m -> Nat] /\ m \in Nat
        /\ \A n \in 1 .. m : /\ n - 1 \in 0 .. m /\ Len(OwnWords(t[n])) \in Nat
                             /\ W[n] = W[n - 1] + Len(OwnWords(t[n]))
    BY WordsToIs, TreeBoxes
  <2>2. ASSUME NEW n \in 1 .. m PROVE W[n] >= W[n - 1]
    <3> DEFINE x == Len(OwnWords(t[n]))
    <3>1. x \in Nat /\ W[n - 1] \in Nat /\ W[n] = W[n - 1] + x
      BY <2>1
    <3> HIDE DEF x, W
    <3> QED  BY <3>1
  <2> QED  BY <2>1, <2>2
<1> HIDE DEF W
<1>2. 0 \in P
  BY <1>1
<1>3. ASSUME NEW n \in 1 .. m, n - 1 \in P PROVE n \in P
  <2> DEFINE o == n - 1
  <2>0. n \in 0 .. m /\ o \in 0 .. m /\ a \in 0 .. m
    BY <1>1
  <2>1. n \in 0 .. m /\ W[n] \in Nat /\ W[o] \in Nat /\ W[a] \in Nat
    <3> HIDE DEF o, m
    <3> QED  BY <1>1, <2>0
  <2>2. W[n] >= W[n - 1]
    BY <1>1
  <2>3. a <= n - 1 => W[a] <= W[n - 1]
    BY <1>3
  <2>4. a <= n => a = n \/ a <= n - 1
    BY <1>1
  <2>5. a <= n => W[a] <= W[n]
    BY <2>1, <2>2, <2>3, <2>4
  <2> QED  BY <2>1, <2>5
<1>4. b \in P
  <2> HIDE DEF P, m
  <2> QED  BY <1>1, <1>2, <1>3, Induction DEF m
<1> QED  BY <1>1, <1>4 DEF W

-----------------------------------------------------------------------------
(* The last box inside another.                                            *)
LEMMA LastInIs ==
  ASSUME NEW t \in Trees, NEW i \in 1 .. Len(t)
  PROVE  /\ LastIn(t, i) \in i .. Len(t) /\ LastIn(t, i) \in 0 .. Len(t)
         /\ \A k \in i + 1 .. LastIn(t, i) : t[k].level > t[i].level
         /\ LastIn(t, i) < Len(t) => t[LastIn(t, i) + 1].level <= t[i].level
<1> DEFINE m == Len(t)
<1>1. m \in Nat \ {0} /\ i \in Nat /\ \A k \in 1 .. m : t[k].level \in Nat
  BY TreeBoxes
<1>2. \E j \in i .. m : Encloses(t, i, j)
  <2> SUFFICES ASSUME \A j \in i .. m : ~Encloses(t, i, j) PROVE FALSE
    OBVIOUS
  <2> DEFINE P == {n \in 0 .. m : \A k \in i + 1 .. n : t[k].level > t[i].level}
  <2>1. 0 \in P
    BY <1>1
  <2>2. ASSUME NEW n \in 1 .. m, n - 1 \in P PROVE n \in P
    <3>1. CASE n < i + 1
      BY <1>1, <3>1
    <3>2. CASE n >= i + 1
      <4>1. n - 1 \in i .. m /\ n - 1 < m /\ (n - 1) + 1 = n
        BY <1>1, <3>2
      <4>2. ~(t[n].level <= t[i].level)
        BY <2>2, <4>1 DEF Encloses
      <4>3. t[n].level > t[i].level
        BY <1>1, <4>2
      <4>4. \A k \in i + 1 .. n : k = n \/ k \in i + 1 .. n - 1
        BY <1>1
      <4> QED  BY <2>2, <4>3, <4>4
    <3> QED  BY <1>1, <3>1, <3>2
  <2>3. m \in P
    <3> HIDE DEF P, m
    <3>1. m \in Nat /\ m \in 0 .. m
      BY <1>1
    <3> QED  BY <2>1, <2>2, <3>1, Induction
  <2>4. m \in i .. m /\ ~(m < m)
    BY <1>1
  <2>5. Encloses(t, i, m)
    BY <2>3, <2>4 DEF Encloses
  <2> QED  BY <2>4, <2>5
<1>3. LastIn(t, i) \in i .. m /\ Encloses(t, i, LastIn(t, i))
  BY <1>2, Zenon DEF LastIn
<1>4. LastIn(t, i) \in 0 .. m
  BY <1>1, <1>3
<1> QED  BY <1>3, <1>4 DEF Encloses

(* It is the only box of which this is true.                               *)
LEMMA LastInOnly ==
  ASSUME NEW t \in Trees, NEW i \in 1 .. Len(t), NEW j \in i .. Len(t),
         \A k \in i + 1 .. j : t[k].level > t[i].level,
         j < Len(t) => t[j + 1].level <= t[i].level
  PROVE  LastIn(t, i) = j
<1> DEFINE l == LastIn(t, i)
           m == Len(t)
<1>1. /\ l \in i .. m /\ \A k \in i + 1 .. l : t[k].level > t[i].level
      /\ l < m => t[l + 1].level <= t[i].level
  BY LastInIs
<1>2. m \in Nat /\ i \in 1 .. m /\ \A k \in 1 .. m : t[k].level \in Nat
  BY TreeBoxes
<1> HIDE DEF l
<1>3. CASE l < j
  <2>1. l + 1 \in i + 1 .. j /\ l < m /\ l + 1 \in 1 .. m
    BY <1>1, <1>2, <1>3
  <2>2. t[l + 1].level > t[i].level /\ t[l + 1].level <= t[i].level
    BY <1>1, <2>1
  <2> QED  BY <1>2, <2>1, <2>2
<1>4. CASE j < l
  <2>1. j + 1 \in i + 1 .. l /\ j < m /\ j + 1 \in 1 .. m
    BY <1>1, <1>2, <1>4
  <2>2. t[j + 1].level > t[i].level /\ t[j + 1].level <= t[i].level
    BY <1>1, <2>1
  <2> QED  BY <1>2, <2>1, <2>2
<1>5. l = j
  BY <1>1, <1>2, <1>3, <1>4
<1> QED  BY <1>5 DEF l

(* All the boxes are inside the first, the 'moov'.                         *)
LEMMA LastInMoov ==
  ASSUME NEW t \in Trees
  PROVE  LastIn(t, 1) = Len(t)
<1>1. /\ Len(t) \in Nat \ {0} /\ t[1].level = 1
      /\ \A k \in 2 .. Len(t) : t[k].level >= 2
      /\ \A k \in 1 .. Len(t) : t[k].level \in Nat
  BY TreeBoxes
<1>2. 1 \in 1 .. Len(t) /\ Len(t) \in 1 .. Len(t) /\ ~(Len(t) < Len(t))
  BY <1>1
<1>3. \A k \in 1 + 1 .. Len(t) : t[k].level > t[1].level
  BY <1>1
<1> QED  BY <1>2, <1>3, LastInOnly

(* Nothing is inside a box that is no container.                           *)
LEMMA LastInLeaf ==
  ASSUME NEW t \in Trees, NEW i \in 1 .. Len(t), t[i].kind \notin {Moov, Container}
  PROVE  LastIn(t, i) = i
<1>1. Len(t) \in Nat /\ i \in i .. Len(t)
  BY TreeBoxes
<1>2. \A k \in i + 1 .. i : t[k].level > t[i].level
  BY <1>1
<1>3. i < Len(t) => t[i + 1].level <= t[i].level
  <2> SUFFICES ASSUME i < Len(t) PROVE t[i + 1].level <= t[i].level
    OBVIOUS
  <2>1. i + 1 \in 2 .. Len(t) /\ (i + 1) - 1 = i
    BY <1>1
  <2>2. \A j \in 2 .. Len(t) :
          t[j - 1].kind \notin {Moov, Container} => t[j].level <= t[j - 1].level
    BY TreeBoxes
  <2> QED  BY <2>1, <2>2
<1> QED  BY <1>1, <1>2, <1>3, LastInOnly

(* What is inside a box that is inside another is inside this one too.     *)
LEMMA LastInNested ==
  ASSUME NEW t \in Trees, NEW i \in 1 .. Len(t), NEW j \in i + 1 .. LastIn(t, i)
  PROVE  /\ j \in 1 .. Len(t) /\ LastIn(t, j) <= LastIn(t, i)
         /\ t[j].level > t[i].level
<1> DEFINE a == LastIn(t, i)
           b == LastIn(t, j)
           m == Len(t)
<1>1. /\ a \in i .. m /\ \A k \in i + 1 .. a : t[k].level > t[i].level
      /\ a < m => t[a + 1].level <= t[i].level
  BY LastInIs
<1>2. m \in Nat /\ i \in 1 .. m /\ \A k \in 1 .. m : t[k].level \in Nat
  BY TreeBoxes
<1>3. j \in 1 .. m
  BY <1>1, <1>2
<1>4. b \in j .. m /\ \A k \in j + 1 .. b : t[k].level > t[j].level
  BY <1>3, LastInIs
<1> HIDE DEF b
<1>5. t[j].level > t[i].level
  BY <1>1
<1> HIDE DEF a
<1>6. ASSUME a < b PROVE FALSE
  <2>1. a + 1 \in j + 1 .. b /\ a < m /\ a + 1 \in 1 .. m
    BY <1>1, <1>2, <1>4, <1>6 DEF a
  <2>2. t[a + 1].level > t[j].level /\ t[a + 1].level <= t[i].level
    BY <1>1, <1>4, <2>1
  <2> QED  BY <1>2, <1>3, <1>5, <2>1, <2>2
<1>7. b <= a
  BY <1>1, <1>2, <1>4, <1>6
<1> QED  BY <1>3, <1>5, <1>7 DEF a, b

-----------------------------------------------------------------------------
(* The sizes of the boxes.                                                 *)
LEMMA SizeOfIs ==
  ASSUME NEW t \in Trees, NEW i \in 1 .. Len(t)
  PROVE  /\ i - 1 \in 0 .. Len(t) /\ i \in 0 .. Len(t) /\ LastIn(t, i) \in i .. Len(t)
         /\ WordsTo(t)[i - 1] \in Nat /\ WordsTo(t)[i] \in Nat
         /\ WordsTo(t)[LastIn(t, i)] \in Nat
         /\ WordsTo(t)[i - 1] <= WordsTo(t)[i]
         /\ WordsTo(t)[i] <= WordsTo(t)[LastIn(t, i)]
         /\ SizeOf(t, i) = 4 * (WordsTo(t)[LastIn(t, i)] - WordsTo(t)[i - 1])
         /\ SizeOf(t, i) \in Nat
         /\ t[i].kind \in {Moov, Container} =>
              SizeOf(t, i) >= 8 /\ WordsTo(t)[i] = WordsTo(t)[i - 1] + 2
         /\ t[i].kind = Leaf =>
              /\ SizeOf(t, i) = 8 + 4 * t[i].words
              /\ SizeOf(t, i) = 4 * (WordsTo(t)[i] - WordsTo(t)[i - 1])
         /\ t[i].kind = Table /\ t[i].words # 0 =>
              /\ SizeOf(t, i) = 16 + 4 * t[i].words
              /\ SizeOf(t, i) = 4 * (WordsTo(t)[i] - WordsTo(t)[i - 1])
         /\ t[i].kind = Table /\ t[i].words = 0 =>
              SizeOf(t, i) = 0 /\ WordsTo(t)[i] = WordsTo(t)[i - 1]
<1> DEFINE W == WordsTo(t)
           l == LastIn(t, i)
           a == W[i - 1]
           b == W[i]
           c == W[l]
           o == Len(OwnWords(t[i]))
           w == t[i].words
<1>1. Len(t) \in Nat /\ i - 1 \in 0 .. Len(t) /\ i \in 0 .. Len(t) /\ i - 1 <= i
  BY TreeBoxes
<1>2. l \in i .. Len(t) /\ l \in 0 .. Len(t) /\ i <= l
  <2>1. l \in i .. Len(t) /\ l \in 0 .. Len(t)
    BY LastInIs
  <2> HIDE DEF l
  <2> QED  BY <2>1
<1>3. a \in Nat /\ b \in Nat /\ a <= b
  BY <1>1, WordsToGrows
<1>4. c \in Nat /\ b <= c
  <2> HIDE DEF l
  <2> QED  BY <1>1, <1>2, WordsToGrows
<1>5. b = a + o
  BY WordsToIs
<1>6. /\ o \in Nat /\ w \in Nat
      /\ t[i].kind \in {Moov, Container} => o = 2
      /\ t[i].kind = Leaf => o = 2 + w
      /\ t[i].kind = Table /\ w = 0 => o = 0
      /\ t[i].kind = Table /\ w # 0 => o = 4 + w
  BY TreeBoxes, OwnLengths
<1>7. t[i].kind \notin {Moov, Container} => l = i
  BY LastInLeaf
<1>8. t[i].kind \in {Leaf, Table} => t[i].kind \notin {Moov, Container}
  BY WordAssumption
<1>9. t[i].kind \notin {Moov, Container} => c = b
  BY <1>7
<1>10. SizeOf(t, i) = 4 * (c - a)
  BY DEF SizeOf
<1> HIDE DEF W, l, a, b, c, o, w
<1>11. 4 * (c - a) \in Nat
  BY <1>3, <1>4
<1>12. t[i].kind \in {Moov, Container} => 4 * (c - a) >= 8 /\ b = a + 2
  BY <1>3, <1>4, <1>5, <1>6
<1>13. t[i].kind = Leaf => 4 * (c - a) = 8 + 4 * w /\ 4 * (c - a) = 4 * (b - a)
  BY <1>3, <1>4, <1>5, <1>6, <1>8, <1>9
<1>14. t[i].kind = Table /\ w # 0 => 4 * (c - a) = 16 + 4 * w /\ 4 * (c - a) = 4 * (b - a)
  BY <1>3, <1>4, <1>5, <1>6, <1>8, <1>9
<1>15. t[i].kind = Table /\ w = 0 => 4 * (c - a) = 0 /\ b = a
  BY <1>3, <1>4, <1>5, <1>6, <1>8, <1>9
<1> QED
  BY <1>1, <1>2, <1>3, <1>4, <1>10, <1>11, <1>12, <1>13, <1>14, <1>15 DEF W, l, a, b, c, w

LEMMA SizeOfMoov ==
  ASSUME NEW t \in Trees
  PROVE  /\ 1 \in 1 .. Len(t) /\ WordsTo(t)[0] = 0 /\ WordsTo(t)[Len(t)] \in Nat
         /\ WordsTo(t)[Len(t)] >= 2
         /\ SizeOf(t, 1) = 4 * WordsTo(t)[Len(t)]
<1> DEFINE m == WordsTo(t)[Len(t)]
<1>1. 1 \in 1 .. Len(t) /\ t[1].kind \in {Moov, Container}
  BY TreeBoxes
<1>2. LastIn(t, 1) = Len(t) /\ WordsTo(t)[0] = 0 /\ 1 - 1 = 0
  BY LastInMoov, WordsToIs
<1>3. SizeOf(t, 1) = 4 * (m - 0) /\ m \in Nat /\ SizeOf(t, 1) >= 8
  BY <1>1, <1>2, SizeOfIs
<1> HIDE DEF m
<1>4. SizeOf(t, 1) = 4 * m /\ m >= 2
  BY <1>3
<1> QED  BY <1>1, <1>2, <1>3, <1>4 DEF m

-----------------------------------------------------------------------------
(* What there is to see of the first boxes.                                *)
Shows == Seq([kind : Kinds, level : Nat, size : Nat, words : Nat])

LEMMA ShownToIs ==
  ASSUME NEW t \in Trees
  PROVE  /\ ShownTo(t)[0] = <<>>
         /\ \A n \in 0 .. Len(t) : ShownTo(t)[n] \in Shows
         /\ \A n \in 1 .. Len(t) :
              ShownTo(t)[n] =
                IF SizeOf(t, n) <= Header THEN ShownTo(t)[n - 1]
                ELSE Append(ShownTo(t)[n - 1],
                       [kind |-> t[n].kind, level |-> t[n].level,
                        size |-> SizeOf(t, n), words |-> t[n].words])
<1> DEFINE m == Len(t)
           S == Shows
           new  == [n \in 1 .. m |-> [kind |-> t[n].kind, level |-> t[n].level,
                                      size |-> SizeOf(t, n), words |-> t[n].words]]
           grow == [p \in S \X (1 .. m) |-> IF SizeOf(t, p[2]) <= Header THEN p[1]
                                            ELSE Append(p[1], new[p[2]])]
           G(g) == [n \in 0 .. m |->
                      IF n = 0 THEN <<>>
                      ELSE IF SizeOf(t, n) <= Header THEN g[n - 1]
                      ELSE Append(g[n - 1],
                             [kind |-> t[n].kind, level |-> t[n].level,
                              size |-> SizeOf(t, n), words |-> t[n].words])]
           R    == CHOOSE g : g = G(g)
<1>1. m \in Nat \ {0}
  BY TreeBoxes
<1>2. \A n \in 1 .. m : new[n] \in [kind : Kinds, level : Nat, size : Nat, words : Nat]
  <2> SUFFICES ASSUME NEW n \in 1 .. m
               PROVE  [kind |-> t[n].kind, level |-> t[n].level, size |-> SizeOf(t, n),
                       words |-> t[n].words]
                        \in [kind : Kinds, level : Nat, size : Nat, words : Nat]
    OBVIOUS
  <2>1. t[n].kind \in Kinds /\ t[n].level \in Nat /\ t[n].words \in Nat
    BY TreeBoxes
  <2>2. SizeOf(t, n) \in Nat
    BY SizeOfIs
  <2> QED  BY <2>1, <2>2
<1>3. \A n \in 1 .. m : new[n] = [kind |-> t[n].kind, level |-> t[n].level,
                                  size |-> SizeOf(t, n), words |-> t[n].words]
  OBVIOUS
<1> HIDE DEF new
<1>4. \A s \in S : \A n \in 1 .. m : Append(s, new[n]) \in S
  <2> SUFFICES ASSUME NEW s \in S, NEW n \in 1 .. m PROVE Append(s, new[n]) \in S
    OBVIOUS
  <2> DEFINE T == [kind : Kinds, level : Nat, size : Nat, words : Nat]
  <2>1. s \in Seq(T) /\ new[n] \in T
    BY <1>2 DEF Shows
  <2> HIDE DEF T
  <2>2. Append(s, new[n]) \in Seq(T)
    BY <2>1
  <2> QED  BY <2>2 DEF T, Shows
<1>5. grow \in [S \X (1 .. m) -> S]
  <2> HIDE DEF S
  <2> QED  BY <1>4
<1>6. \A s \in S : \A n \in 1 .. m :
        grow[<<s, n>>] = IF SizeOf(t, n) <= Header THEN s ELSE Append(s, new[n])
  <2> HIDE DEF S
  <2> QED  OBVIOUS
<1> HIDE DEF grow
<1>7. <<>> \in S
  BY DEF Shows
<1>8. PICK f : Follows(f, S, m, <<>>, grow)
  <2> HIDE DEF m, S
  <2> QED  BY <1>1, <1>5, <1>7, Recursion
<1>9. f \in [0 .. m -> S] /\ f[0] = <<>> /\ \A n \in 1 .. m : f[n] = grow[<<f[n - 1], n>>]
  BY <1>8 DEF Follows
<1> HIDE DEF S
<1>10. f = G(f)
  <2>1. ASSUME NEW n \in 0 .. m
        PROVE  f[n] = IF n = 0 THEN <<>>
                      ELSE IF SizeOf(t, n) <= Header THEN f[n - 1]
                      ELSE Append(f[n - 1],
                             [kind |-> t[n].kind, level |-> t[n].level,
                              size |-> SizeOf(t, n), words |-> t[n].words])
    <3>1. CASE n = 0
      BY <1>9, <3>1
    <3>2. CASE n # 0
      <4>1. n \in 1 .. m /\ n - 1 \in 0 .. m
        BY <1>1, <3>2
      <4>2. f[n - 1] \in S
        BY <1>9, <4>1
      <4>3. f[n] = IF SizeOf(t, n) <= Header THEN f[n - 1] ELSE Append(f[n - 1], new[n])
        BY <1>6, <1>9, <4>1, <4>2
      <4> QED  BY <1>3, <3>2, <4>1, <4>3
    <3> QED  BY <3>1, <3>2
  <2> QED  BY <1>9, <2>1
<1>11. R = G(R)
  <2> HIDE DEF G
  <2> QED  BY <1>10
<1>12. ShownTo(t) = R
  BY DEF ShownTo
<1> HIDE DEF R
<1>13. \A n \in 1 .. m : n - 1 \in 0 .. m /\ n \in 0 .. m /\ n # 0
  BY <1>1
<1>14. R[0] = <<>>
  <2>1. 0 \in 0 .. m
    BY <1>1
  <2> QED  BY <1>11, <2>1
<1>15. \A n \in 1 .. m :
         R[n] = IF SizeOf(t, n) <= Header THEN R[n - 1] ELSE Append(R[n - 1], new[n])
  <2> SUFFICES ASSUME NEW n \in 1 .. m
               PROVE R[n] = IF SizeOf(t, n) <= Header THEN R[n - 1]
                            ELSE Append(R[n - 1], new[n])
    OBVIOUS
  <2>1. n \in 0 .. m /\ n # 0
    BY <1>13
  <2>2. G(R)[n] = IF SizeOf(t, n) <= Header THEN R[n - 1] ELSE Append(R[n - 1], new[n])
    BY <1>3, <2>1
  <2> HIDE DEF G
  <2> QED  BY <1>11, <2>2
<1> HIDE DEF G
<1> DEFINE P == {n \in 0 .. m : R[n] \in S}
<1>16. \A n \in 0 .. m : n \in P
  <2>1. 0 \in P
    BY <1>1, <1>7, <1>14
  <2>2. ASSUME NEW n \in 1 .. m, n - 1 \in P PROVE n \in P
    <3>1. R[n - 1] \in S /\ n \in 0 .. m
      BY <1>13, <2>2
    <3>2. R[n] \in S
      BY <1>4, <1>15, <3>1
    <3> QED  BY <3>1, <3>2
  <2> HIDE DEF P
  <2> QED  BY <1>1, <2>1, <2>2, Induction
<1> QED  BY <1>3, <1>12, <1>14, <1>15, <1>16 DEF S

(* Boxes with nothing inside show nothing.                                 *)
LEMMA ShownSame ==
  ASSUME NEW t \in Trees, NEW a \in 0 .. Len(t), NEW b \in 0 .. Len(t), a <= b,
         \A j \in a + 1 .. b : SizeOf(t, j) <= 8
  PROVE  ShownTo(t)[a] = ShownTo(t)[b]
<1> DEFINE S == ShownTo(t)
           P == {n \in 0 .. b : a <= n => S[a] = S[n]}
<1>1. Len(t) \in Nat /\ a \in Nat /\ b \in Nat /\ b <= Len(t)
  BY TreeBoxes
<1>2. 0 \in P
  BY <1>1
<1>3. ASSUME NEW n \in 1 .. b, n - 1 \in P PROVE n \in P
  <2> SUFFICES ASSUME a <= n, a # n PROVE S[a] = S[n]
    BY <1>1
  <2>1. n \in a + 1 .. b /\ n \in 1 .. Len(t) /\ a <= n - 1
    BY <1>1
  <2>2. SizeOf(t, n) <= Header
    BY <2>1 DEF Header
  <2>3. S[n] = S[n - 1]
    BY <2>1, <2>2, ShownToIs
  <2>4. S[a] = S[n - 1]
    BY <1>3, <2>1
  <2> QED  BY <2>3, <2>4
<1>4. b \in P
  <2> HIDE DEF P
  <2>1. b \in 0 .. b
    BY <1>1
  <2> QED  BY <1>1, <1>2, <1>3, <2>1, Induction
<1> QED  BY <1>1, <1>4

(* The last 8 bytes of a box hold nothing to see.                          *)
LEMMA ShownAtEnd ==
  ASSUME NEW t \in Trees, NEW i \in 1 .. Len(t), NEW k \in i + 1 .. LastIn(t, i) + 1,
         WordsTo(t)[LastIn(t, i)] - WordsTo(t)[k - 1] <= 2
  PROVE  /\ k - 1 \in 0 .. Len(t)
         /\ ShownTo(t)[k - 1] = ShownTo(t)[LastIn(t, i)]
<1> DEFINE W == WordsTo(t)
           l == LastIn(t, i)
<1>1. l \in i .. Len(t) /\ l \in 0 .. Len(t) /\ Len(t) \in Nat
  BY LastInIs, TreeBoxes
<1>2. W[l] - W[k - 1] <= 2
  OBVIOUS
<1>3. \A j \in i + 1 .. l : j \in 1 .. Len(t) /\ LastIn(t, j) <= l
  BY LastInNested
<1>4. k \in i + 1 .. l + 1
  OBVIOUS
<1> HIDE DEF l
<1>5. k - 1 \in 0 .. Len(t) /\ k - 1 <= l
  BY <1>1, <1>4
<1>6. ASSUME NEW j \in (k - 1) + 1 .. l PROVE SizeOf(t, j) <= 8
  <2> DEFINE e == LastIn(t, j)
             x == W[k - 1]
             y == W[j - 1]
             z == W[e]
             u == W[l]
  <2>1. j \in i + 1 .. l
    BY <1>1, <1>4
  <2>2. j \in 1 .. Len(t) /\ e <= l
    BY <1>3, <2>1
  <2>3. /\ j - 1 \in 0 .. Len(t) /\ e \in j .. Len(t) /\ SizeOf(t, j) = 4 * (z - y)
        /\ y \in Nat /\ z \in Nat
    BY <2>2, SizeOfIs
  <2>4. e \in 0 .. Len(t) /\ k - 1 <= j - 1
    <3> HIDE DEF e
    <3> QED  BY <1>1, <1>4, <2>2, <2>3
  <2>5. x \in Nat /\ x <= y
    BY <1>5, <2>3, <2>4, WordsToGrows
  <2>6. u \in Nat /\ z <= u
    <3> HIDE DEF e
    <3> QED  BY <1>1, <2>2, <2>4, WordsToGrows DEF z, u
  <2>7. u - x <= 2
    BY <1>2
  <2> HIDE DEF x, y, z, u
  <2>8. 4 * (z - y) <= 8
    BY <2>3, <2>5, <2>6, <2>7
  <2> QED  BY <2>3, <2>8
<1>7. ShownTo(t)[k - 1] = ShownTo(t)[l]
  <2> DEFINE o == k - 1
  <2>1. o \in 0 .. Len(t) /\ o <= l /\ \A j \in o + 1 .. l : SizeOf(t, j) <= 8
    BY <1>5, <1>6
  <2> HIDE DEF o
  <2>2. ShownTo(t)[o] = ShownTo(t)[l]
    BY <1>1, <2>1, ShownSame
  <2> QED  BY <2>2 DEF o
<1> QED  BY <1>5, <1>7 DEF l

-----------------------------------------------------------------------------
(* The next box that the reader meets at a level: a table without entries  *)
(* is not in the file.                                                     *)
Meets(t, i, k) ==
  /\ k \in i + 1 .. LastIn(t, i) + 1
  /\ k <= LastIn(t, i) => t[k].level = t[i].level + 1

LEMMA StepOver ==
  ASSUME NEW t \in Trees, NEW i \in 1 .. Len(t), NEW k, Meets(t, i, k)
  PROVE  \E j : /\ Meets(t, i, j)
                /\ WordsTo(t)[j - 1] = WordsTo(t)[k - 1]
                /\ ShownTo(t)[j - 1] = ShownTo(t)[k - 1]
                /\ j <= LastIn(t, i) => ~(t[j].kind = Table /\ t[j].words = 0)
<1> DEFINE W == WordsTo(t)
           S == ShownTo(t)
           l == LastIn(t, i)
           Same(j) == Meets(t, i, j) /\ W[j - 1] = W[k - 1] /\ S[j - 1] = S[k - 1]
           P == {n \in 0 .. l + 1 : k <= n => Same(n)}
<1> SUFFICES ASSUME \A j : Same(j) => j <= l /\ t[j].kind = Table /\ t[j].words = 0
             PROVE  FALSE
  OBVIOUS
<1>1. l \in i .. Len(t) /\ l \in 0 .. Len(t) /\ Len(t) \in Nat /\ i \in Nat
      /\ \A j \in i + 1 .. l : t[j].level > t[i].level
  BY LastInIs, TreeBoxes
<1>2. k \in i + 1 .. l + 1 /\ Same(k)
  BY DEF Meets
<1>3. \A j \in 1 .. Len(t) : t[j].level \in Nat
  BY TreeBoxes
<1> HIDE DEF l
<1>4. l + 1 \in Nat /\ k \in Nat /\ k > 0
  BY <1>1, <1>2
<1>5. 0 \in P
  BY <1>4
<1>6. ASSUME NEW n \in 1 .. l + 1, n - 1 \in P PROVE n \in P
  <2> SUFFICES ASSUME k <= n PROVE Same(n)
    BY <1>4
  <2>1. CASE n = k
    BY <1>2, <2>1
  <2>2. CASE n # k
    <3> DEFINE o == n - 1
    <3>1. k <= o /\ o \in Nat /\ o <= l /\ n = o + 1 /\ o \in i + 1 .. l /\ o \in 1 .. Len(t)
      BY <1>1, <1>2, <1>4, <2>2
    <3>2. Same(o)
      BY <1>6, <3>1
    <3>3. t[o].kind = Table /\ t[o].words = 0
      <4> HIDE DEF o
      <4> QED  BY <3>2
    <3> HIDE DEF o
    <3>4. W[o] = W[o - 1] /\ SizeOf(t, o) = 0
      BY <3>1, <3>3, SizeOfIs
    <3>5. S[o] = S[o - 1]
      <4>1. SizeOf(t, o) <= Header
        BY <3>4 DEF Header
      <4> QED  BY <3>1, <4>1, ShownToIs
    <3>6. n \in i + 1 .. l + 1 /\ n - 1 = o
      BY <3>1
    <3>7. t[o].level = t[i].level + 1
      BY <3>1, <3>2 DEF Meets, l
    <3>8. n <= l => t[n].level = t[i].level + 1
      <4> SUFFICES ASSUME n <= l PROVE t[n].level = t[i].level + 1
        OBVIOUS
      <4> DEFINE a == t[i].level
                 b == t[n].level
                 c == t[o].level
      <4>1. n \in 2 .. Len(t) /\ n \in i + 1 .. l /\ n \in 1 .. Len(t)
        BY <1>1, <3>1
      <4>2. t[o].kind \notin {Moov, Container}
        BY <3>3, WordAssumption
      <4>3. b <= c
        BY <3>6, <4>1, <4>2, TreeBoxes
      <4>4. b > a /\ c = a + 1
        BY <1>1, <3>7, <4>1
      <4>5. a \in Nat /\ b \in Nat
        BY <1>3, <4>1
      <4> HIDE DEF a, b, c
      <4>6. b = a + 1
        BY <4>3, <4>4, <4>5
      <4> QED  BY <4>6 DEF a, b
    <3>9. Meets(t, i, n)
      BY <3>6, <3>8 DEF Meets, l
    <3> QED  BY <3>2, <3>4, <3>5, <3>6, <3>9
  <2> QED  BY <2>1, <2>2
<1>7. l + 1 \in P
  <2> HIDE DEF P
  <2>1. l + 1 \in 0 .. l + 1
    BY <1>4
  <2> DEFINE m == l + 1
  <2>2. m \in Nat /\ m \in 0 .. m /\ \A n \in 1 .. m : n - 1 \in P => n \in P
    BY <1>4, <1>6, <2>1
  <2> HIDE DEF m
  <2>3. m \in P
    BY <1>5, <2>2, Induction
  <2> QED  BY <2>3 DEF m
<1>8. Same(l + 1)
  <2>1. k <= l + 1
    BY <1>1, <1>2, <1>4
  <2> DEFINE n == l + 1
  <2>2. n \in P /\ k <= n
    BY <1>7, <2>1
  <2> HIDE DEF n
  <2>3. Same(n)
    BY <2>2
  <2> QED  BY <2>3 DEF n
<1>9. l + 1 <= l
  BY <1>8
<1> QED  BY <1>1, <1>9

-----------------------------------------------------------------------------
(***************************************************************************)
(* The writers.  A box has its own words behind those of the boxes before  *)
(* it, and its size once the call that writes it is over.                  *)
(***************************************************************************)
At(i) == WordsTo(tree)[i - 1]

(* A call of mp4_box_container_write, and the box it writes.               *)
Writes(l, i) ==
  /\ tree[i].kind \in {Moov, Container} /\ tree[i].level = l
  /\ writers[l].start = 4 * At(i)
  /\ \A k \in i + 1 .. next - 1 : tree[k].level > l

StillOpen(i) ==
  /\ tree[i].kind \in {Moov, Container}
  /\ tree[i].level \in 1 .. Len(writers)
  /\ writers[tree[i].level].start = 4 * At(i)

InBuf(i) ==
  /\ buf[At(i) + 2] = tree[i].kind
  /\ tree[i].kind = Table => buf[At(i) + 4] = tree[i].words
  /\ buf[At(i) + 1] = SizeOf(tree, i) \/ StillOpen(i)

WriterInv ==
  phase = "writing" =>
    /\ next \in 1 .. Len(tree) + 1
    /\ Len(buf) = At(next)
    /\ next <= Len(tree) => tree[next].level <= Len(writers) + 1
    /\ \A l \in 1 .. Len(writers) : \E i \in 1 .. next - 1 : Writes(l, i)
    /\ \A i \in 1 .. next - 1 : At(i + 1) # At(i) => InBuf(i)

LEMMA WriterInit ==
  ASSUME RoomInv, writers = <<>>, next = 1, Len(buf) = 0
  PROVE  WriterInv
<1>1. tree \in Trees
  BY DEF RoomInv
<1>2. Len(tree) \in Nat \ {0} /\ tree[1].level = 1
  BY <1>1, TreeBoxes
<1>3. At(1) = 0
  BY <1>1, WordsToIs DEF At
<1>4. Len(writers) = 0 /\ next \in 1 .. Len(tree) + 1 /\ \A i \in 1 .. next - 1 : FALSE
  BY <1>2
<1>5. next <= Len(tree) => tree[next].level <= Len(writers) + 1
  BY <1>2, <1>4
<1>6. \A l \in 1 .. Len(writers) : FALSE
  BY <1>4
<1> QED  BY <1>3, <1>4, <1>5, <1>6 DEF WriterInv

(* Where the words of the boxes are.                                       *)
LEMMA AtGrows ==
  ASSUME tree \in Trees, NEW i \in 1 .. Len(tree), NEW j \in i + 1 .. Len(tree) + 1
  PROVE  /\ At(i) \in Nat /\ At(i + 1) \in Nat /\ At(j) \in Nat
         /\ At(i) <= At(i + 1) /\ At(i + 1) <= At(j)
         /\ At(i + 1) = At(i) + Len(OwnWords(tree[i]))
         /\ tree[i].kind \in {Moov, Container} => At(i + 1) = At(i) + 2
         /\ At(i + 1) # At(i) => At(i) + 2 <= At(i + 1)
         /\ At(i + 1) # At(i) /\ tree[i].kind = Table => At(i) + 4 <= At(i + 1)
<1>1. Len(tree) \in Nat /\ i \in Nat /\ tree[i].kind \in Kinds /\ tree[i].words \in Nat
      /\ tree[i] \in [kind : Kinds, level : Nat \ {0}, words : Nat]
  BY SMTT(30), TreeBoxes
<1> DEFINE x == i - 1
           y == j - 1
           o == Len(OwnWords(tree[i]))
<1>2. /\ x \in 0 .. Len(tree) /\ i \in 0 .. Len(tree) /\ y \in 0 .. Len(tree)
      /\ x <= i /\ i <= y /\ (i + 1) - 1 = i
  BY <1>1
<1>3. At(i) = WordsTo(tree)[x] /\ At(i + 1) = WordsTo(tree)[i] /\ At(j) = WordsTo(tree)[y]
  BY <1>2 DEF At
<1>4. WordsTo(tree)[i] = WordsTo(tree)[x] + o
  BY WordsToIs
<1> HIDE DEF x, y
<1>5. /\ At(i) \in Nat /\ At(i + 1) \in Nat /\ At(j) \in Nat
      /\ At(i) <= At(i + 1) /\ At(i + 1) <= At(j)
  BY <1>2, <1>3, WordsToGrows
<1>6. /\ o \in Nat
      /\ tree[i].kind \in {Moov, Container} => o = 2
      /\ o # 0 => o >= 2
      /\ o # 0 /\ tree[i].kind = Table => o >= 4
  BY SMTT(30), <1>1, OwnLengths DEF Kinds
<1> DEFINE a == At(i)
           b == At(i + 1)
<1>7. b = a + o /\ a \in Nat /\ b \in Nat
  BY <1>3, <1>4, <1>5
<1> HIDE DEF o, a, b
<1>8. /\ tree[i].kind \in {Moov, Container} => b = a + 2
      /\ b # a => a + 2 <= b
      /\ b # a /\ tree[i].kind = Table => a + 4 <= b
  BY <1>6, <1>7
<1> QED  BY <1>5, <1>7, <1>8 DEF o, a, b

LEMMA WriteBoxWriter ==
  ASSUME RoomInv, WriterInv, WriteBox
  PROVE  WriterInv'
<1> DEFINE own == OwnWords(tree[next])
           n == Len(writers)
<1>1. /\ phase = "writing" /\ Pending /\ buf' = buf \o own /\ next' = next + 1
      /\ tree' = tree /\ tree \in Trees /\ phase' = phase
      /\ buf \in Seq(Nat) /\ writers \in Seq([start : Nat, max : Int])
  BY DEF WriteBox, RoomInv
<1>2. /\ next \in 1 .. Len(tree) + 1 /\ Len(buf) = At(next)
      /\ \A l \in 1 .. n : \E i \in 1 .. next - 1 : Writes(l, i)
      /\ \A i \in 1 .. next - 1 : At(i + 1) # At(i) => InBuf(i)
  BY <1>1 DEF WriterInv
<1>3. /\ next \in 1 .. Len(tree) /\ tree[next].level = n + 1 /\ n \in Nat
      /\ Len(tree) \in Nat
  BY <1>1, <1>2, TreeBoxes DEF Pending
<1>4. tree[next] \in [kind : Kinds, level : Nat \ {0}, words : Nat]
  BY <1>1, <1>3, TreeBoxes
<1>5. own \in Seq(Nat) /\ Len(own) \in Nat
  BY <1>4, OwnLengths
<1>6. /\ At(next) \in Nat /\ At(next + 1) \in Nat /\ At(next + 1) = At(next) + Len(own)
      /\ next + 1 \in next + 1 .. Len(tree) + 1
  <2>1. next + 1 \in next + 1 .. Len(tree) + 1
    BY <1>3
  <2> QED  BY <1>1, <1>3, <2>1, AtGrows
<1>7. /\ Len(buf') = At(next + 1)
      /\ \A k \in 1 .. At(next) : buf'[k] = buf[k]
      /\ \A k \in 1 .. Len(own) : buf'[At(next) + k] = own[k]
  <2> HIDE DEF own
  <2>1. /\ Len(buf \o own) = Len(buf) + Len(own)
        /\ \A k \in 1 .. Len(buf) : (buf \o own)[k] = buf[k]
        /\ \A k \in 1 .. Len(own) : (buf \o own)[Len(buf) + k] = own[k]
    BY <1>1, <1>5
  <2> QED  BY <1>1, <1>2, <1>6, <2>1
<1>8. \A i : At(i)' = At(i)
  BY <1>1 DEF At
<1>0. PICK c \in 1 .. Len(tree) : c = next
  BY <1>3
<1>9. /\ Len(writers') = IF tree[next].kind \in {Moov, Container} THEN n + 1 ELSE n
      /\ \A l \in 1 .. n : writers'[l] = writers[l]
      /\ tree[next].kind \in {Moov, Container} => writers'[n + 1].start = 4 * At(next)
  <2>1. CASE tree[next].kind \in {Moov, Container}
    <3> DEFINE new == [start |-> Bytes(buf), max |-> Room]
    <3>1. writers' = Append(writers, new)
      BY <2>1 DEF WriteBox
    <3>2. new.start = 4 * At(next)
      BY <1>2 DEF Bytes
    <3> HIDE DEF new
    <3> QED  BY <1>1, <1>3, <2>1, <3>1, <3>2
  <2>2. CASE tree[next].kind \notin {Moov, Container}
    BY <2>2 DEF WriteBox
  <2> QED  BY <2>1, <2>2
<1>10. next' <= Len(tree') => tree'[next'].level <= Len(writers') + 1
  <2> SUFFICES ASSUME next + 1 <= Len(tree)
               PROVE  tree[next + 1].level <= Len(writers') + 1
    BY <1>1
  <2> DEFINE m == next + 1
             a == tree[m].level
  <2>1. m \in 2 .. Len(tree) /\ m - 1 = next
    BY <1>3
  <2>2. /\ a <= tree[next].level + 1
        /\ tree[next].kind \notin {Moov, Container} => a <= tree[next].level
    BY <1>1, <2>1, TreeBoxes
  <2>3. a \in Nat
    <3>1. m \in 1 .. Len(tree)
      BY <1>3, <2>1
    <3> QED  BY <1>1, <3>1, TreeBoxes
  <2> HIDE DEF a
  <2>4. a <= Len(writers') + 1
    BY <1>3, <1>9, <2>2, <2>3
  <2> QED  BY <2>4 DEF a
<1>11. ASSUME NEW l \in 1 .. Len(writers')
       PROVE  \E i \in 1 .. next' - 1 : Writes(l, i)'
  <2>1. CASE l \in 1 .. n
    <3>1. PICK i \in 1 .. next - 1 : Writes(l, i)
      BY <1>2, <2>1
    <3>2. \A k \in i + 1 .. next' - 1 : tree[k].level > l
      <4>1. \A k \in i + 1 .. next' - 1 : k \in i + 1 .. next - 1 \/ k = next
        BY <1>1, <1>3
      <4>2. \A k \in i + 1 .. next - 1 : tree[k].level > l
        BY <3>1 DEF Writes
      <4>3. tree[next].level > l
        BY <1>3, <2>1
      <4> QED  BY <4>1, <4>2, <4>3
    <3>3. Writes(l, i)'
      BY <1>1, <1>8, <1>9, <2>1, <3>1, <3>2 DEF Writes
    <3>4. i \in 1 .. next' - 1
      BY <1>1, <1>3
    <3> QED  BY <3>3, <3>4
  <2>2. CASE l \notin 1 .. n
    <3>1. tree[next].kind \in {Moov, Container} /\ l = n + 1
      BY <1>3, <1>9, <2>2
    <3>2. \A k \in next + 1 .. next' - 1 : FALSE
      BY <1>1, <1>3
    <3>3. Writes(l, c)'
      BY <1>0, <1>1, <1>3, <1>8, <1>9, <3>1, <3>2 DEF Writes
    <3>4. c \in 1 .. next' - 1
      BY <1>0, <1>1, <1>3
    <3> QED  BY <3>3, <3>4
  <2> QED  BY <2>1, <2>2
<1>12. ASSUME NEW i \in 1 .. next' - 1, At(i + 1)' # At(i)'
       PROVE  InBuf(i)'
  <2>0. At(i + 1) # At(i)
    BY <1>8, <1>12
  <2>1. CASE i \in 1 .. next - 1
    <3>1. InBuf(i)
      BY <1>2, <2>0, <2>1
    <3>2. i \in 1 .. Len(tree) /\ next \in i + 1 .. Len(tree) + 1
      BY <1>3, <2>1
    <3>3. /\ At(i) \in Nat /\ At(i + 1) \in Nat /\ At(i + 1) <= At(next)
          /\ At(i) + 2 <= At(i + 1)
          /\ tree[i].kind = Table => At(i) + 4 <= At(i + 1)
      BY <1>1, <2>0, <3>2, AtGrows
    <3>4. /\ buf'[At(i) + 1] = buf[At(i) + 1] /\ buf'[At(i) + 2] = buf[At(i) + 2]
          /\ tree[i].kind = Table => buf'[At(i) + 4] = buf[At(i) + 4]
      <4>0. PICK a, e, d : a = At(i) /\ e = At(i + 1) /\ d = At(next)
        OBVIOUS
      <4>1. a + 1 \in 1 .. d /\ a + 2 \in 1 .. d
        <5>1. a \in Nat /\ e \in Nat /\ d \in Nat /\ e <= d /\ a + 2 <= e
          BY <1>6, <3>3, <4>0
        <5> QED  BY ONLY <5>1
      <4>2. tree[i].kind = Table => a + 4 \in 1 .. d
        <5>1. a \in Nat /\ e \in Nat /\ d \in Nat /\ e <= d
              /\ (tree[i].kind = Table => a + 4 <= e)
          BY <1>6, <3>3, <4>0
        <5> QED  BY ONLY <5>1
      <4> QED  BY <1>7, <4>0, <4>1, <4>2
    <3>5. StillOpen(i) => StillOpen(i)'
      <4> SUFFICES ASSUME StillOpen(i) PROVE StillOpen(i)'
        OBVIOUS
      <4>1. tree[i].level \in 1 .. n /\ tree[i].level \in 1 .. Len(writers')
        BY <1>3, <1>9 DEF StillOpen
      <4> QED  BY <1>1, <1>8, <1>9, <4>1 DEF StillOpen
    <3> QED  BY <1>1, <1>8, <3>1, <3>4, <3>5 DEF InBuf
  <2>2. CASE i \notin 1 .. next - 1
    <3>1. i = next
      BY <1>1, <1>3, <2>2
    <3>2. Len(own) # 0
      BY <1>6, <2>0, <3>1
    <3>3. CASE tree[next].kind \in {Moov, Container}
      <4>1. Len(own) = 2 /\ own[2] = tree[next].kind /\ tree[next].kind # Table
        BY <1>4, <3>3, OwnLengths, WordAssumption
      <4>2. buf'[At(next) + 2] = tree[next].kind
        BY <1>7, <4>1
      <4>3. StillOpen(i)'
        <5>1. tree[next].level \in 1 .. Len(writers')
          BY <1>3, <1>9, <3>3
        <5> QED  BY <1>1, <1>3, <1>8, <1>9, <3>1, <3>3, <5>1 DEF StillOpen
      <4> QED  BY <1>1, <1>8, <3>1, <4>1, <4>2, <4>3 DEF InBuf
    <3>4. CASE tree[next].kind = Leaf
      <4>1. /\ Len(own) = 2 + tree[next].words /\ own[1] = 8 + 4 * tree[next].words
            /\ own[2] = tree[next].kind /\ tree[next].kind # Table /\ tree[next].words \in Nat
        BY <1>4, <3>4, OwnLengths, WordAssumption
      <4>2. SizeOf(tree, next) = 8 + 4 * tree[next].words
        BY <1>1, <1>3, <3>4, SizeOfIs
      <4>3. 1 \in 1 .. Len(own) /\ 2 \in 1 .. Len(own)
        BY SMTT(30), <4>1
      <4>4. buf'[At(next) + 1] = SizeOf(tree, next) /\ buf'[At(next) + 2] = tree[next].kind
        BY <1>7, <4>1, <4>2, <4>3
      <4> QED  BY <1>1, <1>8, <3>1, <4>1, <4>4 DEF InBuf
    <3>5. CASE tree[next].kind = Table
      <4>1. tree[next].words # 0 /\ tree[next].words \in Nat
        BY <1>4, <3>2, <3>5, OwnLengths
      <4>2. /\ Len(own) = 4 + tree[next].words /\ own[1] = 16 + 4 * tree[next].words
            /\ own[2] = tree[next].kind /\ own[4] = tree[next].words
        BY <1>4, <3>5, <4>1, OwnLengths
      <4>3. SizeOf(tree, next) = 16 + 4 * tree[next].words
        BY <1>1, <1>3, <3>5, <4>1, SizeOfIs
      <4>4. 1 \in 1 .. Len(own) /\ 2 \in 1 .. Len(own) /\ 4 \in 1 .. Len(own)
        <5>1. Len(own) >= 4
          BY <4>1, <4>2
        <5> HIDE DEF own
        <5> QED  BY <1>5, <5>1
      <4>5. buf'[At(next) + 1] = SizeOf(tree, next) /\ buf'[At(next) + 2] = tree[next].kind
            /\ buf'[At(next) + 4] = tree[next].words
        BY <1>7, <4>2, <4>3, <4>4
      <4> QED  BY <1>1, <1>8, <3>1, <4>5 DEF InBuf
    <3> QED  BY <1>4, <3>3, <3>4, <3>5 DEF Kinds
  <2> QED  BY <2>1, <2>2
<1>13. next' \in 1 .. Len(tree') + 1 /\ Len(buf') = At(next)'
  <2>1. At(next)' = At(c + 1)
    BY <1>0, <1>1 DEF At
  <2> QED  BY <1>0, <1>1, <1>3, <1>7, <2>1
<1> QED  BY <1>10, <1>11, <1>12, <1>13 DEF WriterInv

(* The call that ends wrote the box that the boxes up to here are inside   *)
(* of.                                                                     *)
LEMMA CloseBoxWriter ==
  ASSUME RoomInv, WriterInv, CloseBox
  PROVE  WriterInv'
<1> DEFINE n == Len(writers)
           start == writers[n].start
<1>1. /\ phase = "writing" /\ ~Pending /\ writers # <<>> /\ next' = next
      /\ tree' = tree /\ tree \in Trees /\ phase' = phase
      /\ buf \in Seq(Nat) /\ writers \in Seq([start : Nat, max : Int])
      /\ buf' = Sized(buf, start)
      /\ writers' = SubSeq(writers, 1, n - 1)
  BY DEF CloseBox, RoomInv
<1>2. /\ next \in 1 .. Len(tree) + 1 /\ Len(buf) = At(next)
      /\ next <= Len(tree) => tree[next].level <= n + 1
      /\ \A l \in 1 .. n : \E i \in 1 .. next - 1 : Writes(l, i)
      /\ \A i \in 1 .. next - 1 : At(i + 1) # At(i) => InBuf(i)
  BY <1>1 DEF WriterInv
<1>3. n \in Nat \ {0} /\ Len(tree) \in Nat /\ n \in 1 .. n
      /\ \A k \in 1 .. Len(tree) : tree[k].level \in Nat
  BY SMTT(30), <1>1, TreeBoxes
<1>4. next <= Len(tree) => tree[next].level <= n
  <2>1. next <= Len(tree) => tree[next].level # n + 1
    BY <1>1 DEF Pending
  <2>2. next <= Len(tree) => next \in 1 .. Len(tree)
    BY <1>2, <1>3
  <2> QED  BY <1>2, <1>3, <2>1, <2>2
<1>5. PICK b \in 1 .. next - 1 : Writes(n, b)
  BY <1>2, <1>3
<1>6. b \in 1 .. Len(tree) /\ next \in b + 1 .. Len(tree) + 1
  BY <1>2, <1>3
<1>7. /\ tree[b].kind \in {Moov, Container} /\ tree[b].level = n /\ start = 4 * At(b)
      /\ \A k \in b + 1 .. next - 1 : tree[k].level > n
  BY <1>5 DEF Writes
<1>8. LastIn(tree, b) = next - 1
  <2> DEFINE j == next - 1
  <2>1. j \in b .. Len(tree) /\ j + 1 = next
    BY <1>2, <1>3, <1>6
  <2>2. \A k \in b + 1 .. j : tree[k].level > tree[b].level
    BY <1>7
  <2>3. j < Len(tree) => tree[j + 1].level <= tree[b].level
    BY <1>3, <1>4, <1>7, <2>1
  <2> HIDE DEF j
  <2>4. LastIn(tree, b) = j
    BY <1>1, <1>6, <2>1, <2>2, <2>3, LastInOnly
  <2> QED  BY <2>4 DEF j
<1>9. /\ At(b) \in Nat /\ At(next) \in Nat /\ At(b) + 2 <= At(next)
      /\ SizeOf(tree, b) = 4 * (At(next) - At(b))
  <2>1. /\ At(b) \in Nat /\ At(next) \in Nat /\ At(b + 1) \in Nat /\ At(b + 1) <= At(next)
        /\ At(b + 1) = At(b) + 2
    BY <1>1, <1>6, <1>7, AtGrows
  <2>2. SizeOf(tree, b) = 4 * (At(next) - At(b))
    BY <1>8 DEF SizeOf, At
  <2> QED  BY <2>1, <2>2
<1>10. /\ Len(buf') = Len(buf)
       /\ buf'[At(b) + 1] = SizeOf(tree, b)
       /\ \A k \in 1 .. Len(buf) : k # At(b) + 1 => buf'[k] = buf[k]
  <2> DEFINE x == At(b)
             y == At(next)
             s == SizeOf(tree, b)
  <2>1. start \div 4 + 1 = x + 1 /\ Bytes(buf) - start = s
    <3>1. start = 4 * x /\ Len(buf) = y /\ s = 4 * (y - x) /\ x \in Nat /\ y \in Nat
      BY <1>2, <1>7, <1>9
    <3> HIDE DEF start, x, y, s
    <3> QED  BY <3>1 DEF Bytes
  <2>2. buf' = [buf EXCEPT ![x + 1] = s]
    BY <1>1, <2>1 DEF Sized
  <2>3. x + 1 \in 1 .. Len(buf)
    BY <1>2, <1>9
  <2>4. buf \in Seq(Nat) /\ s \in Nat
    BY <1>1, <1>6, SizeOfIs
  <2> HIDE DEF x, s
  <2>5. /\ Len(buf') = Len(buf) /\ buf'[x + 1] = s
        /\ \A k \in 1 .. Len(buf) : k # x + 1 => buf'[k] = buf[k]
    BY <2>2, <2>3, <2>4, ExceptSeq
  <2> QED  BY <2>5 DEF x, s
<1>11. /\ Len(writers') = n - 1 /\ \A l \in 1 .. n - 1 : writers'[l] = writers[l]
  BY <1>1, RemovedTop
<1>12. \A i : At(i)' = At(i)
  BY <1>1 DEF At
<1>13. next' <= Len(tree') => tree'[next'].level <= Len(writers') + 1
  BY SMTT(30), <1>1, <1>3, <1>4, <1>11
<1>14. ASSUME NEW l \in 1 .. Len(writers')
       PROVE  \E i \in 1 .. next' - 1 : Writes(l, i)'
  <2>1. l \in 1 .. n - 1 /\ l \in 1 .. n
    BY <1>3, <1>11
  <2>2. PICK i \in 1 .. next - 1 : Writes(l, i)
    BY <1>2, <2>1
  <2>3. Writes(l, i)'
    BY <1>1, <1>11, <1>12, <2>1, <2>2 DEF Writes
  <2> QED  BY <1>1, <2>3
<1>15. ASSUME NEW i \in 1 .. next' - 1, At(i + 1)' # At(i)'
       PROVE  InBuf(i)'
  <2>1. At(i + 1) # At(i) /\ i \in 1 .. next - 1
    BY <1>1, <1>12, <1>15
  <2>2. InBuf(i)
    BY <1>2, <2>1
  <2>3. i \in 1 .. Len(tree) /\ next \in i + 1 .. Len(tree) + 1
    BY <1>2, <1>3, <2>1
  <2>4. /\ At(i) \in Nat /\ At(i + 1) \in Nat /\ At(i + 1) <= At(next)
        /\ At(i) + 2 <= At(i + 1)
        /\ tree[i].kind = Table => At(i) + 4 <= At(i + 1)
    BY <1>1, <2>1, <2>3, AtGrows
  <2>5. i # b => At(i) + 2 <= At(b) \/ At(b) + 2 <= At(i)
    <3>1. CASE i < b
      <4>1. b \in i + 1 .. Len(tree) + 1
        BY <1>3, <1>6, <2>3, <3>1
      <4>2. At(i + 1) <= At(b)
        BY <1>1, <2>3, <4>1, AtGrows
      <4> QED  BY <1>9, <2>4, <4>2
    <3>2. CASE b < i
      <4>1. i \in b + 1 .. Len(tree) + 1
        BY <1>3, <1>6, <2>3, <3>2
      <4>2. At(b + 1) <= At(i) /\ At(b + 1) = At(b) + 2
        BY <1>1, <1>6, <1>7, <4>1, AtGrows
      <4> QED  BY <1>9, <2>4, <4>2
    <3> QED  BY <1>6, <2>3, <3>1, <3>2
  <2>6. buf'[At(i) + 2] = tree[i].kind
    <3> DEFINE k == At(i) + 2
    <3>1. k \in 1 .. Len(buf) /\ k # At(b) + 1
      <4>1. PICK a, c, d, e : a = At(i) /\ c = At(b) /\ d = At(next) /\ e = At(i + 1)
        OBVIOUS
      <4>2. /\ a \in Nat /\ c \in Nat /\ d \in Nat /\ e \in Nat /\ e <= d /\ a + 2 <= e
            /\ Len(buf) = d /\ k = a + 2
            /\ a = c \/ a + 2 <= c \/ c + 2 <= a
        BY <1>2, <1>9, <2>4, <2>5, <4>1
      <4> HIDE DEF k
      <4>3. k \in 1 .. d /\ k # c + 1
        BY ONLY <4>2
      <4> QED  BY ONLY <4>1, <4>2, <4>3
    <3>2. buf[k] = tree[i].kind
      BY <2>2 DEF InBuf
    <3> HIDE DEF k
    <3>3. buf'[k] = tree[i].kind
      BY <1>10, <3>1, <3>2
    <3> QED  BY <3>3 DEF k
  <2>7. tree[i].kind = Table => buf'[At(i) + 4] = tree[i].words
    <3> SUFFICES ASSUME tree[i].kind = Table PROVE buf'[At(i) + 4] = tree[i].words
      OBVIOUS
    <3> DEFINE k == At(i) + 4
    <3>0. i # b
      BY <1>7, WordAssumption
    <3>1. k \in 1 .. Len(buf) /\ k # At(b) + 1
      <4>1. At(i) + 4 <= At(next) /\ (i < b => At(i) + 4 <= At(b))
        <5>1. ASSUME i < b PROVE At(i) + 4 <= At(b)
          <6>1. b \in i + 1 .. Len(tree) + 1
            BY <1>3, <1>6, <2>3, <5>1
          <6>2. At(i + 1) <= At(b)
            BY <1>1, <2>3, <6>1, AtGrows
          <6> QED  BY <1>9, <2>4, <6>2
        <5> QED  BY <1>9, <2>4, <5>1
      <4>2. b < i => At(b) + 2 <= At(i)
        <5> SUFFICES ASSUME b < i PROVE At(b) + 2 <= At(i)
          OBVIOUS
        <5>1. i \in b + 1 .. Len(tree) + 1
          BY <1>3, <1>6, <2>3
        <5> QED  BY <1>1, <1>6, <1>7, <5>1, AtGrows
      <4>3. i < b \/ b < i
        BY <1>6, <2>3, <3>0
      <4>4. PICK a, c, d : a = At(i) /\ c = At(b) /\ d = At(next)
        OBVIOUS
      <4>5. /\ a \in Nat /\ c \in Nat /\ d \in Nat /\ a + 4 <= d
            /\ Len(buf) = d /\ k = a + 4 /\ (a + 4 <= c \/ c + 2 <= a)
        BY <1>2, <1>9, <2>4, <4>1, <4>2, <4>3, <4>4
      <4> HIDE DEF k
      <4>6. k \in 1 .. d /\ k # c + 1
        BY ONLY <4>5
      <4> QED  BY ONLY <4>4, <4>5, <4>6
    <3>2. buf[k] = tree[i].words
      BY <2>2 DEF InBuf
    <3> HIDE DEF k
    <3>3. buf'[k] = tree[i].words
      BY <1>10, <3>1, <3>2
    <3> QED  BY <3>3 DEF k
  <2>8. buf'[At(i) + 1] = SizeOf(tree, i) \/ StillOpen(i)'
    <3>1. CASE i = b
      BY <1>10, <3>1
    <3>2. CASE i # b
      <4>1. buf'[At(i) + 1] = buf[At(i) + 1]
        <5> DEFINE k == At(i) + 1
        <5>1. k \in 1 .. Len(buf) /\ k # At(b) + 1
          <6>1. At(i) + 2 <= At(b) \/ At(b) + 2 <= At(i)
            BY <2>5, <3>2
          <6>2. k \in 1 .. Len(buf)
            BY SMTT(30), <1>2, <1>9, <2>4
          <6>3. k # At(b) + 1
            BY <1>9, <2>4, <6>1
          <6> QED  BY <6>2, <6>3
        <5> HIDE DEF k
        <5>2. buf'[k] = buf[k]
          BY <1>10, <5>1
        <5> QED  BY <5>2 DEF k
      <4>2. StillOpen(i) => StillOpen(i)'
        <5> SUFFICES ASSUME StillOpen(i) PROVE StillOpen(i)'
          OBVIOUS
        <5>1. tree[i].level \in 1 .. n /\ writers[tree[i].level].start = 4 * At(i)
          BY DEF StillOpen
        <5>2. tree[i].level # n
          <6> SUFFICES ASSUME tree[i].level = n PROVE FALSE
            OBVIOUS
          <6>1. 4 * At(i) = 4 * At(b)
            BY <1>7, <5>1
          <6> QED  BY SMTT(30), <1>9, <2>4, <2>5, <3>2, <6>1
        <5>3. tree[i].level \in 1 .. n - 1
          BY <1>3, <5>1, <5>2
        <5> QED  BY <1>1, <1>11, <1>12, <5>1, <5>3 DEF StillOpen
      <4> QED  BY <2>2, <4>1, <4>2 DEF InBuf
    <3> QED  BY <3>1, <3>2
  <2> QED  BY <1>1, <1>12, <2>6, <2>7, <2>8 DEF InBuf
<1>16. next' \in 1 .. Len(tree') + 1 /\ Len(buf') = At(next)'
  <2>1. At(next)' = At(next)
    BY <1>1 DEF At
  <2> QED  BY <1>1, <1>2, <1>10, <2>1
<1> QED  BY <1>13, <1>14, <1>15, <1>16 DEF WriterInv

LEMMA WriterStep ==
  ASSUME RoomInv, RoomInv', WriterInv, [Next]_vars
  PROVE  WriterInv'
<1>1. CASE WriteBox
  BY <1>1, WriteBoxWriter
<1>2. CASE CloseBox
  BY <1>2, CloseBoxWriter
<1>3. CASE Grow
  <2>1. writers' = <<>> /\ next' = 1 /\ Len(buf') = 0
    BY <1>3 DEF Grow
  <2>2. (RoomInv /\ writers = <<>> /\ next = 1 /\ Len(buf) = 0)' => WriterInv'
    BY WriterInit, PTL
  <2> QED  BY <2>1, <2>2
<1>4. CASE Flush \/ GiveUp
  <2>1. phase' = "written"
    BY <1>4 DEF Flush, GiveUp
  <2> QED  BY <2>1 DEF WriterInv
<1>5. CASE phase # "writing" /\ phase' # "writing"
  BY <1>5 DEF WriterInv
<1>6. CASE UNCHANGED vars
  BY <1>6 DEF vars, writeVars, WriterInv, At, InBuf, StillOpen, Writes
<1>7. ASSUME \/ OpenEmpty
             \/ \E words \in 1 .. Len(file) : Open(words)
             \/ \E at \in 1 .. Len(file), word \in Lost : OpenDamaged(at, word)
      PROVE  phase # "writing" /\ phase' # "writing"
  BY <1>7 DEF OpenEmpty, Open, OpenDamaged, Start
<1>8. ASSUME Read PROVE phase # "writing" /\ phase' # "writing"
  BY <1>8 DEF Read, ReadBad, ReadTruncated, Enter, ReadLeaf, ReadTable, ReadAll, Whole,
              More, Refuse, Return, Skip
<1> QED  BY <1>1, <1>2, <1>3, <1>4, <1>5, <1>6, <1>7, <1>8 DEF Next, Write

(* What the words of a box of a tree say, in memory or in the file.        *)
Is(words, at, word) == at \in 1 .. Len(words) => words[at] = word

Holds(words, base) ==
  \A i \in 1 .. Len(tree) :
    At(i + 1) # At(i) =>
      /\ Is(words, base + At(i) + 1, SizeOf(tree, i))
      /\ Is(words, base + At(i) + 2, tree[i].kind)
      /\ tree[i].kind = Table => Is(words, base + At(i) + 4, tree[i].words)

MoovWords == WordsTo(tree)[Len(tree)]

(* Once all is written, every box has its size.                            *)
LEMMA ReadyHolds ==
  ASSUME RoomInv, WriterInv, Ready
  PROVE  Len(buf) = MoovWords /\ Holds(buf, 0)
<1>1. /\ phase = "writing" /\ ~Pending /\ writers = <<>> /\ tree \in Trees /\ Len(writers) = 0
  BY DEF Ready, RoomInv
<1>2. /\ next \in 1 .. Len(tree) + 1 /\ Len(buf) = At(next)
      /\ next <= Len(tree) => tree[next].level <= 0 + 1
      /\ \A i \in 1 .. next - 1 : At(i + 1) # At(i) => InBuf(i)
  BY <1>1 DEF WriterInv
<1>3. Len(tree) \in Nat /\ \A k \in 1 .. Len(tree) : tree[k].level \in Nat \ {0}
  BY <1>1, TreeBoxes
<1>4. next = Len(tree) + 1
  <2> SUFFICES ASSUME next <= Len(tree) PROVE FALSE
    BY <1>2, <1>3
  <2>1. next \in 1 .. Len(tree) /\ tree[next].level # 0 + 1
    BY <1>1, <1>2, <1>3 DEF Pending
  <2> QED  BY <1>2, <1>3, <2>1
<1>5. Len(buf) = MoovWords
  <2>1. next - 1 = Len(tree)
    BY <1>3, <1>4
  <2> QED  BY <1>2, <2>1 DEF At, MoovWords
<1>6. ASSUME NEW i \in 1 .. Len(tree), At(i + 1) # At(i)
      PROVE  /\ buf[At(i) + 1] = SizeOf(tree, i) /\ buf[At(i) + 2] = tree[i].kind
             /\ tree[i].kind = Table => buf[At(i) + 4] = tree[i].words
  <2>1. i \in 1 .. next - 1
    BY <1>3, <1>4
  <2>2. InBuf(i)
    BY <1>2, <1>6, <2>1
  <2>3. ~StillOpen(i)
    BY <1>1 DEF StillOpen
  <2> QED  BY <2>2, <2>3 DEF InBuf
<1>7. \A i \in 1 .. Len(tree) : At(i) \in Nat
  <2> SUFFICES ASSUME NEW i \in 1 .. Len(tree) PROVE At(i) \in Nat
    OBVIOUS
  <2>1. i + 1 \in i + 1 .. Len(tree) + 1
    BY <1>3
  <2> QED  BY <1>1, <2>1, AtGrows
<1>8. Holds(buf, 0)
  <2> SUFFICES ASSUME NEW i \in 1 .. Len(tree), At(i + 1) # At(i)
               PROVE  /\ Is(buf, 0 + At(i) + 1, SizeOf(tree, i))
                      /\ Is(buf, 0 + At(i) + 2, tree[i].kind)
                      /\ tree[i].kind = Table => Is(buf, 0 + At(i) + 4, tree[i].words)
    BY DEF Holds
  <2>1. 0 + At(i) = At(i)
    BY <1>7
  <2> QED  BY <1>6, <2>1 DEF Is
<1> QED  BY <1>5, <1>8

-----------------------------------------------------------------------------
(***************************************************************************)
(* The file.  Its places are where the boxes of the root may begin, in     *)
(* words: what a word of the file says is said of the file when it is not  *)
(* cut before that word.                                                   *)
(***************************************************************************)
OffKinds(words, at) == at \in 1 .. Len(words) => words[at] \notin Kinds

(* A box from p to q that is no part of a moov.                            *)
Plain(words, p, q) ==
  /\ OffKinds(words, p + 2)
  /\ \/ Is(words, p + 1, 4 * (q - p)) /\ p + 2 <= q
     \/ /\ Is(words, p + 1, Large) /\ Is(words, p + 3, 0)
        /\ Is(words, p + 4, 4 * (q - p)) /\ p + 4 <= q

(* The word of padding that has no room for a box.                         *)
Leftover(words, p) ==
  /\ p > 0 /\ Len(words) <= p + 6
  /\ p + 1 \in 1 .. Len(words) => words[p + 1] \in Stale

MoovAt(end) == end \div 4 - MoovWords

Place(words, end, B, p) ==
  \/ Len(words) <= p
  \/ /\ \E q \in B : /\ Plain(words, p, q)
                     /\ end > 0 /\ 4 * p < end => q <= MoovAt(end)
  \/ /\ end > 0 /\ p = MoovAt(end) /\ p >= 2 /\ Holds(words, p) /\ end = 4 * (p + MoovWords)
     /\ p + MoovWords \in B
  \/ end > 0 /\ 4 * p >= end /\ Leftover(words, p)

Places(words, end, B) ==
  /\ B \subseteq Nat /\ 0 \in B /\ Is(words, 2, Ftyp)
  /\ \A p \in B : Place(words, end, B, p)

(* No word behind the moov is taken for the type of a box of it.           *)
Behind(words, end) ==
  end > 0 => /\ MoovAt(end) \in Nat /\ MoovAt(end) >= 2
             /\ end = 4 * (MoovAt(end) + MoovWords)
             /\ \A k \in 1 .. Len(words) : 4 * k >= end + 8 => words[k] \notin Kinds

InPlace(words, end) == Behind(words, end) /\ \E B : Places(words, end, B)

(* The words of two sequences that are joined.                             *)
LEMMA Joined ==
  ASSUME NEW a \in Seq(Nat), NEW b \in Seq(Nat)
  PROVE  /\ a \o b \in Seq(Nat) /\ Len(a \o b) = Len(a) + Len(b)
         /\ \A k \in 1 .. Len(a) : (a \o b)[k] = a[k]
         /\ \A k \in 1 .. Len(b) : (a \o b)[Len(a) + k] = b[k]
  OBVIOUS

LEMMA JoinedAt ==
  ASSUME NEW a \in Seq(Nat), NEW b \in Seq(Nat), NEW n, n = Len(a)
  PROVE  /\ a \o b \in Seq(Nat) /\ Len(a \o b) = n + Len(b)
         /\ \A k \in 1 .. n : (a \o b)[k] = a[k]
         /\ \A k \in 1 .. Len(b) : (a \o b)[n + k] = b[k]
  BY Joined

LEMMA BoxWords ==
  ASSUME NEW type \in Nat, NEW words \in Seq(Nat)
  PROVE  /\ Box(type, words) \in Seq(Nat) /\ Len(Box(type, words)) = 2 + Len(words)
         /\ Box(type, words)[1] = 8 + 4 * Len(words) /\ Box(type, words)[2] = type
         /\ \A k \in 1 .. Len(words) : Box(type, words)[2 + k] = words[k]
<1> DEFINE h == <<8 + 4 * Len(words), type>>
<1>1. h \in Seq(Nat) /\ Len(h) = 2 /\ h[1] = 8 + 4 * Len(words) /\ h[2] = type
  OBVIOUS
<1>2. Box(type, words) = h \o words
  BY DEF Box, Bytes, Header
<1> HIDE DEF h
<1>3. /\ h \o words \in Seq(Nat) /\ Len(h \o words) = 2 + Len(words)
      /\ \A k \in 1 .. 2 : (h \o words)[k] = h[k]
      /\ \A k \in 1 .. Len(words) : (h \o words)[2 + k] = words[k]
  <2> DEFINE n == 2
  <2>1. h \in Seq(Nat) /\ n = Len(h)
    BY <1>1
  <2> HIDE DEF n
  <2>2. /\ h \o words \in Seq(Nat) /\ Len(h \o words) = n + Len(words)
        /\ \A k \in 1 .. n : (h \o words)[k] = h[k]
        /\ \A k \in 1 .. Len(words) : (h \o words)[n + k] = words[k]
    BY <2>1, JoinedAt
  <2> QED  BY <2>2 DEF n
<1>4. 1 \in 1 .. 2 /\ 2 \in 1 .. 2
  OBVIOUS
<1> QED  BY <1>1, <1>2, <1>3, <1>4

(* A free box of n words.                                                  *)
LEMMA FreeWords ==
  ASSUME NEW n \in Nat, n >= 2
  PROVE  LET b == Box(Free, Copies(Body, (4 * n - Header) \div 4))
         IN  /\ b \in Seq(Nat) /\ Len(b) = n /\ b[1] = 4 * n
             /\ \A k \in 2 .. n : b[k] \notin Kinds
<1> DEFINE c == Copies(Body, n - 2)
           b == Box(Free, c)
<1>1. (4 * n - Header) \div 4 = n - 2
  BY DEF Header
<1>2. /\ Body \in Nat /\ Free \in Nat /\ Free \notin Kinds /\ Body \notin Kinds
  BY WordAssumption
<1>3. c \in Seq(Nat) /\ Len(c) = n - 2 /\ \A k \in 1 .. n - 2 : c[k] = Body
  BY <1>2 DEF Copies
<1> HIDE DEF c
<1>4. /\ b \in Seq(Nat) /\ Len(b) = 2 + Len(c) /\ b[1] = 8 + 4 * Len(c) /\ b[2] = Free
      /\ \A k \in 1 .. Len(c) : b[2 + k] = c[k]
  BY <1>2, <1>3, BoxWords
<1> HIDE DEF b
<1>5. Len(b) = n /\ b[1] = 4 * n
  BY <1>3, <1>4
<1>6. ASSUME NEW k \in 2 .. n PROVE b[k] \notin Kinds
  <2>1. CASE k = 2
    BY <1>2, <1>4, <2>1
  <2>2. CASE k # 2
    <3> DEFINE l == k - 2
    <3>1. l \in 1 .. n - 2 /\ k = 2 + l
      BY <2>2
    <3> HIDE DEF l
    <3>2. b[2 + l] = Body
      BY <1>3, <1>4, <3>1
    <3> QED  BY <1>2, <3>1, <3>2
  <2> QED  BY <2>1, <2>2
<1> QED  BY <1>1, <1>4, <1>5, <1>6 DEF b, c

(* The 'mdat', in one box or behind a 'free'.                              *)
LEMMA MdatWords ==
  ASSUME NEW wide \in BOOLEAN
  PROVE  /\ MdatBoxes(wide) \in Seq(Nat) /\ Len(MdatBoxes(wide)) = 5
         /\ \A k \in 1 .. 5 : MdatBoxes(wide)[k] \notin Kinds
         /\ wide => /\ MdatBoxes(wide)[1] = 1 /\ MdatBoxes(wide)[3] = 0
                    /\ MdatBoxes(wide)[4] = 20
         /\ ~wide => MdatBoxes(wide)[1] = 8 /\ MdatBoxes(wide)[3] = 12
<1>1. /\ Body \in Nat /\ Free \in Nat /\ Mdat \in Nat
      /\ Free \notin Kinds /\ Body \notin Kinds /\ Mdat \notin Kinds
      /\ \A n \in 0 .. 20 : n \notin Kinds
  <2>1. \A n \in 0 .. 20 : n \notin Kinds
    <3> SUFFICES ASSUME NEW n \in 0 .. 20, n \in Kinds PROVE FALSE
      OBVIOUS
    <3>1. n > 20
      BY WordAssumption
    <3> QED  BY <3>1
  <2> QED  BY <2>1, WordAssumption
<1>2. CASE wide
  <2>1. MdatBoxes(wide) = <<1, Mdat, 0, 20, Body>>
    BY <1>2 DEF MdatBoxes, Large, Header
  <2>2. 1 \notin Kinds /\ 0 \notin Kinds /\ 20 \notin Kinds
    BY <1>1
  <2> DEFINE s == <<1, Mdat, 0, 20, Body>>
  <2>3. /\ s \in Seq(Nat) /\ Len(s) = 5
        /\ s[1] = 1 /\ s[2] = Mdat /\ s[3] = 0 /\ s[4] = 20 /\ s[5] = Body
    BY <1>1
  <2> HIDE DEF s
  <2>4. \A k \in 1 .. 5 : k = 1 \/ k = 2 \/ k = 3 \/ k = 4 \/ k = 5
    OBVIOUS
  <2>5. \A k \in 1 .. 5 : s[k] \notin Kinds
    BY <1>1, <2>2, <2>3, <2>4
  <2> QED  BY <1>2, <2>1, <2>3, <2>5 DEF s
<1>3. CASE ~wide
  <2>1. MdatBoxes(wide) = Box(Free, <<>>) \o Box(Mdat, <<Body>>)
    BY <1>3 DEF MdatBoxes
  <2> DEFINE f == Box(Free, <<>>)
             m == Box(Mdat, <<Body>>)
             s == MdatBoxes(wide)
  <2>2. f \in Seq(Nat) /\ Len(f) = 2 /\ f[1] = 8 /\ f[2] = Free
    <3> DEFINE w == <<>>
    <3>1. w \in Seq(Nat) /\ Len(w) = 0
      OBVIOUS
    <3> HIDE DEF w
    <3>2. /\ Box(Free, w) \in Seq(Nat) /\ Len(Box(Free, w)) = 2 + Len(w)
          /\ Box(Free, w)[1] = 8 + 4 * Len(w) /\ Box(Free, w)[2] = Free
      BY <1>1, <3>1, BoxWords
    <3> QED  BY <3>1, <3>2 DEF w, f
  <2>3. m \in Seq(Nat) /\ Len(m) = 3 /\ m[1] = 12 /\ m[2] = Mdat /\ m[3] = Body
    <3> DEFINE w == <<Body>>
    <3>1. w \in Seq(Nat) /\ Len(w) = 1 /\ w[1] = Body
      BY <1>1
    <3> HIDE DEF w
    <3>2. /\ Box(Mdat, w) \in Seq(Nat) /\ Len(Box(Mdat, w)) = 2 + Len(w)
          /\ Box(Mdat, w)[1] = 8 + 4 * Len(w) /\ Box(Mdat, w)[2] = Mdat
          /\ \A k \in 1 .. Len(w) : Box(Mdat, w)[2 + k] = w[k]
      BY <1>1, <3>1, BoxWords
    <3>3. 1 \in 1 .. Len(w) /\ 2 + 1 = 3
      BY <3>1
    <3>4. Box(Mdat, w)[2 + 1] = w[1]
      BY <3>2, <3>3
    <3> QED  BY <3>1, <3>2, <3>3, <3>4 DEF w
  <2>4. 8 \notin Kinds /\ 12 \notin Kinds
    BY <1>1
  <2> HIDE DEF f, m, s
  <2>5. s = f \o m
    BY <2>1 DEF f, m, s
  <2>6. /\ s \in Seq(Nat) /\ Len(s) = 5
        /\ s[1] = 8 /\ s[2] = Free /\ s[3] = 12 /\ s[4] = Mdat /\ s[5] = Body
    <3>1. /\ s \in Seq(Nat) /\ Len(s) = 2 + 3
          /\ \A k \in 1 .. 2 : s[k] = f[k]
          /\ \A k \in 1 .. 3 : s[2 + k] = m[k]
      <4> DEFINE n == 2
      <4>1. n = Len(f) /\ f \in Seq(Nat) /\ m \in Seq(Nat)
        BY <2>2, <2>3
      <4> HIDE DEF n
      <4>2. /\ f \o m \in Seq(Nat) /\ Len(f \o m) = n + Len(m)
            /\ \A k \in 1 .. n : (f \o m)[k] = f[k]
            /\ \A k \in 1 .. Len(m) : (f \o m)[n + k] = m[k]
        BY <4>1, JoinedAt
      <4> QED  BY <2>3, <2>5, <4>2 DEF n
    <3>2. s[2 + 1] = m[1] /\ s[2 + 2] = m[2] /\ s[2 + 3] = m[3]
      BY <3>1
    <3>3. s[1] = f[1] /\ s[2] = f[2]
      BY <3>1
    <3> QED  BY <2>2, <2>3, <3>1, <3>2, <3>3
  <2>7. \A k \in 1 .. 5 : k = 1 \/ k = 2 \/ k = 3 \/ k = 4 \/ k = 5
    OBVIOUS
  <2>8. \A k \in 1 .. 5 : s[k] \notin Kinds
    BY <1>1, <2>4, <2>6, <2>7
  <2> QED  BY <1>3, <2>6, <2>8 DEF s
<1> QED  BY <1>2, <1>3

(* The places of the 'mdat' that begins at word d.                         *)
MdatPlaces(wide, d) == IF wide THEN {d, d + 5} ELSE {d, d + 2, d + 5}

LEMMA MdatInPlace ==
  ASSUME NEW wide \in BOOLEAN, NEW words \in Seq(Nat), NEW d \in Nat,
         Len(words) >= d + 5, \A k \in 1 .. 5 : words[d + k] = MdatBoxes(wide)[k],
         NEW p \in MdatPlaces(wide, d), p # d + 5
  PROVE  p \in Nat /\ \E q \in MdatPlaces(wide, d) : p < q /\ q <= d + 5 /\ Plain(words, p, q)
<1>1. Len(words) \in Nat
  OBVIOUS
<1>2. \A k \in 1 .. 5 : words[d + k] \notin Kinds
  BY MdatWords
<1>3. CASE wide
  <2>1. p = d /\ d + 5 \in MdatPlaces(wide, d)
    BY <1>3 DEF MdatPlaces
  <2>2. MdatBoxes(wide)[1] = 1 /\ MdatBoxes(wide)[3] = 0 /\ MdatBoxes(wide)[4] = 20
    BY <1>3, MdatWords
  <2>3. /\ words[d + 1] = 1 /\ words[d + 3] = 0 /\ words[d + 4] = 20
        /\ words[d + 2] \notin Kinds
    <3>1. 1 \in 1 .. 5 /\ 4 \in 1 .. 5 /\ 2 \in 1 .. 5 /\ 3 \in 1 .. 5
      OBVIOUS
    <3> QED  BY <1>2, <2>2, <3>1
  <2>4. 4 * ((d + 5) - d) = 20 /\ d + 4 <= d + 5
    OBVIOUS
  <2>5. Plain(words, d, d + 5)
    BY <2>3, <2>4 DEF Plain, OffKinds, Is, Large
  <2> QED  BY <2>1, <2>5
<1>4. CASE ~wide
  <2>1. p \in {d, d + 2} /\ {d + 2, d + 5} \subseteq MdatPlaces(wide, d)
    BY <1>4 DEF MdatPlaces
  <2>2. MdatBoxes(wide)[1] = 8 /\ MdatBoxes(wide)[3] = 12
    BY <1>4, MdatWords
  <2>3. words[d + 1] = 8 /\ words[d + 3] = 12 /\ words[d + 2] \notin Kinds
        /\ words[d + 4] \notin Kinds
    <3>1. 1 \in 1 .. 5 /\ 4 \in 1 .. 5 /\ 2 \in 1 .. 5 /\ 3 \in 1 .. 5
      OBVIOUS
    <3> QED  BY <1>2, <2>2, <3>1
  <2>4. 4 * ((d + 2) - d) = 8 /\ 4 * ((d + 5) - (d + 2)) = 12 /\ (d + 2) + 1 = d + 3
        /\ (d + 2) + 2 = d + 4 /\ (d + 2) + 2 <= d + 5 /\ d + 2 <= d + 2
    OBVIOUS
  <2>5. Plain(words, d, d + 2)
    BY <2>3, <2>4 DEF Plain, OffKinds, Is
  <2>6. Plain(words, d + 2, d + 5)
    BY <2>3, <2>4 DEF Plain, OffKinds, Is
  <2>7. CASE p = d
    <3>1. d < d + 2 /\ d + 2 <= d + 5 /\ d + 2 \in MdatPlaces(wide, d)
      BY <2>1
    <3> QED  BY <2>5, <2>7, <3>1
  <2>8. CASE p = d + 2
    <3>1. d + 2 < d + 5 /\ d + 5 <= d + 5 /\ d + 5 \in MdatPlaces(wide, d) /\ d + 2 \in Nat
      BY <2>1
    <3> QED  BY <2>6, <2>8, <3>1
  <2> QED  BY <2>1, <2>7, <2>8
<1> QED  BY <1>3, <1>4

(* A file that is cut still says what it says.                             *)
LEMMA CutInPlace ==
  ASSUME NEW words \in Seq(Nat), NEW end, InPlace(words, end),
         NEW cut \in Seq(Nat), Len(cut) <= Len(words),
         \A k \in 1 .. Len(cut) : cut[k] = words[k]
  PROVE  InPlace(cut, end)
<1>1. Len(words) \in Nat /\ Len(cut) \in Nat /\ \A k \in 1 .. Len(cut) : k \in 1 .. Len(words)
  OBVIOUS
<1>2. \A at, word : Is(words, at, word) => Is(cut, at, word)
  BY <1>1 DEF Is
<1>3. \A at : OffKinds(words, at) => OffKinds(cut, at)
  BY <1>1 DEF OffKinds
<1>4. Behind(cut, end)
  BY <1>1 DEF InPlace, Behind
<1>5. PICK B : Places(words, end, B)
  BY DEF InPlace
<1>6. \A p, q : Plain(words, p, q) => Plain(cut, p, q)
  BY <1>2, <1>3 DEF Plain
<1>7. \A p : Holds(words, p) => Holds(cut, p)
  BY <1>2 DEF Holds
<1>8. ASSUME NEW p \in B PROVE Place(cut, end, B, p)
  <2>0. p \in Nat /\ Place(words, end, B, p)
    BY <1>5 DEF Places
  <2>1. CASE Len(words) <= p
    <3>1. Len(cut) <= p
      BY <1>1, <2>0, <2>1
    <3> QED  BY <3>1 DEF Place
  <2>2. CASE \E q \in B : /\ Plain(words, p, q)
                          /\ end > 0 /\ 4 * p < end => q <= MoovAt(end)
    BY <1>6, <2>2, Zenon DEF Place
  <2>3. CASE /\ end > 0 /\ p = MoovAt(end) /\ p >= 2 /\ Holds(words, p)
             /\ end = 4 * (p + MoovWords) /\ p + MoovWords \in B
    BY <1>7, <2>3, Zenon DEF Place
  <2>4. CASE end > 0 /\ 4 * p >= end /\ Leftover(words, p)
    <3>1. Leftover(cut, p)
      <4>1. Len(cut) <= p + 6
        BY <1>1, <2>0, <2>4 DEF Leftover
      <4>2. p + 1 \in 1 .. Len(cut) => cut[p + 1] \in Stale
        <5> DEFINE o == p + 1
        <5>1. o \in 1 .. Len(words) => words[o] \in Stale
          BY <2>4 DEF Leftover
        <5> HIDE DEF o
        <5>2. o \in 1 .. Len(cut) => cut[o] \in Stale
          BY <1>1, <5>1
        <5> QED  BY <5>2 DEF o
      <4> QED  BY <2>4, <4>1, <4>2 DEF Leftover
    <3> QED  BY <2>4, <3>1, Zenon DEF Place
  <2> QED  BY <2>0, <2>1, <2>2, <2>3, <2>4, Zenon DEF Place
<1>9. Places(cut, end, B)
  BY <1>2, <1>5, <1>8 DEF Places
<1> QED  BY <1>4, <1>9 DEF InPlace

IsThree(words, a, b, c) ==
  /\ words \in Seq(Nat)
  /\ Len(words) = Len(a) + Len(b) + Len(c)
  /\ \A k \in 1 .. Len(a) : words[k] = a[k]
  /\ \A k \in 1 .. Len(b) : words[Len(a) + k] = b[k]
  /\ \A k \in 1 .. Len(c) : words[Len(a) + Len(b) + k] = c[k]

IsFour(words, a, b, c, d) ==
  /\ words \in Seq(Nat)
  /\ Len(words) = Len(a) + Len(b) + Len(c) + Len(d)
  /\ \A k \in 1 .. Len(a) : words[k] = a[k]
  /\ \A k \in 1 .. Len(b) : words[Len(a) + k] = b[k]
  /\ \A k \in 1 .. Len(c) : words[Len(a) + Len(b) + k] = c[k]
  /\ \A k \in 1 .. Len(d) : words[Len(a) + Len(b) + Len(c) + k] = d[k]

LEMMA ThreeParts ==
  ASSUME NEW a \in Seq(Nat), NEW b \in Seq(Nat), NEW c \in Seq(Nat)
  PROVE  IsThree(a \o b \o c, a, b, c)
  BY DEF IsThree

LEMMA FourParts ==
  ASSUME NEW a \in Seq(Nat), NEW b \in Seq(Nat), NEW c \in Seq(Nat), NEW d \in Seq(Nat)
  PROVE  IsFour(a \o b \o c \o d, a, b, c, d)
  BY DEF IsFour

LEMMA MoovWordsType ==
  ASSUME tree \in Trees
  PROVE  /\ MoovWords \in Nat /\ MoovWords >= 2
         /\ \A a \in Nat : MoovAt(4 * (a + MoovWords)) = a
<1>1. MoovWords \in Nat /\ MoovWords >= 2
  BY SizeOfMoov DEF MoovWords
<1>2. ASSUME NEW a \in Nat PROVE (4 * (a + MoovWords)) \div 4 - MoovWords = a
  BY <1>1
<1> QED  BY <1>1, <1>2 DEF MoovAt

(* The moov in front of the samples.                                       *)
LEMMA FrontInPlace ==
  ASSUME tree \in Trees, NEW r \in Nat, r >= MoovWords, NEW wide \in BOOLEAN,
         NEW words \in Seq(Nat), Len(words) = 2 + r + 5,
         words[1] = 8, words[2] = Ftyp, Holds(words, 2),
         r - MoovWords >= 2 =>
           /\ words[2 + MoovWords + 1] = 4 * (r - MoovWords)
           /\ \A k \in 2 .. r - MoovWords : words[2 + MoovWords + k] \notin Kinds,
         r - MoovWords = 1 => words[2 + MoovWords + 1] \in Stale,
         \A k \in 1 .. 5 : words[2 + r + k] = MdatBoxes(wide)[k]
  PROVE  InPlace(words, 4 * (2 + MoovWords))
<1> DEFINE m   == MoovWords
           d   == 2 + r
           p2  == 2 + m
           end == 4 * (2 + m)
           B   == {0, 2, p2} \cup MdatPlaces(wide, d)
<1>1. m \in Nat /\ m >= 2 /\ MoovAt(end) = 2 /\ end > 0 /\ end = 4 * (2 + m) /\ r >= m
  <2>1. m \in Nat /\ m >= 2 /\ \A a \in Nat : MoovAt(4 * (a + m)) = a
    BY MoovWordsType
  <2>2. 2 \in Nat
    OBVIOUS
  <2>3. MoovAt(4 * (2 + m)) = 2
    BY <2>1, <2>2, Zenon
  <2> QED  BY <2>1, <2>3
<1>2. Behind(words, end)
  <2>1. ASSUME NEW k \in 1 .. Len(words), 4 * k >= end + 8 PROVE words[k] \notin Kinds
    <3>0. k >= 2 + m + 2 /\ k <= d + 5
      <4> HIDE DEF m
      <4> QED  BY <1>1, <2>1
    <3>1. CASE k <= d
      <4> DEFINE j == k - (2 + m)
      <4>1. j \in 2 .. r - m /\ 2 + m + j = k /\ r - m >= 2
        <5> HIDE DEF m
        <5> QED  BY <1>1, <3>0, <3>1
      <4>2. \A i \in 2 .. r - m : words[2 + m + i] \notin Kinds
        BY <4>1
      <4> HIDE DEF j, m
      <4>3. words[2 + m + j] \notin Kinds
        BY <4>1, <4>2
      <4> QED  BY <4>1, <4>3
    <3>2. CASE ~(k <= d)
      <4> DEFINE j == k - d
      <4>1. j \in 1 .. 5 /\ d + j = k
        <5> HIDE DEF m
        <5> QED  BY <1>1, <3>0, <3>2
      <4>2. words[d + j] = MdatBoxes(wide)[j] /\ MdatBoxes(wide)[j] \notin Kinds
        <5> HIDE DEF j
        <5> QED  BY <4>1, MdatWords
      <4> QED  BY <4>1, <4>2
    <3> QED  BY <3>1, <3>2
  <2> HIDE DEF end, m
  <2>2. end = 4 * (MoovAt(end) + m)
    <3>1. MoovAt(end) = 2 /\ end = 4 * (2 + m)
      BY <1>1
    <3> QED  BY ONLY <3>1, Zenon
  <2> QED  BY <1>1, <2>1, <2>2 DEF Behind, m
<1>3. B \subseteq Nat /\ 0 \in B
  <2>1. d \in Nat /\ d + 2 \in Nat /\ d + 5 \in Nat /\ p2 \in Nat
    <3> HIDE DEF m
    <3> QED  BY <1>1
  <2> HIDE DEF d, p2
  <2> QED  BY SMTT(30), <2>1 DEF MdatPlaces
<1>4. Is(words, 2, Ftyp)
  BY DEF Is
<1>5. ASSUME NEW p \in B PROVE Place(words, end, B, p)
  <2>1. CASE p = 0
    <3>1. Plain(words, 0, 2)
      <4>1. Ftyp \notin Kinds
        BY WordAssumption
      <4> QED  BY <4>1 DEF Plain, OffKinds, Is
    <3>2. 2 \in B /\ 2 <= MoovAt(end)
      BY <1>1
    <3> HIDE DEF B, end
    <3> QED  BY <2>1, <3>1, <3>2 DEF Place
  <2>2. CASE p = 2
    <3>1. p2 \in B
      OBVIOUS
    <3> HIDE DEF B
    <3> QED  BY <1>1, <2>2, <3>1 DEF Place
  <2>3. CASE p \in MdatPlaces(wide, d) /\ p = d + 5
    BY <2>3 DEF Place
  <2>4. CASE p \in MdatPlaces(wide, d) /\ p # d + 5
    <3>0. d \in Nat /\ Len(words) >= d + 5
      OBVIOUS
    <3>1. p \in Nat /\ \E q \in MdatPlaces(wide, d) : p < q /\ q <= d + 5 /\ Plain(words, p, q)
      <4> HIDE DEF d
      <4> QED  BY <2>4, <3>0, MdatInPlace DEF d
    <3>2. PICK q \in MdatPlaces(wide, d) : Plain(words, p, q)
      BY <3>1
    <3>3. ~(4 * p < end)
      <4>1. p >= d
        BY <2>4 DEF MdatPlaces
      <4> HIDE DEF m
      <4> QED  BY <1>1, <3>1, <4>1
    <3>4. q \in B
      BY <3>2
    <3> HIDE DEF B, end
    <3> QED  BY <3>2, <3>3, <3>4 DEF Place
  <2>5. CASE p = p2 /\ r - m = 0
    <3>1. p = d
      <4> HIDE DEF m
      <4> QED  BY <1>1, <2>5
    <3>2. p \in MdatPlaces(wide, d)
      BY <3>1 DEF MdatPlaces
    <3> HIDE DEF B, end, p2
    <3> QED  BY <2>3, <2>4, <3>2
  <2>6. CASE p = p2 /\ r - m = 1
    <3>1. Len(words) <= p + 6 /\ p > 0 /\ 4 * p >= end
      <4> HIDE DEF m
      <4> QED  BY <1>1, <2>6
    <3>2. words[p + 1] \in Stale
      BY <2>6
    <3>3. Leftover(words, p)
      BY <3>1, <3>2 DEF Leftover
    <3> HIDE DEF B, end
    <3> QED  BY <1>1, <3>1, <3>3 DEF Place
  <2>7. CASE p = p2 /\ r - m >= 2
    <3>1. words[p + 1] = 4 * (d - p) /\ p + 2 <= d /\ ~(4 * p < end)
      <4>1. words[2 + m + 1] = 4 * (r - m)
        BY <2>7
      <4> HIDE DEF m
      <4>2. d - p = r - m /\ p + 2 <= d /\ ~(4 * p < end) /\ p + 1 = 2 + m + 1
        BY <1>1, <2>7
      <4> QED  BY <4>1, <4>2
    <3>2. words[p + 2] \notin Kinds
      <4>1. 2 \in 2 .. r - m
        BY <1>1, <2>7
      <4>2. words[2 + m + 2] \notin Kinds
        BY <2>7, <4>1
      <4> QED  BY <2>7, <4>2
    <3>3. Plain(words, p, d)
      BY <3>1, <3>2 DEF Plain, OffKinds, Is
    <3>4. d \in B
      BY DEF MdatPlaces
    <3> HIDE DEF B, end
    <3> QED  BY <3>1, <3>3, <3>4 DEF Place
  <2>8. r - m = 0 \/ r - m = 1 \/ r - m >= 2
    BY <1>1
  <2> HIDE DEF end, d, p2
  <2> QED  BY <2>1, <2>2, <2>3, <2>4, <2>5, <2>6, <2>7, <2>8
<1> HIDE DEF B, end
<1>6. Places(words, end, B)
  BY <1>3, <1>4, <1>5 DEF Places
<1>7. InPlace(words, end)
  BY <1>2, <1>6 DEF InPlace
<1> QED  BY <1>7 DEF end

LEMMA BackNumbers ==
  ASSUME NEW r \in Nat, NEW m \in Nat
  PROVE  /\ r + 7 \in Nat /\ r + 7 + m \in Nat /\ r + 7 <= r + 7 + m
         /\ r + 7 + m = (r + 7) + m /\ r + 7 = (2 + r) + 5 /\ r + 7 >= 2 /\ 2 + r <= r + 7
         /\ 2 + r \in Nat /\ (2 + r) + 2 \in Nat /\ (2 + r) + 5 \in Nat
         /\ {r + 7 + m, 0, 2, 2 + r, (2 + r) + 2, (2 + r) + 5} \subseteq Nat
  OBVIOUS

(* The moov behind the samples, or none.                                   *)
LEMMA BackInPlace ==
  ASSUME tree \in Trees, NEW r \in Nat, r >= 2, NEW wide \in BOOLEAN,
         NEW words \in Seq(Nat), NEW end,
         words[1] = 8, words[2] = Ftyp, words[3] = 4 * r, words[4] \notin Kinds,
         \A k \in 1 .. 5 : words[2 + r + k] = MdatBoxes(wide)[k],
         \/ end = 0 /\ Len(words) = r + 7
         \/ /\ end = 4 * ((r + 7) + MoovWords) /\ Len(words) = r + 7 + MoovWords
            /\ Holds(words, r + 7)
  PROVE  InPlace(words, end)
<1> DEFINE m  == MoovWords
           d  == 2 + r
           e  == r + 7
           ee == r + 7 + m
           B  == {0, 2, ee} \cup MdatPlaces(wide, d)
<1>1. m \in Nat /\ m >= 2 /\ MoovAt(4 * (e + m)) = e /\ e \in Nat /\ ee \in Nat
      /\ (end > 0 => end = 4 * (e + m) /\ MoovAt(end) = e /\ Len(words) = ee) /\ end \in Nat /\ e = d + 5
      /\ Len(words) <= ee /\ Len(words) >= e
  <2>1. m \in Nat /\ m >= 2 /\ \A a \in Nat : MoovAt(4 * (a + m)) = a
    BY MoovWordsType
  <2>2. e \in Nat
    OBVIOUS
  <2>3. MoovAt(4 * (e + m)) = e
    <3> HIDE DEF e
    <3> QED  BY <2>1, <2>2, Zenon
  <2>4. \/ end = 0 /\ Len(words) = e
        \/ end = 4 * (e + m) /\ Len(words) = ee
    OBVIOUS
  <2>5. e = d + 5 /\ ee = e + m /\ ee \in Nat /\ e <= ee
    BY <2>1, BackNumbers
  <2> HIDE DEF m, d, e, ee
  <2>7. CASE end = 0 /\ Len(words) = e
    <3>1. end \in Nat /\ ~(end > 0)
      BY <2>7
    <3>2. Len(words) <= ee /\ Len(words) >= e
      <4> HIDE <2>4
      <4> QED  BY ONLY <2>2, <2>5, <2>7
    <3> QED  BY ONLY <2>1, <2>2, <2>3, <2>5, <3>1, <3>2
  <2>8. CASE end = 4 * (e + m) /\ Len(words) = ee
    <3>1. end \in Nat
      BY ONLY <2>1, <2>2, <2>8
    <3>2. Len(words) <= ee /\ Len(words) >= e
      BY ONLY <2>2, <2>5, <2>8
    <3>3. MoovAt(end) = e
      BY ONLY <2>3, <2>8
    <3> QED  BY ONLY <2>1, <2>2, <2>3, <2>5, <2>8, <3>1, <3>2, <3>3
  <2> QED  BY ONLY <2>4, <2>7, <2>8
<1>2. Behind(words, end)
  <2> HIDE DEF m
  <2>1. end > 0 => \A k \in 1 .. Len(words) : ~(4 * k >= end + 8)
    BY <1>1
  <2>2. end > 0 => end = 4 * (MoovAt(end) + m) /\ MoovAt(end) \in Nat /\ MoovAt(end) >= 2
    <3>1. e >= 2
      OBVIOUS
    <3> HIDE DEF e
    <3> QED  BY <1>1, <3>1
  <2> QED  BY <1>1, <2>1, <2>2 DEF Behind, m
<1>3. B \subseteq Nat /\ 0 \in B
  <2>1. B \subseteq {r + 7 + m, 0, 2, 2 + r, (2 + r) + 2, (2 + r) + 5}
    BY DEF MdatPlaces
  <2>2. m \in Nat
    BY <1>1
  <2>3. {r + 7 + m, 0, 2, 2 + r, (2 + r) + 2, (2 + r) + 5} \subseteq Nat
    <3> HIDE DEF m
    <3> QED  BY ONLY r \in Nat, <2>2, BackNumbers
  <2>4. B \subseteq Nat
    <3> HIDE DEF B, m
    <3> QED  BY ONLY <2>1, <2>3
  <2> QED  BY <2>4
<1>4. Is(words, 2, Ftyp)
  BY DEF Is
<1>5. ASSUME NEW p \in B PROVE Place(words, end, B, p)
  <2>1. CASE p = 0
    <3>1. Plain(words, 0, 2)
      <4>1. Ftyp \notin Kinds
        BY WordAssumption
      <4> QED  BY <4>1 DEF Plain, OffKinds, Is
    <3>2. 2 \in B /\ (end > 0 => 2 <= MoovAt(end))
      <4>1. e >= 2
        OBVIOUS
      <4> HIDE DEF e
      <4> QED  BY <1>1, <4>1
    <3> HIDE DEF B
    <3> QED  BY <2>1, <3>1, <3>2 DEF Place
  <2>2. CASE p = 2
    <3>1. Plain(words, 2, d)
      <4>1. 4 * (d - 2) = 4 * r /\ 2 + 2 <= d
        OBVIOUS
      <4>2. words[2 + 1] = 4 * r /\ words[2 + 2] \notin Kinds
        OBVIOUS
      <4> HIDE DEF d
      <4> QED  BY <4>1, <4>2 DEF Plain, OffKinds, Is
    <3>2. d \in B /\ (end > 0 => d <= MoovAt(end))
      <4>0. d \in MdatPlaces(wide, d)
        BY DEF MdatPlaces
      <4>1. d <= e /\ d \in MdatPlaces(wide, d)
        BY <4>0
      <4> HIDE DEF e, d
      <4> QED  BY <1>1, <4>1
    <3> HIDE DEF B
    <3> QED  BY <2>2, <3>1, <3>2 DEF Place
  <2>3. CASE p \in MdatPlaces(wide, d) /\ p # e
    <3>0. d \in Nat /\ Len(words) >= d + 5 /\ p # d + 5
      BY <1>1, <2>3
    <3>1. p \in Nat /\ \E q \in MdatPlaces(wide, d) : p < q /\ q <= d + 5 /\ Plain(words, p, q)
      <4> HIDE DEF d
      <4> QED  BY <2>3, <3>0, MdatInPlace DEF d
    <3>2. PICK q \in MdatPlaces(wide, d) : q <= d + 5 /\ Plain(words, p, q)
      BY <3>1
    <3>3. end > 0 => q <= MoovAt(end)
      BY <1>1, <3>2
    <3>4. q \in B
      BY <3>2
    <3> HIDE DEF B
    <3> QED  BY <3>2, <3>3, <3>4 DEF Place
  <2>4. CASE p = e
    <3>1. CASE end = 0
      <4>1. Len(words) <= p
        <5> HIDE DEF m
        <5> QED  BY <1>1, <2>4, <3>1 DEF m
      <4> HIDE DEF B
      <4> QED  BY <4>1 DEF Place
    <3>2. CASE end > 0
      <4>1. Holds(words, p) /\ p + m \in B /\ p >= 2
        BY <1>1, <2>4, <3>2
      <4> HIDE DEF B
      <4> QED  BY <1>1, <2>4, <3>2, <4>1 DEF Place
    <3> QED  BY <1>1, <3>1, <3>2
  <2>5. CASE p = ee
    BY <1>1, <2>5 DEF Place
  <2> HIDE DEF d, e, ee
  <2> QED  BY <2>1, <2>2, <2>3, <2>4, <2>5
<1> HIDE DEF B
<1>6. Places(words, end, B)
  BY <1>3, <1>4, <1>5 DEF Places
<1> QED  BY <1>2, <1>6 DEF InPlace

(* What the words in memory say, the same words in the file say.           *)
LEMMA HoldsInFile ==
  ASSUME tree \in Trees, NEW b \in Seq(Nat), Len(b) = MoovWords, Holds(b, 0),
         NEW base \in Nat, NEW words \in Seq(Nat),
         \A k \in 1 .. Len(b) : words[base + k] = b[k]
  PROVE  Holds(words, base)
<1> SUFFICES ASSUME NEW i \in 1 .. Len(tree), At(i + 1) # At(i)
             PROVE  /\ Is(words, base + At(i) + 1, SizeOf(tree, i))
                    /\ Is(words, base + At(i) + 2, tree[i].kind)
                    /\ tree[i].kind = Table =>
                         Is(words, base + At(i) + 4, tree[i].words)
  BY DEF Holds
<1>1. /\ At(i) \in Nat /\ At(i) + 2 <= MoovWords
      /\ tree[i].kind = Table => At(i) + 4 <= MoovWords
  <2>0. Len(tree) \in Nat /\ i + 1 \in i + 1 .. Len(tree) + 1
    BY TreeBoxes
  <2>1. /\ At(i) \in Nat /\ At(i + 1) \in Nat /\ At(i) + 2 <= At(i + 1)
        /\ tree[i].kind = Table => At(i) + 4 <= At(i + 1)
    BY <2>0, AtGrows
  <2>2. At(i + 1) <= MoovWords /\ MoovWords \in Nat
    <3>1. i \in 0 .. Len(tree) /\ Len(tree) \in 0 .. Len(tree) /\ i <= Len(tree)
      BY <2>0
    <3>2. WordsTo(tree)[i] <= WordsTo(tree)[Len(tree)] /\ WordsTo(tree)[Len(tree)] \in Nat
      BY <3>1, WordsToGrows
    <3>3. (i + 1) - 1 = i
      BY <2>0
    <3> QED  BY <3>2, <3>3 DEF At, MoovWords
  <2> QED  BY SMTT(30), <2>1, <2>2
<1> DEFINE a == At(i)
<1>2. /\ Is(b, 0 + a + 1, SizeOf(tree, i)) /\ Is(b, 0 + a + 2, tree[i].kind)
      /\ tree[i].kind = Table => Is(b, 0 + a + 4, tree[i].words)
  BY DEF Holds
<1>3. a \in Nat /\ Len(b) \in Nat /\ a + 2 <= Len(b) /\ (tree[i].kind = Table => a + 4 <= Len(b))
  BY <1>1
<1> HIDE DEF a
<1>4. ASSUME NEW o \in {1, 2, 4}, NEW w, a + o <= Len(b), Is(b, 0 + a + o, w)
      PROVE  Is(words, base + a + o, w)
  <2>1. a + o \in 1 .. Len(b) /\ 0 + a + o = a + o /\ base + a + o = base + (a + o)
    BY ONLY <1>3, o \in {1, 2, 4}, a + o <= Len(b), base \in Nat
  <2>2. b[a + o] = w
    BY <1>4, <2>1 DEF Is
  <2>3. words[base + (a + o)] = w
    BY <2>1, <2>2
  <2> QED  BY <2>1, <2>3 DEF Is
<1>5. a + 1 <= Len(b) /\ 1 \in {1, 2, 4} /\ 2 \in {1, 2, 4} /\ 4 \in {1, 2, 4}
  BY <1>3
<1>6. Is(words, base + a + 1, SizeOf(tree, i))
  BY ONLY <1>2, <1>4, <1>5, Zenon
<1>7. Is(words, base + a + 2, tree[i].kind)
  BY ONLY <1>2, <1>3, <1>4, <1>5, Zenon
<1>8. tree[i].kind = Table => Is(words, base + a + 4, tree[i].words)
  BY ONLY <1>2, <1>3, <1>4, <1>5, Zenon
<1> QED  BY <1>6, <1>7, <1>8 DEF a

(* The padding has the room that is left, a word of it what was there.     *)
LEMMA PaddingWords ==
  ASSUME NEW n \in Nat, NEW old \in Stale
  PROVE  LET b == Padding(4 * n, old)
         IN  /\ b \in Seq(Nat) /\ Len(b) = n
             /\ n >= 2 => b[1] = 4 * n /\ \A k \in 2 .. n : b[k] \notin Kinds
             /\ n = 1 => b[1] \in Stale
<1>1. CASE n >= 2
  <2>1. Padding(4 * n, old) = Box(Free, Copies(Body, (4 * n - Header) \div 4))
    BY <1>1 DEF Padding, Header
  <2> DEFINE b == Box(Free, Copies(Body, (4 * n - Header) \div 4))
  <2>2. /\ b \in Seq(Nat) /\ Len(b) = n /\ b[1] = 4 * n
        /\ \A k \in 2 .. n : b[k] \notin Kinds
    BY <1>1, FreeWords
  <2> HIDE DEF b
  <2>3. n # 1
    BY <1>1
  <2> QED  BY <2>1, <2>2, <2>3 DEF b
<1>2. CASE ~(n >= 2)
  <2>1. Padding(4 * n, old) = Copies(old, n)
    <3>1. ~(4 * n >= Header) /\ (4 * n) \div 4 = n
      BY <1>2 DEF Header
    <3> QED  BY <3>1 DEF Padding
  <2>2. old \in Nat
    BY WordAssumption
  <2>3. Copies(old, n) \in Seq(Nat) /\ Len(Copies(old, n)) = n
        /\ \A k \in 1 .. n : Copies(old, n)[k] = old
    BY <2>2 DEF Copies
  <2>4. n = 1 => Copies(old, n)[1] = old
    BY <2>3
  <2> QED  BY <1>2, <2>1, <2>3, <2>4
<1> QED  BY <1>1, <1>2

LEMMA FtypWords ==
  /\ Box(Ftyp, <<>>) \in Seq(Nat) /\ Len(Box(Ftyp, <<>>)) = 2
  /\ Box(Ftyp, <<>>)[1] = 8 /\ Box(Ftyp, <<>>)[2] = Ftyp
<1> DEFINE w == <<>>
<1>1. w \in Seq(Nat) /\ Len(w) = 0
  OBVIOUS
<1>2. Ftyp \in Nat
  BY WordAssumption
<1> HIDE DEF w
<1>3. /\ Box(Ftyp, w) \in Seq(Nat) /\ Len(Box(Ftyp, w)) = 2 + Len(w)
      /\ Box(Ftyp, w)[1] = 8 + 4 * Len(w) /\ Box(Ftyp, w)[2] = Ftyp
  BY <1>1, <1>2, BoxWords
<1> QED  BY <1>1, <1>3 DEF w

(* The room for the moov, in words.                                        *)
LEMMA ReserveWords ==
  ASSUME reserve \in Reserves
  PROVE  \E r \in Nat : /\ r >= 2 /\ reserve = 4 * r /\ Reserved \in Seq(Nat)
                        /\ Len(Reserved) = r /\ Reserved[1] = 4 * r
                        /\ Reserved[2] \notin Kinds
<1>1. reserve \in Nat /\ reserve >= 8 /\ reserve % 4 = 0
  BY TreeAssumption DEF Header
<1>2. PICK r \in Nat : r >= 2 /\ reserve = 4 * r
  <2>1. reserve \div 4 \in Nat /\ reserve \div 4 >= 2 /\ reserve = 4 * (reserve \div 4)
    BY <1>1
  <2> QED  BY <2>1
<1> DEFINE b == Box(Free, Copies(Body, (4 * r - Header) \div 4))
<1>3. b \in Seq(Nat) /\ Len(b) = r /\ b[1] = 4 * r /\ \A k \in 2 .. r : b[k] \notin Kinds
  BY <1>2, FreeWords
<1>4. Reserved = b
  BY <1>2 DEF Reserved
<1> HIDE DEF b
<1>5. 2 \in 2 .. r
  BY <1>2
<1>6. b[2] \notin Kinds
  BY <1>3, <1>5
<1> QED  BY <1>2, <1>3, <1>4, <1>6

(* The files that the muxer leaves, with the moov in front of the samples, *)
LEMMA FrontFile ==
  ASSUME tree \in Trees, reserve \in Reserves, NEW b \in Seq(Nat), Len(b) = MoovWords,
         Holds(b, 0), 4 * MoovWords <= reserve, NEW wide \in BOOLEAN, NEW old \in Stale,
         NEW words, words = Box(Ftyp, <<>>) \o b \o Padding(reserve - 4 * MoovWords, old)
                            \o MdatBoxes(wide)
  PROVE  InPlace(words, 4 * (2 + MoovWords))
<1>1. PICK r \in Nat : r >= 2 /\ reserve = 4 * r
  BY ReserveWords
<1> DEFINE m == MoovWords
           f == Box(Ftyp, <<>>)
           n == r - m
           p == Padding(reserve - 4 * m, old)
           d == MdatBoxes(wide)
<1>2. m \in Nat /\ n \in Nat /\ r >= m /\ reserve - 4 * m = 4 * n /\ m + n = r
  <2>1. m \in Nat
    BY MoovWordsType
  <2>2. 4 * m <= 4 * r
    BY <1>1
  <2> HIDE DEF m
  <2>3. n \in Nat /\ r >= m
    BY <2>1, <2>2
  <2> QED  BY <1>1, <2>1, <2>3
<1>3. f \in Seq(Nat) /\ Len(f) = 2 /\ f[1] = 8 /\ f[2] = Ftyp
  BY FtypWords
<1>4. d \in Seq(Nat) /\ Len(d) = 5
  BY MdatWords
<1>5. /\ p \in Seq(Nat) /\ Len(p) = n
      /\ n >= 2 => p[1] = 4 * n /\ \A k \in 2 .. n : p[k] \notin Kinds
      /\ n = 1 => p[1] \in Stale
  <2> HIDE DEF n
  <2> DEFINE q == Padding(4 * n, old)
  <2>1. /\ q \in Seq(Nat) /\ Len(q) = n
        /\ n >= 2 => q[1] = 4 * n /\ \A k \in 2 .. n : q[k] \notin Kinds
        /\ n = 1 => q[1] \in Stale
    BY <1>2, PaddingWords
  <2>2. p = q
    BY <1>2
  <2> HIDE DEF p, q
  <2> QED  BY <2>1, <2>2
<1> HIDE DEF f, p, d
<1>6. words = f \o b \o p \o d
  BY DEF f, p, d
<1>7. /\ words \in Seq(Nat)
      /\ Len(words) = Len(f) + Len(b) + Len(p) + Len(d)
      /\ \A k \in 1 .. Len(f) : words[k] = f[k]
      /\ \A k \in 1 .. Len(b) : words[Len(f) + k] = b[k]
      /\ \A k \in 1 .. Len(p) : words[Len(f) + Len(b) + k] = p[k]
      /\ \A k \in 1 .. Len(d) : words[Len(f) + Len(b) + Len(p) + k] = d[k]
  <2>1. IsFour(f \o b \o p \o d, f, b, p, d)
    BY ONLY <1>3, <1>4, <1>5, b \in Seq(Nat), FourParts, Zenon
  <2>2. IsFour(words, f, b, p, d)
    BY ONLY <1>6, <2>1, Zenon
  <2> QED  BY ONLY <2>2, Zenon DEF IsFour
<1>8. Len(b) = m
  OBVIOUS
<1> HIDE DEF m, n
<1>9. /\ Len(words) = 2 + r + 5
      /\ 1 \in 1 .. Len(f) /\ 2 \in 1 .. Len(f)
  BY ONLY <1>2, <1>3, <1>4, <1>5, <1>7, <1>8, r \in Nat
<1>10. words[1] = 8 /\ words[2] = Ftyp
  BY <1>3, <1>7, <1>9
<1>11. \A k \in 1 .. Len(b) : words[2 + k] = b[k]
  BY ONLY <1>3, <1>7
<1>12. \A k \in 1 .. n : words[2 + m + k] = p[k]
  BY ONLY <1>3, <1>5, <1>7, <1>8
<1>13. \A k \in 1 .. 5 : words[2 + r + k] = MdatBoxes(wide)[k]
  <2>1. Len(f) + Len(b) + Len(p) = 2 + r
    BY ONLY <1>2, <1>3, <1>5, <1>8, r \in Nat
  <2> QED  BY ONLY <1>4, <1>7, <2>1 DEF d
<1>14. Holds(words, 2)
  <2>1. 2 \in Nat
    OBVIOUS
  <2> QED  BY <1>7, <1>11, <2>1, HoldsInFile
<1>15. n >= 2 => /\ words[2 + m + 1] = 4 * n
                 /\ \A k \in 2 .. n : words[2 + m + k] \notin Kinds
  <2> SUFFICES ASSUME n >= 2
               PROVE  /\ words[2 + m + 1] = 4 * n
                      /\ \A k \in 2 .. n : words[2 + m + k] \notin Kinds
    OBVIOUS
  <2>1. 1 \in 1 .. n /\ \A k \in 2 .. n : k \in 1 .. n
    BY <1>2
  <2> QED  BY ONLY <1>5, <1>12, <2>1, n >= 2
<1>16. n = 1 => words[2 + m + 1] \in Stale
  <2> SUFFICES ASSUME n = 1 PROVE words[2 + m + 1] \in Stale
    OBVIOUS
  <2>1. 1 \in 1 .. n
    OBVIOUS
  <2> QED  BY ONLY <1>5, <1>12, <2>1, n = 1
<1>17. InPlace(words, 4 * (2 + m))
  BY <1>2, <1>7, <1>9, <1>10, <1>13, <1>14, <1>15, <1>16, FrontInPlace, ZenonT(30) DEF n, m
<1> QED  BY <1>17 DEF m

(* with the moov behind them,                                              *)
LEMMA BackFile ==
  ASSUME tree \in Trees, reserve \in Reserves, NEW b \in Seq(Nat), Len(b) = MoovWords,
         Holds(b, 0), NEW wide \in BOOLEAN,
         NEW words, words = Box(Ftyp, <<>>) \o Reserved \o MdatBoxes(wide) \o b
  PROVE  words \in Seq(Nat) /\ InPlace(words, 4 * Len(words))
<1> DEFINE m == MoovWords
           f == Box(Ftyp, <<>>)
           p == Reserved
           d == MdatBoxes(wide)
<1>1. PICK r \in Nat : /\ r >= 2 /\ p \in Seq(Nat) /\ Len(p) = r /\ p[1] = 4 * r
                       /\ p[2] \notin Kinds
  BY ReserveWords
<1>2. m \in Nat
  BY MoovWordsType
<1>3. f \in Seq(Nat) /\ Len(f) = 2 /\ f[1] = 8 /\ f[2] = Ftyp
  BY FtypWords
<1>4. d \in Seq(Nat) /\ Len(d) = 5
  BY MdatWords
<1> HIDE DEF f, p, d
<1>6. words = f \o p \o d \o b
  BY DEF f, p, d
<1>7. /\ words \in Seq(Nat)
      /\ Len(words) = Len(f) + Len(p) + Len(d) + Len(b)
      /\ \A k \in 1 .. Len(f) : words[k] = f[k]
      /\ \A k \in 1 .. Len(p) : words[Len(f) + k] = p[k]
      /\ \A k \in 1 .. Len(d) : words[Len(f) + Len(p) + k] = d[k]
      /\ \A k \in 1 .. Len(b) : words[Len(f) + Len(p) + Len(d) + k] = b[k]
  <2>1. IsFour(f \o p \o d \o b, f, p, d, b)
    BY ONLY <1>1, <1>3, <1>4, b \in Seq(Nat), FourParts, Zenon
  <2>2. IsFour(words, f, p, d, b)
    BY ONLY <1>6, <2>1, Zenon
  <2> QED  BY ONLY <2>2, Zenon DEF IsFour
<1>8. Len(b) = m
  OBVIOUS
<1> HIDE DEF m
<1>9. /\ Len(words) = r + 7 + m /\ 4 * Len(words) = 4 * ((r + 7) + m)
      /\ 1 \in 1 .. Len(f) /\ 2 \in 1 .. Len(f) /\ 1 \in 1 .. r /\ 2 \in 1 .. r
      /\ Len(f) + 1 = 3 /\ Len(f) + 2 = 4 /\ Len(f) + Len(p) = 2 + r
      /\ Len(f) + Len(p) + Len(d) = r + 7
  BY ONLY <1>1, <1>2, <1>3, <1>4, <1>7, <1>8, r \in Nat
<1>10. words[1] = 8 /\ words[2] = Ftyp /\ words[3] = 4 * r /\ words[4] \notin Kinds
  <2>1. words[Len(f) + 1] = p[1] /\ words[Len(f) + 2] = p[2]
    BY <1>1, <1>7, <1>9
  <2> QED  BY <1>1, <1>3, <1>7, <1>9, <2>1
<1>11. \A k \in 1 .. Len(b) : words[(r + 7) + k] = b[k]
  BY ONLY <1>7, <1>9
<1>13. \A k \in 1 .. 5 : words[2 + r + k] = MdatBoxes(wide)[k]
  BY ONLY <1>4, <1>7, <1>9 DEF d
<1>14. Holds(words, r + 7)
  <2>1. r + 7 \in Nat
    OBVIOUS
  <2> QED  BY <1>7, <1>11, <2>1, HoldsInFile
<1> DEFINE end == 4 * Len(words)
<1>15. \/ end = 0 /\ Len(words) = r + 7
       \/ /\ end = 4 * ((r + 7) + m) /\ Len(words) = r + 7 + m
          /\ Holds(words, r + 7)
  BY <1>9, <1>14
<1> HIDE DEF end
<1>17. InPlace(words, end)
  BY ZenonT(40), <1>1, <1>7, <1>10, <1>13, <1>15, BackInPlace DEF m
<1> QED  BY <1>7, <1>17 DEF end

(* and without one.                                                        *)
LEMMA NoMoovFile ==
  ASSUME tree \in Trees, reserve \in Reserves, NEW wide \in BOOLEAN,
         NEW words, words = Box(Ftyp, <<>>) \o Reserved \o MdatBoxes(wide)
  PROVE  InPlace(words, 0)
<1> DEFINE f == Box(Ftyp, <<>>)
           p == Reserved
           d == MdatBoxes(wide)
<1>1. PICK r \in Nat : /\ r >= 2 /\ p \in Seq(Nat) /\ Len(p) = r /\ p[1] = 4 * r
                       /\ p[2] \notin Kinds
  BY ReserveWords
<1>3. f \in Seq(Nat) /\ Len(f) = 2 /\ f[1] = 8 /\ f[2] = Ftyp
  BY FtypWords
<1>4. d \in Seq(Nat) /\ Len(d) = 5
  BY MdatWords
<1> HIDE DEF f, p, d
<1>6. words = f \o p \o d
  BY DEF f, p, d
<1>7. /\ words \in Seq(Nat)
      /\ Len(words) = Len(f) + Len(p) + Len(d)
      /\ \A k \in 1 .. Len(f) : words[k] = f[k]
      /\ \A k \in 1 .. Len(p) : words[Len(f) + k] = p[k]
      /\ \A k \in 1 .. Len(d) : words[Len(f) + Len(p) + k] = d[k]
  <2>1. IsThree(f \o p \o d, f, p, d)
    BY ONLY <1>1, <1>3, <1>4, ThreeParts, Zenon
  <2>2. IsThree(words, f, p, d)
    BY ONLY <1>6, <2>1, Zenon
  <2> QED  BY ONLY <2>2, Zenon DEF IsThree
<1>9. /\ Len(words) = r + 7
      /\ 1 \in 1 .. Len(f) /\ 2 \in 1 .. Len(f) /\ 1 \in 1 .. r /\ 2 \in 1 .. r
      /\ Len(f) + 1 = 3 /\ Len(f) + 2 = 4 /\ Len(f) + Len(p) = 2 + r
  BY ONLY <1>1, <1>3, <1>4, <1>7, r \in Nat
<1>10. words[1] = 8 /\ words[2] = Ftyp /\ words[3] = 4 * r /\ words[4] \notin Kinds
  <2>1. words[Len(f) + 1] = p[1] /\ words[Len(f) + 2] = p[2]
    BY <1>1, <1>7, <1>9
  <2> QED  BY <1>1, <1>3, <1>7, <1>9, <2>1
<1>13. \A k \in 1 .. 5 : words[2 + r + k] = MdatBoxes(wide)[k]
  BY ONLY <1>4, <1>7, <1>9 DEF d
<1> DEFINE end == 0
<1>15. \/ end = 0 /\ Len(words) = r + 7
       \/ /\ end = 4 * ((r + 7) + MoovWords) /\ Len(words) = r + 7 + MoovWords
          /\ Holds(words, r + 7)
  BY <1>9
<1> HIDE DEF end
<1>17. InPlace(words, end)
  BY ZenonT(40), <1>1, <1>7, <1>10, <1>13, <1>15, BackInPlace
<1> QED  BY <1>17 DEF end

-----------------------------------------------------------------------------
PlacesInv ==
  /\ phase = "writing" => moovEnd = 0 /\ ~damaged
  /\ phase # "writing" /\ ~damaged => InPlace(file, moovEnd)

LEMMA SameTree ==
  ASSUME tree' = tree
  PROVE  /\ MoovWords' = MoovWords
         /\ \A e : MoovAt(e)' = MoovAt(e)
         /\ \A w, b : Holds(w, b)' <=> Holds(w, b)
         /\ \A w, e, B : Places(w, e, B)' <=> Places(w, e, B)
         /\ InPlace(file', moovEnd') => InPlace(file, moovEnd)'
<1>1. \A i : At(i)' = At(i)
  BY DEF At
<1>2. MoovWords' = MoovWords
  BY DEF MoovWords
<1>3. \A w, b : Holds(w, b)' <=> Holds(w, b)
  BY <1>1 DEF Holds
<1>4. \A e : MoovAt(e)' = MoovAt(e)
  BY <1>2 DEF MoovAt
<1>5. \A w, e : Behind(w, e)' <=> Behind(w, e)
  BY <1>2, <1>4 DEF Behind
<1>6. \A w, e, B, p : Place(w, e, B, p)' <=> Place(w, e, B, p)
  BY <1>2, <1>3, <1>4 DEF Place
<1>7. \A w, e, B : Places(w, e, B)' <=> Places(w, e, B)
  BY <1>6 DEF Places
<1>8. \A w, e : InPlace(w, e)' <=> InPlace(w, e)
  BY <1>5, <1>7 DEF InPlace
<1> QED  BY <1>2, <1>3, <1>4, <1>7, <1>8

LEMMA PlacesInit == Init => PlacesInv
  BY DEF Init, PlacesInv

LEMMA FlushPlaces ==
  ASSUME RoomInv, FileInv, WriterInv, PlacesInv, Flush
  PROVE  PlacesInv'
<1>1. /\ phase' = "written" /\ tree' = tree /\ damaged' = damaged /\ phase = "writing"
      /\ Ready
  BY DEF Flush, Ready, writeVars
<1>2. tree \in Trees /\ reserve \in Reserves /\ buf \in Seq(Nat) /\ ~damaged
  BY <1>1 DEF RoomInv, FileInv, PlacesInv
<1>3. Len(buf) = MoovWords /\ Holds(buf, 0)
  BY <1>1, ReadyHolds
<1>4. PICK wide \in BOOLEAN, old \in Stale :
        IF factor = 1
        THEN /\ file' = Box(Ftyp, <<>>) \o buf \o Padding(reserve - Bytes(buf), old)
                        \o MdatBoxes(wide)
             /\ moovEnd' = Header + Bytes(buf)
        ELSE /\ file' = Box(Ftyp, <<>>) \o Reserved \o MdatBoxes(wide) \o buf
             /\ moovEnd' = Bytes(file')
  BY DEF Flush
<1>5. PICK words, end : words = file' /\ end = moovEnd'
  OBVIOUS
<1>6. factor = 1 => InPlace(words, end)
  <2> SUFFICES ASSUME factor = 1 PROVE InPlace(words, end)
    OBVIOUS
  <2>1. MoovWords \in Nat /\ Bytes(buf) = 4 * MoovWords
    BY <1>2, <1>3, MoovWordsType DEF Bytes
  <2>2. 4 * MoovWords <= reserve
    <3>1. bufSize = Header + reserve /\ Bytes(buf) <= bufSize - Header
      BY DEF RoomInv, Limit
    <3>2. reserve \in Nat
      BY DEF RoomInv
    <3> QED  BY <2>1, <3>1, <3>2 DEF Header
  <2>3. /\ words = Box(Ftyp, <<>>) \o buf \o Padding(reserve - 4 * MoovWords, old)
                   \o MdatBoxes(wide)
        /\ end = Header + 4 * MoovWords
    BY <1>4, <1>5, <2>1
  <2>4. InPlace(words, 4 * (2 + MoovWords))
    BY <1>2, <1>3, <2>2, <2>3, FrontFile
  <2>5. end = 4 * (2 + MoovWords)
    <3> DEFINE m == MoovWords
    <3>1. m \in Nat /\ end = 8 + 4 * m
      BY <2>1, <2>3 DEF Header
    <3> HIDE DEF m
    <3>2. end = 4 * (2 + m)
      BY <3>1
    <3> QED  BY <3>2 DEF m
  <2> QED  BY ONLY <2>4, <2>5, Zenon
<1>7. factor # 1 => InPlace(words, end)
  <2> SUFFICES ASSUME factor # 1 PROVE InPlace(words, end)
    OBVIOUS
  <2>1. words = Box(Ftyp, <<>>) \o Reserved \o MdatBoxes(wide) \o buf
    BY <1>4, <1>5
  <2>2. end = 4 * Len(words)
    BY <1>4, <1>5 DEF Bytes
  <2>3. InPlace(words, 4 * Len(words))
    BY <1>2, <1>3, <2>1, BackFile
  <2> QED  BY ONLY <2>2, <2>3, Zenon
<1>8. InPlace(words, end)
  BY ONLY <1>6, <1>7, Zenon
<1>9. InPlace(file, moovEnd)'
  BY <1>1, <1>5, <1>8, SameTree
<1> QED  BY <1>1, <1>9 DEF PlacesInv

LEMMA GiveUpPlaces ==
  ASSUME RoomInv, FileInv, PlacesInv, GiveUp
  PROVE  PlacesInv'
<1>1. /\ phase' = "written" /\ tree' = tree /\ damaged' = damaged /\ phase = "writing"
      /\ moovEnd' = moovEnd
  BY DEF GiveUp, Ready, NoSpace, writeVars
<1>2. tree \in Trees /\ reserve \in Reserves /\ ~damaged /\ moovEnd' = 0
  BY <1>1 DEF RoomInv, FileInv, PlacesInv
<1>4. PICK wide \in BOOLEAN : file' = Box(Ftyp, <<>>) \o Reserved \o MdatBoxes(wide)
  BY DEF GiveUp
<1>5. PICK words, end : words = file' /\ end = moovEnd'
  OBVIOUS
<1>8. InPlace(words, end)
  BY <1>2, <1>4, <1>5, NoMoovFile
<1>9. InPlace(file, moovEnd)'
  BY <1>1, <1>5, <1>8, SameTree
<1> QED  BY <1>1, <1>9 DEF PlacesInv

(* The file stays in place, cut or not, until a word of it is lost.        *)
LEMMA PlacesStep ==
  ASSUME RoomInv, FileInv, FileInv', WriterInv, PlacesInv, [Next]_vars
  PROVE  PlacesInv'
<1>1. CASE WriteBox \/ CloseBox \/ Grow
  BY <1>1 DEF WriteBox, CloseBox, Grow, NoSpace, PlacesInv, fileVars
<1>2. CASE Flush
  BY <1>2, FlushPlaces
<1>3. CASE GiveUp
  BY <1>3, GiveUpPlaces
<1>4. ASSUME phase # "writing", phase' # "writing", tree' = tree, moovEnd' = moovEnd,
             damaged' = damaged, Len(file') <= Len(file),
             \A k \in 1 .. Len(file') : file'[k] = file[k]
      PROVE  PlacesInv'
  <2>1. PICK cut, end : cut = file' /\ end = moovEnd'
    OBVIOUS
  <2>2. file \in Seq(Nat) /\ cut \in Seq(Nat)
    BY <2>1 DEF FileInv
  <2>3. CASE damaged
    BY <1>4, <2>3 DEF PlacesInv
  <2>4. CASE ~damaged
    <3>1. InPlace(file, end)
      BY <1>4, <2>1, <2>4 DEF PlacesInv
    <3>2. Len(cut) <= Len(file) /\ \A k \in 1 .. Len(cut) : cut[k] = file[k]
      BY <1>4, <2>1
    <3>3. InPlace(cut, end)
      BY <2>2, <3>1, <3>2, CutInPlace
    <3>4. InPlace(file, moovEnd)'
      BY <1>4, <2>1, <3>3, SameTree
    <3> QED  BY <1>4, <3>4 DEF PlacesInv
  <2> QED  BY <2>3, <2>4
<1>0. file \in Seq(Nat)
  BY DEF FileInv
<1>5. CASE OpenEmpty
  <2>1. phase = "written" /\ phase' = "refused" /\ tree' = tree /\ moovEnd' = moovEnd
        /\ damaged' = damaged /\ file' = <<>>
    BY <1>5 DEF OpenEmpty, writeVars
  <2>2. Len(file') <= Len(file) /\ \A k \in 1 .. Len(file') : file'[k] = file[k]
    BY <1>0, <2>1
  <2> QED  BY <1>4, <2>1, <2>2
<1>6. ASSUME NEW words \in 1 .. Len(file), Open(words) PROVE PlacesInv'
  <2>1. phase = "written" /\ phase' = "reading" /\ tree' = tree /\ moovEnd' = moovEnd
        /\ damaged' = damaged /\ file' = SubSeq(file, 1, words)
    BY <1>6 DEF Open, Start, writeVars
  <2>2. Len(file') <= Len(file) /\ \A k \in 1 .. Len(file') : file'[k] = file[k]
    BY <1>0, <2>1
  <2> QED  BY <1>4, <2>1, <2>2
<1>7. ASSUME NEW at \in 1 .. Len(file), NEW word \in Lost, OpenDamaged(at, word)
      PROVE PlacesInv'
  BY <1>7 DEF OpenDamaged, Start, PlacesInv
<1>8. CASE Read
  <2>1. phase = "reading" /\ phase' # "writing" /\ file' = file /\ moovEnd' = moovEnd
        /\ damaged' = damaged /\ tree' = tree
    <3>1. /\ More => phase = "reading"
          /\ Whole => phase = "reading"
      BY DEF More, Whole
    <3>2. ASSUME NEW b, NEW f, phase = "reading", Return(b, f)
          PROVE  phase' # "writing" /\ file' = file /\ moovEnd' = moovEnd
                 /\ damaged' = damaged /\ tree' = tree
      BY <3>2 DEF Return, writeVars, fileVars
    <3>3. CASE ReadBad
      BY <3>1, <3>3 DEF ReadBad, Refuse, writeVars, fileVars
    <3>4. CASE ReadTruncated
      BY <3>1, <3>2, <3>4 DEF ReadTruncated
    <3>5. CASE Enter
      BY <3>1, <3>5 DEF Enter, writeVars, fileVars
    <3>6. CASE ReadLeaf
      BY <3>1, <3>6 DEF ReadLeaf, Skip, writeVars, fileVars
    <3>7. CASE ReadTable
      BY <3>1, <3>7 DEF ReadTable, Skip, Refuse, writeVars, fileVars
    <3>8. CASE ReadAll
      BY <3>2, <3>8 DEF ReadAll
    <3> QED  BY <1>8, <3>3, <3>4, <3>5, <3>6, <3>7, <3>8 DEF Read
  <2> QED  BY <1>0, <1>4, <2>1
<1>9. CASE UNCHANGED vars
  <2>1. phase' = phase /\ file' = file /\ moovEnd' = moovEnd
        /\ damaged' = damaged /\ tree' = tree
    BY <1>9 DEF vars, writeVars, fileVars
  <2>2. CASE phase = "writing"
    BY <2>1, <2>2 DEF PlacesInv
  <2>3. CASE phase # "writing"
    BY <1>0, <1>4, <2>1, <2>3
  <2> QED  BY <2>2, <2>3
<1> QED  BY <1>1, <1>2, <1>3, <1>5, <1>6, <1>7, <1>8, <1>9 DEF Next, Write

-----------------------------------------------------------------------------
(***************************************************************************)
(* What the reader finds.  Between the boxes of the root it is at a place  *)
(* of the file, before the moov or behind it.  Inside the moov each of its *)
(* calls works on a box of the tree, the innermost is at the next of the   *)
(* boxes inside this one, and has seen all that come before it.            *)
(***************************************************************************)

(* What is left over where the padding has no room for a 'free' is no size *)
(* of a box that fits.  mp4_mux_sync_internal puts the moov at the same    *)
(* place each time: the word before the 'mdat' is 0, a hole of the file or *)
(* the body of an earlier 'free', or the type of one.                      *)
StaleQuiet == \A old \in Stale : old = 0 \/ old > 24

OnPath(t, m, size, calls, f) ==
  /\ f \in [2 .. Len(calls) -> 1 .. Len(t)] /\ f[2] = 1
  /\ calls[1].read = 4 * m /\ calls[1].max = size
  /\ \A i \in 2 .. Len(calls) :
       /\ t[f[i]].kind \in {Moov, Container} /\ t[f[i]].level = i - 1
       /\ calls[i].max = SizeOf(t, f[i]) - 8 /\ ~calls[i].last
       /\ calls[i - 1].size = SizeOf(t, f[i]) /\ calls[i - 1].boxRead = 8
  /\ \A i \in 3 .. Len(calls) :
       /\ f[i] \in f[i - 1] + 1 .. LastIn(t, f[i - 1])
       /\ calls[i - 1].read = 4 * (WordsTo(t)[f[i] - 1] - WordsTo(t)[f[i - 1] - 1]) - 8

AtBox(t, m, read, i, at, shown, k) ==
  /\ Meets(t, i, k)
  /\ at = 4 * (m + WordsTo(t)[k - 1])
  /\ read = 4 * (WordsTo(t)[k - 1] - WordsTo(t)[i - 1]) - 8
  /\ k <= LastIn(t, i) => ~(t[k].kind = Table /\ t[k].words = 0)
  /\ shown = ShownTo(t)[k - 1]

AtRoot == Len(readers) = 1 /\ Top.max = Size /\ Top.read = pos

Before(B) ==
  /\ AtRoot /\ ~Top.last /\ seen = <<>>
  /\ moovEnd > 0 => pos < moovEnd
  /\ \E p \in B : pos = 4 * p

Inside(B) ==
  /\ moovEnd > 0 /\ moovEnd <= Size /\ Len(readers) >= 2
  /\ Holds(file, MoovAt(moovEnd)) /\ MoovAt(moovEnd) + MoovWords \in B
  /\ \E f, k : /\ OnPath(tree, MoovAt(moovEnd), Size, readers, f)
               /\ AtBox(tree, MoovAt(moovEnd), Top.read, f[Len(readers)], pos, seen, k)

After(B) ==
  /\ AtRoot /\ moovEnd > 0 /\ pos >= moovEnd
  /\ seen = ShownTo(tree)[Len(tree)]
  /\ StaleQuiet => \E p \in B : pos = 4 * p

Found == seen = IF moovEnd > 0 /\ moovEnd <= Size THEN ShownTo(tree)[Len(tree)] ELSE <<>>

SearchInv ==
  /\ phase \in {"writing", "written"} => seen = <<>>
  /\ phase = "reading" /\ ~damaged =>
       \E B : Places(file, moovEnd, B) /\ (Before(B) \/ Inside(B) \/ After(B))
  /\ WholeOrNone
  /\ StaleQuiet => OnlyCutRefused

LEMMA WordAt ==
  ASSUME NEW p \in Nat
  PROVE  /\ Word(4 * p) = file[p + 1] /\ Word(4 * p + 4) = file[p + 2]
         /\ Word(4 * p + 8) = file[p + 3] /\ Word(4 * p + 12) = file[p + 4]
<1>1. /\ (4 * p) \div 4 + 1 = p + 1 /\ (4 * p + 4) \div 4 + 1 = p + 2
      /\ (4 * p + 8) \div 4 + 1 = p + 3 /\ (4 * p + 12) \div 4 + 1 = p + 4
  OBVIOUS
<1> QED  BY <1>1 DEF Word

(* The header of a box of the root that is no moov.                        *)
LEMMA PlainHeader ==
  ASSUME file \in Seq(Nat), Top.max = Size, Top.read = pos, NEW p \in Nat, pos = 4 * p,
         NEW q \in Nat, Plain(file, p, q), pos + 8 < Size
  PROVE  /\ Type \notin Kinds
         /\ IsLarge /\ ~LargeFits => Word(pos) = Large /\ Size - pos < 2 * Header
         /\ (IsLarge => LargeFits) =>
              RealSize = 4 * (q - p) /\ RealSize >= HeaderSize /\ Word(pos) # 0
         /\ p < q
<1>1. /\ Word(pos) = file[p + 1] /\ Type = file[p + 2]
      /\ Word(pos + 8) = file[p + 3] /\ Word(pos + 12) = file[p + 4]
  BY WordAt DEF Type
<1>2. /\ Len(file) \in Nat /\ Size = 4 * Len(file) /\ p + 2 < Len(file)
      /\ p + 1 \in 1 .. Len(file) /\ p + 2 \in 1 .. Len(file)
  BY DEF Size, Bytes
<1>3. Type \notin Kinds
  BY <1>1, <1>2 DEF Plain, OffKinds
<1>4. CASE Is(file, p + 1, 4 * (q - p)) /\ p + 2 <= q
  <2>1. file[p + 1] = 4 * (q - p)
    BY <1>2, <1>4 DEF Is
  <2>2. 4 * (q - p) # 1 /\ 4 * (q - p) # 0 /\ 4 * (q - p) >= 8 /\ p < q
    BY <1>4
  <2>3. ~IsLarge /\ RealSize = 4 * (q - p) /\ HeaderSize = 8
    BY <1>1, <2>1, <2>2 DEF IsLarge, Large, RealSize, HeaderSize, Header
  <2> QED  BY <1>1, <1>3, <2>1, <2>2, <2>3
<1>5. CASE /\ Is(file, p + 1, Large) /\ Is(file, p + 3, 0)
           /\ Is(file, p + 4, 4 * (q - p)) /\ p + 4 <= q
  <2>1. Word(pos) = Large /\ Word(pos) # 0 /\ IsLarge /\ HeaderSize = 16
    <3>1. file[p + 1] = Large
      BY <1>2, <1>5 DEF Is
    <3>2. Word(pos) = 1
      BY <1>1, <3>1 DEF Large
    <3> QED  BY <3>2 DEF Large, IsLarge, HeaderSize, Header
  <2>2. 4 * (q - p) >= 16 /\ p < q
    BY <1>5
  <2>3. LargeFits <=> Size >= pos + 16
    BY DEF LargeFits, Header
  <2>4. ~LargeFits => Size - pos < 2 * Header
    <3>1. ~(Size >= pos + 16) => Size - pos < 16
      BY <1>2
    <3> QED  BY <2>3, <3>1 DEF Header
  <2>5. LargeFits => RealSize = 4 * (q - p)
    <3>1. Size >= pos + 16 => p + 4 \in 1 .. Len(file) /\ p + 3 \in 1 .. Len(file)
      BY <1>2
    <3>2. LargeFits => file[p + 3] = 0 /\ file[p + 4] = 4 * (q - p)
      BY <1>5, <2>3, <3>1 DEF Is
    <3> QED  BY <1>1, <2>1, <3>2 DEF RealSize
  <2> QED  BY <1>3, <2>1, <2>2, <2>4, <2>5
<1> QED  BY <1>4, <1>5 DEF Plain

(* The header of the moov.                                                 *)
LEMMA MoovHeader ==
  ASSUME tree \in Trees, file \in Seq(Nat), NEW p \in Nat, pos = 4 * p,
         Holds(file, p), pos + 8 < Size
  PROVE  /\ Type = Moov /\ Word(pos) = 4 * MoovWords /\ ~IsLarge
         /\ RealSize = 4 * MoovWords /\ HeaderSize = 8 /\ ~Bad
<1>1. /\ Word(pos) = file[p + 1] /\ Type = file[p + 2]
  BY WordAt DEF Type
<1>2. /\ Len(file) \in Nat /\ p + 1 \in 1 .. Len(file) /\ p + 2 \in 1 .. Len(file)
  BY DEF Size, Bytes
<1>3. /\ 1 \in 1 .. Len(tree) /\ At(1) = 0 /\ At(1 + 1) = 2 /\ tree[1].kind = Moov
      /\ SizeOf(tree, 1) = 4 * MoovWords
  <2>1. /\ 1 \in 1 .. Len(tree) /\ WordsTo(tree)[0] = 0
        /\ SizeOf(tree, 1) = 4 * WordsTo(tree)[Len(tree)]
    BY SizeOfMoov
  <2>2. tree[1].kind = Moov
    BY TreeBoxes
  <2>3. WordsTo(tree)[1] = WordsTo(tree)[0] + 2
    <3> DEFINE i == 1
    <3>1. i \in 1 .. Len(tree) /\ tree[i].kind \in {Moov, Container}
      BY <2>1, <2>2
    <3> HIDE DEF i
    <3>2. WordsTo(tree)[i] = WordsTo(tree)[i - 1] + 2
      BY <3>1, SizeOfIs
    <3>3. i = 1 /\ i - 1 = 0
      BY DEF i
    <3> QED  BY <3>2, <3>3
  <2> QED  BY <2>1, <2>2, <2>3 DEF At, MoovWords
<1>4. Is(file, p + 0 + 1, 4 * MoovWords) /\ Is(file, p + 0 + 2, Moov)
  BY <1>3 DEF Holds
<1>5. file[p + 1] = 4 * MoovWords /\ file[p + 2] = Moov
  <2>1. p + 0 + 1 = p + 1 /\ p + 0 + 2 = p + 2
    OBVIOUS
  <2> QED  BY <1>2, <1>4, <2>1 DEF Is
<1>6. 4 * MoovWords >= 8 /\ 4 * MoovWords # 1 /\ 4 * MoovWords # 0
  <2> DEFINE m == MoovWords
  <2>1. m \in Nat /\ m >= 2
    BY MoovWordsType
  <2> HIDE DEF m
  <2>2. 4 * m >= 8 /\ 4 * m # 1 /\ 4 * m # 0
    BY <2>1
  <2> QED  BY <2>2 DEF m
<1>7. Type = Moov /\ Word(pos) = 4 * MoovWords
  BY ONLY <1>1, <1>5
<1>8. ~IsLarge
  BY ONLY <1>6, <1>7 DEF IsLarge, Large
<1>9. RealSize = 4 * MoovWords /\ HeaderSize = 8
  <2>1. Word(pos) # 0
    BY ONLY <1>6, <1>7
  <2>2. RealSize = Word(pos)
    BY ONLY <1>8, <2>1, Zenon DEF RealSize
  <2>3. HeaderSize = 8
    BY <1>8 DEF HeaderSize, Header
  <2> QED  BY ONLY <1>7, <2>2, <2>3
<1>10. ~Bad
  <2> DEFINE m == 4 * MoovWords
  <2>1. m >= 8 /\ m \in Nat
    <3>1. \A w \in Nat : 4 * w \in Nat
      OBVIOUS
    <3>2. MoovWords \in Nat
      BY MoovWordsType
    <3> QED  BY ONLY <1>6, <3>1, <3>2
  <2>2. RealSize = m
    BY <1>9
  <2> HIDE DEF m
  <2> QED  BY ONLY <1>9, <2>1, <2>2 DEF Bad
<1> QED  BY <1>7, <1>8, <1>9, <1>10

(* Before the moov the reader is at a box that is none, or at the moov.    *)
AtPlain(B, p) ==
  \E q \in B : Plain(file, p, q) /\ (moovEnd > 0 => q <= MoovAt(moovEnd))

AtMoov(B, p) ==
  /\ moovEnd > 0 /\ p = MoovAt(moovEnd) /\ p >= 2 /\ Holds(file, p)
  /\ moovEnd = 4 * (p + MoovWords) /\ p + MoovWords \in B

LEMMA BeforeCases ==
  ASSUME file \in Seq(Nat), moovEnd \in Nat, NEW B, Places(file, moovEnd, B), Before(B)
  PROVE  \E p \in B : /\ p \in Nat /\ pos = 4 * p
                      /\ Size <= pos \/ AtPlain(B, p) \/ AtMoov(B, p)
<1>1. PICK p \in B : pos = 4 * p
  BY DEF Before
<1>2. p \in Nat /\ Place(file, moovEnd, B, p)
  BY DEF Places
<1>3. moovEnd > 0 => 4 * p < moovEnd
  BY <1>1 DEF Before
<1>4. CASE Len(file) <= p
  <2>1. Size <= pos
    BY <1>1, <1>2, <1>4 DEF Size, Bytes
  <2> QED  BY <1>1, <1>2, <2>1
<1>5. CASE \E q \in B : /\ Plain(file, p, q)
                        /\ moovEnd > 0 /\ 4 * p < moovEnd => q <= MoovAt(moovEnd)
  <2>1. AtPlain(B, p)
    BY <1>3, <1>5, Zenon DEF AtPlain
  <2> QED  BY <1>1, <1>2, <2>1
<1>6. CASE AtMoov(B, p)
  BY <1>1, <1>2, <1>6
<1>7. ~(moovEnd > 0 /\ 4 * p >= moovEnd)
  BY <1>2, <1>3
<1> QED  BY <1>2, <1>4, <1>5, <1>6, <1>7, Zenon DEF Place, AtMoov

(* Where the moov is.                                                      *)
LEMMA BehindIs ==
  ASSUME Behind(file, moovEnd), moovEnd > 0, tree \in Trees
  PROVE  /\ MoovAt(moovEnd) \in Nat /\ MoovAt(moovEnd) >= 2
         /\ MoovWords \in Nat /\ MoovWords >= 2
         /\ moovEnd = 4 * (MoovAt(moovEnd) + MoovWords)
  BY MoovWordsType DEF Behind

(* Before the moov there is nothing to see but when the moov is empty.     *)
LEMMA EmptyMoov ==
  ASSUME tree \in Trees, MoovWords = 2
  PROVE  ShownTo(tree)[Len(tree)] = <<>>
<1> DEFINE i == 1
           k == 2
<1>0. Len(tree) \in Nat \ {0}
  BY TreeBoxes
<1>1. i \in 1 .. Len(tree) /\ LastIn(tree, i) = Len(tree)
  BY <1>0, LastInMoov
<1>2. k \in i + 1 .. LastIn(tree, i) + 1
  BY <1>0, <1>1
<1>3. WordsTo(tree)[LastIn(tree, i)] - WordsTo(tree)[k - 1] <= 2
  <2>1. WordsTo(tree)[1] \in Nat /\ WordsTo(tree)[Len(tree)] = 2
    <3>1. 1 \in 0 .. Len(tree) /\ 1 <= Len(tree) /\ Len(tree) \in 0 .. Len(tree)
      BY <1>0
    <3> QED  BY <3>1, WordsToGrows DEF MoovWords
  <2> QED  BY <1>1, <2>1
<1>4. SizeOf(tree, i) = 8
  BY SizeOfMoov DEF MoovWords
<1>5. k - 1 = i /\ i - 1 = 0
  OBVIOUS
<1> HIDE DEF i, k
<1>6. ShownTo(tree)[k - 1] = ShownTo(tree)[LastIn(tree, i)]
  BY <1>1, <1>2, <1>3, ShownAtEnd
<1>7. SizeOf(tree, i) <= Header
  BY <1>4 DEF Header
<1>8. ShownTo(tree)[i] = ShownTo(tree)[i - 1] /\ ShownTo(tree)[0] = <<>>
  BY <1>1, <1>7, ShownToIs
<1> QED  BY <1>1, <1>5, <1>6, <1>8

LEMMA BeforeEnds ==
  ASSUME tree \in Trees, file \in Seq(Nat), moovEnd \in Nat, NEW B,
         Places(file, moovEnd, B), Before(B), Behind(file, moovEnd),
         phase = "reading",
         \/ ~More
         \/ More /\ (IsLarge => LargeFits) /\ Truncated
  PROVE  Found
<1>1. PICK p \in B : /\ p \in Nat /\ pos = 4 * p
                     /\ Size <= pos \/ AtPlain(B, p) \/ AtMoov(B, p)
  BY BeforeCases
<1>2. Top.max = Size /\ Top.read = pos /\ ~Top.last /\ seen = <<>>
      /\ (moovEnd > 0 => pos < moovEnd)
  BY DEF Before, AtRoot
<1>3. Size \in Nat /\ pos \in Nat
  BY <1>1 DEF Size, Bytes
<1>4. ~More => Size <= pos + 8
  BY <1>2, <1>3 DEF More, Header
<1>5. More => pos + 8 < Size
  BY <1>2, <1>3 DEF More, Header
<1>6. SUFFICES ASSUME moovEnd > 0, moovEnd <= Size PROVE ShownTo(tree)[Len(tree)] = <<>>
  BY <1>2 DEF Found
<1> DEFINE m == MoovAt(moovEnd)
           w == MoovWords
<1>7. m \in Nat /\ w \in Nat /\ w >= 2 /\ moovEnd = 4 * (m + w)
  BY <1>6, BehindIs
<1>8. ~(Size <= pos)
  BY <1>2, <1>3, <1>6
<1>9. CASE AtPlain(B, p)
  <2>1. PICK q \in B : Plain(file, p, q) /\ q <= m
    BY <1>6, <1>9 DEF AtPlain
  <2>2. q \in Nat /\ p + 2 <= q
    <3>1. q \in Nat
      BY DEF Places
    <3> QED  BY <1>1, <2>1, <3>1 DEF Plain
  <2> HIDE DEF m, w
  <2>3. moovEnd > pos + 8 /\ moovEnd >= 4 * q
    BY ONLY <1>1, <1>7, <2>1, <2>2
  <2>4. CASE ~More
    BY ONLY <1>3, <1>4, <1>6, <2>3, <2>4, moovEnd \in Nat
  <2>5. CASE More /\ (IsLarge => LargeFits) /\ Truncated
    <3>1. RealSize = 4 * (q - p)
      BY <1>1, <1>2, <1>5, <2>1, <2>2, <2>5, PlainHeader
    <3>2. Size < pos + 4 * (q - p)
      BY <1>2, <2>5, <3>1 DEF Truncated
    <3>3. Size < 4 * q
      BY ONLY <1>1, <1>3, <2>2, <3>2
    <3> QED  BY ONLY <1>3, <1>6, <2>2, <2>3, <3>3, moovEnd \in Nat
  <2> QED  BY <2>4, <2>5
<1>10. CASE AtMoov(B, p)
  <2>1. p = m /\ Holds(file, p)
    BY <1>10 DEF AtMoov
  <2> HIDE DEF m
  <2>2. CASE ~More
    <3>1. w = 2
      <4> HIDE DEF w
      <4> QED  BY ONLY <1>1, <1>3, <1>4, <1>6, <1>7, <2>1, <2>2, moovEnd \in Nat
    <3> QED  BY <3>1, EmptyMoov
  <2>3. CASE More /\ (IsLarge => LargeFits) /\ Truncated
    <3>1. RealSize = 4 * w
      BY <1>1, <1>5, <2>1, <2>3, MoovHeader
    <3>2. Size < pos + 4 * w
      BY <1>2, <2>3, <3>1 DEF Truncated
    <3> HIDE DEF w
    <3> QED  BY ONLY <1>1, <1>3, <1>6, <1>7, <2>1, <3>2, moovEnd \in Nat
  <2> QED  BY <2>2, <2>3
<1> QED  BY <1>1, <1>8, <1>9, <1>10

(* Only the 'mdat' whose 64-bit size was cut is refused.                   *)
LEMMA BeforeRefuses ==
  ASSUME tree \in Trees, file \in Seq(Nat), moovEnd \in Nat, NEW B,
         Places(file, moovEnd, B), Before(B), phase = "reading", More,
         \/ NotMp4
         \/ ~NotMp4 /\ IsLarge /\ ~LargeFits
         \/ Complete /\ Bad
         \/ Whole /\ Type = Table
  PROVE  Word(pos) = Large /\ Size - pos < 2 * Header
<1>1. PICK p \in B : /\ p \in Nat /\ pos = 4 * p
                     /\ Size <= pos \/ AtPlain(B, p) \/ AtMoov(B, p)
  BY BeforeCases
<1>2. Top.max = Size /\ Top.read = pos
  BY DEF Before, AtRoot
<1>3. Size \in Nat /\ pos \in Nat
  BY <1>1 DEF Size, Bytes
<1>5. pos + 8 < Size
  BY <1>2, <1>3 DEF More, Header
<1>6. ~(Size <= pos)
  BY <1>3, <1>5
<1>7. ~NotMp4
  <2> SUFFICES ASSUME NotMp4 PROVE FALSE
    OBVIOUS
  <2>1. p = 0 /\ Type # Ftyp
    BY <1>1, <1>2 DEF NotMp4, IsFirst
  <2>2. Type = file[2]
    <3>1. Type = file[p + 2]
      BY <1>1, WordAt DEF Type
    <3> QED  BY <2>1, <3>1
  <2>3. 2 \in 1 .. Len(file)
    BY <1>1, <1>5, <2>1 DEF Size, Bytes
  <2> QED  BY <2>1, <2>2, <2>3 DEF Places, Is
<1>8. CASE AtPlain(B, p)
  <2>1. PICK q \in B : Plain(file, p, q)
    BY <1>8 DEF AtPlain
  <2>2. q \in Nat
    BY DEF Places
  <2>3. /\ Type \notin Kinds
        /\ IsLarge /\ ~LargeFits => Word(pos) = Large /\ Size - pos < 2 * Header
        /\ (IsLarge => LargeFits) => RealSize = 4 * (q - p) /\ RealSize >= HeaderSize
        /\ p < q
    BY <1>1, <1>2, <1>5, <2>1, <2>2, PlainHeader
  <2>4. (IsLarge => LargeFits) => ~Bad
    <3> SUFFICES ASSUME IsLarge => LargeFits PROVE ~Bad
      OBVIOUS
    <3>1. RealSize \in Int /\ RealSize >= HeaderSize /\ HeaderSize \in Int
      BY <1>1, <2>2, <2>3 DEF HeaderSize, Header
    <3> QED  BY ONLY <3>1 DEF Bad
  <2>5. Type # Table
    BY <2>3 DEF Kinds
  <2> QED  BY <1>7, <2>3, <2>4, <2>5 DEF Complete
<1>9. CASE AtMoov(B, p)
  <2>1. Type = Moov /\ ~IsLarge /\ ~Bad
    BY <1>1, <1>5, <1>9, MoovHeader DEF AtMoov
  <2>2. Moov # Table
    BY WordAssumption
  <2> QED  BY <1>7, <2>1, <2>2
<1> QED  BY <1>1, <1>6, <1>8, <1>9

(* The reader does not get stuck at a table without entries.               *)
LEMMA Settles ==
  ASSUME NEW t \in Trees, NEW i \in 1 .. Len(t), NEW k, Meets(t, i, k), NEW m, NEW read, NEW at,
         NEW shown, at = 4 * (m + WordsTo(t)[k - 1]),
         read = 4 * (WordsTo(t)[k - 1] - WordsTo(t)[i - 1]) - 8,
         shown = ShownTo(t)[k - 1]
  PROVE  \E j : AtBox(t, m, read, i, at, shown, j)
<1>1. PICK j : /\ Meets(t, i, j)
               /\ WordsTo(t)[j - 1] = WordsTo(t)[k - 1]
               /\ ShownTo(t)[j - 1] = ShownTo(t)[k - 1]
               /\ j <= LastIn(t, i) => ~(t[j].kind = Table /\ t[j].words = 0)
  BY StepOver
<1>2. AtBox(t, m, read, i, at, shown, j)
  BY <1>1 DEF AtBox
<1> QED  BY <1>2

(* The first box inside another, and the one behind a box inside it.       *)
LEMMA FirstIn ==
  ASSUME NEW t \in Trees, NEW i \in 1 .. Len(t), t[i].kind \in {Moov, Container},
         NEW m \in Nat
  PROVE  \E k : AtBox(t, m, 0, i, 4 * (m + WordsTo(t)[i - 1]) + 8, ShownTo(t)[i], k)
<1>0. Len(t) \in Nat /\ i \in Nat
  BY TreeBoxes
<1> DEFINE k == i + 1
<1>1. Meets(t, i, k)
  <2>1. LastIn(t, i) \in i .. Len(t) /\ \A j \in i + 1 .. LastIn(t, i) : t[j].level > t[i].level
    BY LastInIs
  <2>2. k \in i + 1 .. LastIn(t, i) + 1
    BY <1>0, <2>1
  <2>3. k <= LastIn(t, i) => t[k].level = t[i].level + 1
    <3> SUFFICES ASSUME k <= LastIn(t, i) PROVE t[k].level = t[i].level + 1
      OBVIOUS
    <3>1. k \in i + 1 .. LastIn(t, i) /\ k \in 2 .. Len(t) /\ k - 1 = i /\ k \in 1 .. Len(t)
      BY <1>0, <2>1
    <3>2. t[k].level > t[i].level
      BY <2>1, <3>1
    <3>3. t[k].level \in Nat /\ t[i].level \in Nat
      BY <3>1, TreeBoxes
    <3>4. t[k].level <= t[i].level + 1
      <4> HIDE DEF k
      <4>1. t[k].level <= t[k - 1].level + 1
        BY <3>1, TreeBoxes
      <4> QED  BY <3>1, <4>1
    <3> QED  BY ONLY <3>2, <3>3, <3>4
  <2> QED  BY <2>2, <2>3 DEF Meets
<1>2. WordsTo(t)[i] = WordsTo(t)[i - 1] + 2 /\ WordsTo(t)[i - 1] \in Nat
  BY SizeOfIs
<1>3. k - 1 = i
  BY <1>0
<1> DEFINE b == WordsTo(t)[i - 1]
           e == WordsTo(t)[k - 1]
<1>4. b \in Nat /\ e = b + 2
  BY <1>2, <1>3
<1>5. ShownTo(t)[k - 1] = ShownTo(t)[i]
  BY <1>3
<1> HIDE DEF k
<1>6. 4 * (m + b) + 8 = 4 * (m + e) /\ 0 = 4 * (e - b) - 8
  <2> HIDE DEF b, e
  <2> QED  BY <1>4
<1> QED  BY ONLY t \in Trees, i \in 1 .. Len(t), <1>1, <1>5, <1>6, Settles, Zenon

LEMMA NextIn ==
  ASSUME NEW t \in Trees, NEW i \in 1 .. Len(t), NEW j \in i + 1 .. LastIn(t, i),
         t[j].level = t[i].level + 1, NEW m \in Nat
  PROVE  \E k : AtBox(t, m, 4 * (WordsTo(t)[LastIn(t, j)] - WordsTo(t)[i - 1]) - 8, i,
                      4 * (m + WordsTo(t)[LastIn(t, j)]), ShownTo(t)[LastIn(t, j)], k)
<1>0. Len(t) \in Nat /\ i \in Nat
  BY TreeBoxes
<1>1. j \in 1 .. Len(t) /\ LastIn(t, j) <= LastIn(t, i) /\ LastIn(t, j) \in j .. Len(t)
      /\ LastIn(t, i) \in i .. Len(t)
  BY LastInNested, LastInIs
<1> DEFINE l == LastIn(t, j)
           k == l + 1
<1>2. Meets(t, i, k)
  <2>1. k \in i + 1 .. LastIn(t, i) + 1
    BY <1>0, <1>1
  <2>2. k <= LastIn(t, i) => t[k].level = t[i].level + 1
    <3> SUFFICES ASSUME k <= LastIn(t, i) PROVE t[k].level = t[i].level + 1
      OBVIOUS
    <3>1. k \in i + 1 .. LastIn(t, i) /\ k \in 1 .. Len(t) /\ l < Len(t)
      BY <1>0, <1>1, <2>1
    <3>2. t[k].level > t[i].level
      BY <3>1, LastInIs
    <3>3. t[k].level <= t[j].level
      BY <1>1, <3>1, LastInIs
    <3>4. t[k].level \in Nat /\ t[i].level \in Nat
      BY <3>1, TreeBoxes
    <3> QED  BY ONLY <3>2, <3>3, <3>4, t[j].level = t[i].level + 1
  <2> QED  BY <2>1, <2>2 DEF Meets
<1>3. k - 1 = l
  BY <1>1
<1> HIDE DEF k, l
<1>4. \E n : AtBox(t, m, 4 * (WordsTo(t)[l] - WordsTo(t)[i - 1]) - 8, i,
                   4 * (m + WordsTo(t)[l]), ShownTo(t)[l], n)
  BY ONLY t \in Trees, i \in 1 .. Len(t), <1>2, <1>3, Settles, Zenon
<1> QED  BY <1>4 DEF l

(* The calls of the reader, one more, one that went on and one less.       *)
LEMMA PathInto ==
  ASSUME NEW t \in Trees, NEW m \in Nat, NEW size, NEW n \in Nat, n >= 2,
         NEW calls, Len(calls) = n, NEW f, OnPath(t, m, size, calls, f),
         NEW k \in f[n] + 1 .. LastIn(t, f[n]), t[k].kind \in {Moov, Container},
         t[k].level = n, calls[n].read = 4 * (WordsTo(t)[k - 1] - WordsTo(t)[f[n] - 1]) - 8,
         NEW new, Len(new) = n + 1, \A i \in 1 .. n - 1 : new[i] = calls[i],
         new[n].max = calls[n].max, new[n].read = calls[n].read, ~new[n].last,
         new[n].size = SizeOf(t, k), new[n].boxRead = 8,
         new[n + 1].max = SizeOf(t, k) - 8, ~new[n + 1].last
  PROVE  \E g : g[n + 1] = k /\ OnPath(t, m, size, new, g)
<1> DEFINE g == [i \in 2 .. n + 1 |-> IF i = n + 1 THEN k ELSE f[i]]
<1>1. /\ f \in [2 .. n -> 1 .. Len(t)] /\ f[2] = 1
      /\ calls[1].read = 4 * m /\ calls[1].max = size
      /\ \A i \in 2 .. n :
           /\ t[f[i]].kind \in {Moov, Container} /\ t[f[i]].level = i - 1
           /\ calls[i].max = SizeOf(t, f[i]) - 8 /\ ~calls[i].last
           /\ calls[i - 1].size = SizeOf(t, f[i]) /\ calls[i - 1].boxRead = 8
      /\ \A i \in 3 .. n :
           /\ f[i] \in f[i - 1] + 1 .. LastIn(t, f[i - 1])
           /\ calls[i - 1].read = 4 * (WordsTo(t)[f[i] - 1] - WordsTo(t)[f[i - 1] - 1]) - 8
  BY Zenon DEF OnPath
<1>2. k \in 1 .. Len(t)
  <2>1. n \in 2 .. n
    OBVIOUS
  <2>2. f[n] \in 1 .. Len(t)
    BY <1>1, <2>1
  <2> QED  BY <2>2, LastInNested
<1>3. g \in [2 .. n + 1 -> 1 .. Len(t)] /\ g[n + 1] = k /\ \A i \in 2 .. n : g[i] = f[i]
  BY SMTT(30), <1>1, <1>2
<1> HIDE DEF g
<1>4. 2 \in 2 .. n /\ 1 \in 1 .. n - 1 /\ n \in 2 .. n /\ (n + 1) - 1 = n
  OBVIOUS
<1>5. g[2] = 1 /\ new[1].read = 4 * m /\ new[1].max = size
  BY <1>1, <1>3, <1>4
<1>6. ASSUME NEW i \in 2 .. n + 1
      PROVE  /\ t[g[i]].kind \in {Moov, Container} /\ t[g[i]].level = i - 1
             /\ new[i].max = SizeOf(t, g[i]) - 8 /\ ~new[i].last
             /\ new[i - 1].size = SizeOf(t, g[i]) /\ new[i - 1].boxRead = 8
  <2>1. CASE i = n + 1
    BY <1>3, <1>4, <2>1
  <2>2. CASE i # n + 1
    <3>0. i \in 2 .. n /\ i - 1 \in 1 .. n - 1
      BY ONLY i \in 2 .. n + 1, n \in Nat, n >= 2, <2>2
    <3>1. i \in 2 .. n /\ i - 1 \in 1 .. n - 1 /\ g[i] = f[i]
      BY <1>3, <3>0
    <3>2. new[i - 1] = calls[i - 1]
      BY <3>1
    <3>3. new[i].max = calls[i].max /\ ~new[i].last
      <4>1. CASE i = n
        BY <1>1, <1>4, <4>1
      <4>2. CASE i # n
        <5>1. i \in 1 .. n - 1
          BY <3>1, <4>2
        <5> QED  BY <1>1, <3>1, <5>1
      <4> QED  BY <4>1, <4>2
    <3> QED  BY <1>1, <3>1, <3>2, <3>3
  <2> QED  BY <2>1, <2>2
<1>7. ASSUME NEW i \in 3 .. n + 1
      PROVE  /\ g[i] \in g[i - 1] + 1 .. LastIn(t, g[i - 1])
             /\ new[i - 1].read = 4 * (WordsTo(t)[g[i] - 1] - WordsTo(t)[g[i - 1] - 1]) - 8
  <2>1. CASE i = n + 1
    BY <1>3, <1>4, <2>1
  <2>2. CASE i # n + 1
    <3>1. i \in 3 .. n /\ i - 1 \in 1 .. n - 1 /\ i - 1 \in 2 .. n /\ i \in 2 .. n
      BY <2>2
    <3>2. new[i - 1] = calls[i - 1] /\ g[i] = f[i] /\ g[i - 1] = f[i - 1]
      BY <1>3, <3>1
    <3> QED  BY <1>1, <3>1, <3>2
  <2> QED  BY <2>1, <2>2
<1>8. OnPath(t, m, size, new, g)
  BY <1>3, <1>5, <1>6, <1>7, Zenon DEF OnPath
<1> QED  BY <1>3, <1>8

LEMMA PathOn ==
  ASSUME NEW t \in Trees, NEW m \in Nat, NEW size, NEW n \in Nat, n >= 2,
         NEW calls, NEW f, OnPath(t, m, size, calls, f), NEW len \in Nat, Len(calls) = len,
         len >= n, NEW new, Len(new) = n, \A i \in 1 .. n - 1 : new[i] = calls[i],
         new[n].max = calls[n].max, ~new[n].last
  PROVE  \E g : g[n] = f[n] /\ OnPath(t, m, size, new, g)
<1> DEFINE g == [i \in 2 .. n |-> f[i]]
<1>1. /\ f \in [2 .. len -> 1 .. Len(t)] /\ f[2] = 1
      /\ calls[1].read = 4 * m /\ calls[1].max = size
      /\ \A i \in 2 .. len :
           /\ t[f[i]].kind \in {Moov, Container} /\ t[f[i]].level = i - 1
           /\ calls[i].max = SizeOf(t, f[i]) - 8 /\ ~calls[i].last
           /\ calls[i - 1].size = SizeOf(t, f[i]) /\ calls[i - 1].boxRead = 8
      /\ \A i \in 3 .. len :
           /\ f[i] \in f[i - 1] + 1 .. LastIn(t, f[i - 1])
           /\ calls[i - 1].read = 4 * (WordsTo(t)[f[i] - 1] - WordsTo(t)[f[i - 1] - 1]) - 8
  BY Zenon DEF OnPath
<1>2. \A i \in 2 .. n : i \in 2 .. len
  OBVIOUS
<1>3. g \in [2 .. n -> 1 .. Len(t)] /\ \A i \in 2 .. n : g[i] = f[i]
  BY <1>1, <1>2
<1> HIDE DEF g
<1>4. 2 \in 2 .. n /\ 1 \in 1 .. n - 1 /\ n \in 2 .. n
  OBVIOUS
<1>5. g[2] = 1 /\ new[1].read = 4 * m /\ new[1].max = size /\ g[n] = f[n]
  BY <1>1, <1>3, <1>4
<1>6. ASSUME NEW i \in 2 .. n
      PROVE  /\ t[g[i]].kind \in {Moov, Container} /\ t[g[i]].level = i - 1
             /\ new[i].max = SizeOf(t, g[i]) - 8 /\ ~new[i].last
             /\ new[i - 1].size = SizeOf(t, g[i]) /\ new[i - 1].boxRead = 8
  <2>1. i \in 2 .. len /\ i - 1 \in 1 .. n - 1 /\ g[i] = f[i]
    BY <1>2, <1>3
  <2>2. new[i - 1] = calls[i - 1]
    BY <2>1
  <2>3. new[i].max = calls[i].max /\ ~new[i].last
    <3>1. CASE i = n
      BY <3>1
    <3>2. CASE i # n
      <4>1. i \in 1 .. n - 1
        BY <3>2
      <4> QED  BY <1>1, <2>1, <4>1
    <3> QED  BY <3>1, <3>2
  <2> QED  BY <1>1, <2>1, <2>2, <2>3
<1>7. ASSUME NEW i \in 3 .. n
      PROVE  /\ g[i] \in g[i - 1] + 1 .. LastIn(t, g[i - 1])
             /\ new[i - 1].read = 4 * (WordsTo(t)[g[i] - 1] - WordsTo(t)[g[i - 1] - 1]) - 8
  <2>1. i \in 3 .. len /\ i - 1 \in 1 .. n - 1 /\ i - 1 \in 2 .. n /\ i \in 2 .. n
    OBVIOUS
  <2>2. new[i - 1] = calls[i - 1] /\ g[i] = f[i] /\ g[i - 1] = f[i - 1]
    BY <1>3, <2>1
  <2> QED  BY <1>1, <2>1, <2>2
<1>8. OnPath(t, m, size, new, g)
  BY <1>3, <1>5, <1>6, <1>7, Zenon DEF OnPath
<1> QED  BY <1>5, <1>8

LEMMA PathStart ==
  ASSUME NEW t \in Trees, NEW m \in Nat, NEW size, NEW new, Len(new) = 2,
         new[1].read = 4 * m, new[1].max = size, new[1].size = SizeOf(t, 1),
         new[1].boxRead = 8, new[2].max = SizeOf(t, 1) - 8, ~new[2].last
  PROVE  \E g : g[2] = 1 /\ OnPath(t, m, size, new, g)
<1> DEFINE g == [i \in 2 .. 2 |-> 1]
<1>1. 1 \in 1 .. Len(t) /\ t[1].kind = Moov /\ t[1].level = 1
  BY TreeBoxes
<1>2. g \in [2 .. 2 -> 1 .. Len(t)] /\ g[2] = 1
  BY <1>1
<1> HIDE DEF g
<1>3. \A i \in 2 .. 2 : i = 2 /\ i - 1 = 1
  OBVIOUS
<1>4. ~ \E i \in 3 .. 2 : TRUE
  OBVIOUS
<1>5. \A i \in 2 .. 2 :
        /\ t[g[i]].kind \in {Moov, Container} /\ t[g[i]].level = i - 1
        /\ new[i].max = SizeOf(t, g[i]) - 8 /\ ~new[i].last
        /\ new[i - 1].size = SizeOf(t, g[i]) /\ new[i - 1].boxRead = 8
  BY <1>1, <1>2, <1>3
<1>6. OnPath(t, m, size, new, g)
  BY <1>2, <1>4, <1>5, Zenon DEF OnPath
<1> QED  BY <1>2, <1>6

(* What is recorded is what there is to see.                               *)
LEMMA SeenIs ==
  ASSUME tree \in Trees, NEW k \in 1 .. Len(tree), Type = tree[k].kind,
         Len(readers) = tree[k].level, RealSize = SizeOf(tree, k), NEW words,
         words = tree[k].words, seen = ShownTo(tree)[k - 1]
  PROVE  Seen(words) = ShownTo(tree)[k]
<1>1. ShownTo(tree)[k] =
        IF SizeOf(tree, k) <= Header THEN ShownTo(tree)[k - 1]
        ELSE Append(ShownTo(tree)[k - 1],
               [kind |-> tree[k].kind, level |-> tree[k].level,
                size |-> SizeOf(tree, k), words |-> tree[k].words])
  BY ShownToIs
<1>2. Type \in Kinds
  BY TreeBoxes
<1>3. RealSize > Header <=> ~(SizeOf(tree, k) <= Header)
  <2>1. SizeOf(tree, k) \in Nat
    BY SizeOfIs
  <2> QED  BY <2>1 DEF Header
<1>4. CASE SizeOf(tree, k) <= Header
  BY <1>1, <1>3, <1>4 DEF Seen
<1>5. CASE ~(SizeOf(tree, k) <= Header)
  BY <1>1, <1>2, <1>3, <1>5 DEF Seen
<1> QED  BY <1>4, <1>5

(* What becomes of the innermost call: it goes on, hands over, and returns. *)
LEMMA CallFields ==
  ASSUME NEW top \in Calls
  PROVE  /\ top.max \in Nat /\ top.read \in Nat /\ top.size \in Nat /\ top.last \in BOOLEAN
         /\ top \in [type : {"root"} \cup Nat, max : Nat, read : Nat, size : Nat,
                     boxRead : Nat, last : BOOLEAN]
  BY DEF Calls

LEMMA CallSkips ==
  ASSUME NEW top \in Calls, NEW read \in Nat, NEW r, r = [top EXCEPT !.read = read]
  PROVE  r \in Calls /\ r.max = top.max /\ r.read = read /\ r.last = top.last
  BY CallFields DEF Calls

LEMMA TopReplaced ==
  ASSUME NEW calls \in Seq(Calls), calls # <<>>, NEW r \in Calls
  PROVE  /\ Replaced(calls, r) \in Seq(Calls) /\ Len(Replaced(calls, r)) = Len(calls)
         /\ Replaced(calls, r)[Len(calls)] = r
         /\ \A i \in 1 .. Len(calls) - 1 : Replaced(calls, r)[i] = calls[i]
<1>3. /\ Replaced(calls, r) \in Seq(Calls) /\ Len(Replaced(calls, r)) = Len(calls)
      /\ Replaced(calls, r)[Len(calls)] = r
      /\ \A i \in 1 .. Len(calls) : i # Len(calls) => Replaced(calls, r)[i] = calls[i]
  BY ReplacedTop, ZenonT(40)
<1>4. \A i \in 1 .. Len(calls) - 1 : i \in 1 .. Len(calls) /\ i # Len(calls)
  OBVIOUS
<1> QED  BY ONLY <1>3, <1>4

SkippedBy(calls, top, size, last) ==
  Replaced(calls, [top EXCEPT !.read = top.read + size, !.last = last])

EnteredWith(calls, top, size, head, type, max) ==
  Append(Replaced(calls, [top EXCEPT !.size = size, !.boxRead = head]), Reader(type, max))

ReturnedTo(calls, top) ==
  Replaced(calls, [top EXCEPT !.read = top.read + top.size])

LEMMA GoesOn ==
  ASSUME NEW calls \in Seq(Calls), NEW n \in Nat, n = Len(calls), n >= 1,
         NEW size \in Nat, NEW last \in BOOLEAN, NEW top, top = calls[n], NEW new,
         new = SkippedBy(calls, top, size, last)
  PROVE  /\ Len(new) = n /\ \A i \in 1 .. n - 1 : new[i] = calls[i]
         /\ new[n].max = top.max /\ new[n].read = top.read + size /\ new[n].last = last
<1>1. top \in Calls
  BY ElementOfSeq
<1>2. PICK read, r : read = top.read + size /\ r = [top EXCEPT !.read = read, !.last = last]
  OBVIOUS
<1>3. r \in Calls /\ r.max = top.max /\ r.read = top.read + size /\ r.last = last
  <2>0. read = top.read + top.size \/ read = top.read + size
    BY <1>2
  <2>1. read \in Nat
    BY ONLY <1>1, <2>0, size \in Nat, CallFields
  <2>2. r = [top EXCEPT !.read = read, !.last = last]
    BY <1>2
  <2>3. r \in Calls /\ r.max = top.max /\ r.read = read /\ r.last = last
    BY ONLY last \in BOOLEAN, <1>1, <2>1, <2>2, CallFields DEF Calls
  <2> QED  BY ONLY <1>2, <2>3
<1>4. new = Replaced(calls, r)
  BY <1>2 DEF SkippedBy
<1>5. Len(new) = n /\ new[n] = r /\ \A i \in 1 .. n - 1 : new[i] = calls[i]
  <2>1. calls # <<>>
    OBVIOUS
  <2>2. /\ Len(Replaced(calls, r)) = Len(calls) /\ Replaced(calls, r)[Len(calls)] = r
        /\ \A i \in 1 .. Len(calls) - 1 : Replaced(calls, r)[i] = calls[i]
    BY ONLY calls \in Seq(Calls), <1>3, <2>1, TopReplaced
  <2> QED  BY ONLY n = Len(calls), <1>4, <2>2
<1> QED  BY ONLY <1>3, <1>5

IsEntered(new, calls, n, top, size, head, max) ==
  /\ Len(new) = n + 1 /\ \A i \in 1 .. n - 1 : new[i] = calls[i]
  /\ new[n].max = top.max /\ new[n].read = top.read /\ new[n].last = top.last
  /\ new[n].size = size /\ new[n].boxRead = head
  /\ new[n + 1].max = max /\ new[n + 1].read = 0 /\ ~new[n + 1].last

LEMMA HandsOver ==
  ASSUME NEW calls \in Seq(Calls), NEW n \in Nat, n = Len(calls), n >= 1,
         NEW size \in Nat, NEW head \in Nat, NEW type \in Nat, NEW max \in Nat,
         NEW top, top = calls[n]
  PROVE  IsEntered(EnteredWith(calls, top, size, head, type, max),
                   calls, n, top, size, head, max)
<1>a. PICK new : new = EnteredWith(calls, top, size, head, type, max)
  OBVIOUS
<1>1. top \in Calls
  BY ElementOfSeq
<1>2. PICK r, c : /\ r = [top EXCEPT !.size = size, !.boxRead = head]
                  /\ c = Reader(type, max)
  OBVIOUS
<1>3. /\ r \in Calls /\ r.max = top.max /\ r.read = top.read /\ r.last = top.last
      /\ r.size = size /\ r.boxRead = head
  <2>1. r = [top EXCEPT !.size = size, !.boxRead = head]
    BY <1>2
  <2> QED  BY ONLY size \in Nat, head \in Nat, <1>1, <2>1, CallFields DEF Calls
<1>4. c \in Calls /\ c.max = max /\ c.read = 0 /\ ~c.last
  BY ONLY type \in Nat, max \in Nat, <1>2 DEF Reader, Calls
<1>5. PICK s : s = Replaced(calls, r)
  OBVIOUS
<1>6. s \in Seq(Calls) /\ Len(s) = n /\ s[n] = r /\ \A i \in 1 .. n - 1 : s[i] = calls[i]
  <2>1. calls # <<>>
    OBVIOUS
  <2>2. /\ Replaced(calls, r) \in Seq(Calls)
        /\ Len(Replaced(calls, r)) = Len(calls) /\ Replaced(calls, r)[Len(calls)] = r
        /\ \A i \in 1 .. Len(calls) - 1 : Replaced(calls, r)[i] = calls[i]
    BY ONLY calls \in Seq(Calls), <1>3, <2>1, TopReplaced
  <2> QED  BY ONLY n = Len(calls), <1>5, <2>2
<1>7. new = Append(s, c)
  BY <1>2, <1>5, <1>a DEF EnteredWith
<1>8. Len(new) = n + 1 /\ new[n + 1] = c /\ \A i \in 1 .. n : new[i] = s[i]
  BY ONLY <1>4, <1>6, <1>7, AppendTop
<1>9. n \in 1 .. n /\ \A i \in 1 .. n - 1 : i \in 1 .. n
  OBVIOUS
<1>10. IsEntered(new, calls, n, top, size, head, max)
  BY ONLY <1>3, <1>4, <1>6, <1>8, <1>9 DEF IsEntered
<1> QED  BY ONLY <1>a, <1>10

LEMMA GoesBack ==
  ASSUME NEW calls \in Seq(Calls), NEW n \in Nat, n = Len(calls), n >= 2,
         NEW top, top = calls[n - 1], NEW new,
         new = ReturnedTo(SubSeq(calls, 1, n - 1), top)
  PROVE  /\ Len(new) = n - 1 /\ \A i \in 1 .. (n - 1) - 1 : new[i] = calls[i]
         /\ new[n - 1].max = top.max /\ new[n - 1].last = top.last
         /\ new[n - 1].read = top.read + top.size
<1>0. calls # <<>> /\ n - 1 \in Nat /\ n - 1 >= 1 /\ n - 1 \in 1 .. Len(calls)
  OBVIOUS
<1>1. top \in Calls
  BY <1>0, ElementOfSeq
<1>2. PICK r, s, l : /\ r = [top EXCEPT !.read = top.read + top.size]
                     /\ s = SubSeq(calls, 1, n - 1) /\ l = n - 1
  OBVIOUS
<1>3. r \in Calls /\ r.max = top.max /\ r.read = top.read + top.size /\ r.last = top.last
  <2>1. PICK read : read = top.read + top.size
    OBVIOUS
  <2>2. read \in Nat
    BY ONLY <1>1, <2>1, CallFields
  <2>3. r = [top EXCEPT !.read = read]
    BY <1>2, <2>1
  <2>4. r \in Calls /\ r.max = top.max /\ r.read = read /\ r.last = top.last
    BY ONLY <1>1, <2>2, <2>3, CallSkips
  <2> QED  BY ONLY <2>1, <2>4
<1>4. s \in Seq(Calls) /\ Len(s) = l /\ \A i \in 1 .. l : s[i] = calls[i]
  BY ONLY calls \in Seq(Calls), n = Len(calls), <1>0, <1>2, RemovedTop
<1>5. new = Replaced(s, r) /\ l \in Nat /\ l >= 1
  BY <1>0, <1>2 DEF ReturnedTo
<1>6. Len(new) = l /\ new[l] = r /\ \A i \in 1 .. l - 1 : new[i] = s[i]
  <2>1. l = Len(s)
    BY ONLY <1>4
  <2>2. s # <<>>
    BY ONLY <1>4, <1>5
  <2>3. /\ Len(Replaced(s, r)) = Len(s) /\ Replaced(s, r)[Len(s)] = r
        /\ \A i \in 1 .. Len(s) - 1 : Replaced(s, r)[i] = s[i]
    BY ONLY <1>3, <1>4, <2>2, TopReplaced
  <2> QED  BY ONLY <1>5, <2>1, <2>3
<1>7. \A i \in 1 .. l - 1 : i \in 1 .. l
  BY ONLY <1>5
<1>8. \A i \in 1 .. l - 1 : new[i] = calls[i]
  BY ONLY <1>4, <1>6, <1>7
<1> QED  BY ONLY <1>2, <1>3, <1>6, <1>8

(* A box of the root is skipped.                                           *)
LEMMA RootSkips ==
  ASSUME readers \in Seq(Calls), pos \in Nat, AtRoot, NEW n, Skip(n),
         RealSize \in Nat, Type \notin Kinds
  PROVE  /\ AtRoot' /\ seen' = seen /\ pos' = pos + RealSize
         /\ Top'.last = (Word(pos) = 0)
         /\ UNCHANGED <<phase, tree, file, moovEnd, damaged>>
<1>1. UNCHANGED <<phase, tree, file, moovEnd, damaged>> /\ seen' = seen
      /\ pos' = pos + RealSize
  BY DEF Skip, Seen, writeVars, fileVars
<1> DEFINE r == [Top EXCEPT !.read = Top.read + RealSize, !.last = Word(pos) = 0]
<1>2. readers' = Replaced(readers, r)
  BY DEF Skip
<1>3. Len(readers) = 1 /\ Top.max = Size /\ Top.read = pos
  BY DEF AtRoot
<1>4. PICK new : new = readers'
  OBVIOUS
<1>5. (Word(pos) = 0) \in BOOLEAN /\ new = Replaced(readers, r)
  BY <1>2, <1>4
<1>6. /\ Len(new) = 1 /\ new[1].max = Top.max /\ new[1].read = Top.read + RealSize
      /\ new[1].last = (Word(pos) = 0)
  <2>1. PICK calls, l, last, size, top :
          calls = readers /\ l = Len(readers) /\ last = (Word(pos) = 0) /\ size = RealSize
          /\ top = Top
    OBVIOUS
  <2>2. /\ calls \in Seq(Calls) /\ l \in Nat /\ l = 1 /\ l >= 1 /\ l = Len(calls)
        /\ last \in BOOLEAN /\ size \in Nat /\ top = calls[l]
        /\ new = SkippedBy(calls, top, size, last)
    <3>1. new = Replaced(calls, [top EXCEPT !.read = top.read + size, !.last = last])
      BY <1>5, <2>1
    <3>2. new = SkippedBy(calls, top, size, last)
      BY ONLY <3>1 DEF SkippedBy
    <3> QED  BY <1>3, <1>5, <2>1, <3>2 DEF Top
  <2>3. Len(new) = l /\ new[l].max = top.max /\ new[l].read = top.read + size
        /\ new[l].last = last
    BY ONLY <2>2, GoesOn
  <2> QED  BY ONLY <2>1, <2>2, <2>3
<1>7. Top' = new[1] /\ Len(readers') = 1
  BY <1>4, <1>6 DEF Top
<1>8. Size' = Size
  BY <1>1 DEF Size, Bytes
<1>9. AtRoot'
  BY <1>1, <1>3, <1>6, <1>7, <1>8 DEF AtRoot
<1> QED  BY <1>1, <1>6, <1>7, <1>9

LEMMA BeforeSkips ==
  ASSUME tree \in Trees, file \in Seq(Nat), moovEnd \in Nat, readers \in Seq(Calls),
         NEW B, Places(file, moovEnd, B), Before(B), Behind(file, moovEnd),
         phase = "reading", ReadLeaf \/ (ReadTable /\ TableFits)
  PROVE  Before(B)' /\ UNCHANGED <<phase, tree, file, moovEnd, damaged>>
<1>0. Whole /\ More /\ Complete /\ ~Bad /\ (IsLarge => LargeFits) /\ AtRoot
      /\ Type \notin {Moov, Container}
  <2>1. Moov # Table /\ Container # Table
    BY WordAssumption
  <2> QED  BY <2>1 DEF ReadLeaf, ReadTable, Whole, Complete, Before
<1>1. PICK p \in B : /\ p \in Nat /\ pos = 4 * p
                     /\ Size <= pos \/ AtPlain(B, p) \/ AtMoov(B, p)
  BY BeforeCases
<1>2. Top.max = Size /\ Top.read = pos /\ ~Top.last /\ seen = <<>>
      /\ (moovEnd > 0 => pos < moovEnd)
  BY DEF Before, AtRoot
<1>3. Size \in Nat /\ pos \in Nat
  BY <1>1 DEF Size, Bytes
<1>5. pos + 8 < Size
  BY <1>0, <1>2, <1>3 DEF More, Header
<1>6. ~(Size <= pos)
  BY <1>3, <1>5
<1>7. ~AtMoov(B, p)
  <2> SUFFICES ASSUME AtMoov(B, p) PROVE FALSE
    OBVIOUS
  <2>1. Type = Moov
    BY <1>1, <1>5, MoovHeader DEF AtMoov
  <2> QED  BY <1>0, <2>1
<1>8. PICK q \in B : Plain(file, p, q) /\ (moovEnd > 0 => q <= MoovAt(moovEnd))
  BY <1>1, <1>6, <1>7 DEF AtPlain
<1>9. q \in Nat
  BY DEF Places
<1>10. RealSize = 4 * (q - p) /\ Word(pos) # 0 /\ p < q /\ Type \notin Kinds
  BY <1>0, <1>1, <1>2, <1>5, <1>8, <1>9, PlainHeader
<1>11. RealSize \in Nat /\ pos + RealSize = 4 * q
  BY <1>1, <1>9, <1>10
<1>12. Skip(Inner \div 4)
  <2>1. CASE ReadLeaf
    BY <2>1 DEF ReadLeaf
  <2>2. CASE ReadTable
    BY <1>10, <2>2 DEF ReadTable, Kinds
  <2> QED  BY <2>1, <2>2
<1>13. /\ AtRoot' /\ seen' = seen /\ pos' = pos + RealSize
       /\ Top'.last = (Word(pos) = 0)
       /\ UNCHANGED <<phase, tree, file, moovEnd, damaged>>
  <2> DEFINE n == Inner \div 4
  <2>1. Skip(n)
    BY <1>12
  <2> HIDE DEF n
  <2> QED  BY <1>0, <1>3, <1>10, <1>11, <2>1, RootSkips
<1>14. pos' = 4 * q
  BY <1>11, <1>13
<1>15. moovEnd' > 0 => pos' < moovEnd'
  <2> SUFFICES ASSUME moovEnd > 0 PROVE 4 * q < moovEnd
    BY <1>13, <1>14
  <2> DEFINE m == MoovAt(moovEnd)
             w == MoovWords
  <2>1. m \in Nat /\ w \in Nat /\ w >= 2 /\ moovEnd = 4 * (m + w) /\ q <= m
    BY <1>8, BehindIs
  <2> HIDE DEF m, w
  <2> QED  BY ONLY <1>9, <2>1
<1>16. Before(B)'
  BY <1>2, <1>10, <1>13, <1>14, <1>15 DEF Before
<1> QED  BY <1>13, <1>16

(* The moov is entered.                                                    *)
LEMMA BeforeEnters ==
  ASSUME tree \in Trees, file \in Seq(Nat), moovEnd \in Nat, readers \in Seq(Calls),
         NEW B, Places(file, moovEnd, B), Before(B), Behind(file, moovEnd),
         phase = "reading", Enter
  PROVE  Inside(B)' /\ UNCHANGED <<phase, tree, file, moovEnd, damaged>>
<1>0. Whole /\ More /\ Complete /\ ~Bad /\ (IsLarge => LargeFits) /\ AtRoot /\ ~Truncated
      /\ Type \in {Moov, Container}
  BY DEF Enter, Whole, Complete, Before
<1>1. PICK p \in B : /\ p \in Nat /\ pos = 4 * p
                     /\ Size <= pos \/ AtPlain(B, p) \/ AtMoov(B, p)
  BY BeforeCases
<1>2. Top.max = Size /\ Top.read = pos /\ seen = <<>> /\ Len(readers) = 1
  BY DEF Before, AtRoot
<1>3. Size \in Nat /\ pos \in Nat
  BY <1>1 DEF Size, Bytes
<1>5. pos + 8 < Size
  BY <1>0, <1>2, <1>3 DEF More, Header
<1>6. ~(Size <= pos)
  BY <1>3, <1>5
<1>7. ~AtPlain(B, p)
  <2> SUFFICES ASSUME NEW q \in B, Plain(file, p, q) PROVE FALSE
    BY DEF AtPlain
  <2>1. q \in Nat
    BY DEF Places
  <2>2. Type \notin Kinds
    BY <1>0, <1>1, <1>2, <1>5, <2>1, PlainHeader
  <2> QED  BY <1>0, <2>2 DEF Kinds
<1>8. AtMoov(B, p)
  BY <1>1, <1>6, <1>7
<1>9. /\ Type = Moov /\ ~IsLarge /\ RealSize = 4 * MoovWords /\ HeaderSize = 8
  BY <1>1, <1>5, <1>8, MoovHeader DEF AtMoov
<1>a. PICK w, m : w = MoovWords /\ m = MoovAt(moovEnd)
  OBVIOUS
<1>10. w \in Nat /\ w >= 2 /\ m = p /\ moovEnd = 4 * (p + w) /\ moovEnd > 0
       /\ Holds(file, m) /\ m + w \in B
  BY <1>8, <1>a, MoovWordsType DEF AtMoov
<1>11. SizeOf(tree, 1) = 4 * w /\ tree[1].kind = Moov /\ tree[1].level = 1 /\ tree[1].words = 0
       /\ 1 \in 1 .. Len(tree) /\ WordsTo(tree)[0] = 0
  <2>1. 1 \in 1 .. Len(tree) /\ WordsTo(tree)[0] = 0 /\ SizeOf(tree, 1) = 4 * w
    BY <1>a, SizeOfMoov DEF MoovWords
  <2> QED  BY <2>1, TreeBoxes
<1>12. moovEnd <= Size
  <2>1. ~(Size < pos + 4 * w)
    BY <1>0, <1>2, <1>9, <1>a DEF Truncated
  <2> QED  BY ONLY <1>1, <1>3, <1>10, <2>1
<1>13. UNCHANGED <<phase, tree, file, moovEnd, damaged>> /\ pos' = pos + 8 /\ seen' = Seen(0)
  BY <1>9 DEF Enter, writeVars, fileVars
<1>16. RealSize = 4 * w /\ RealSize \in Nat /\ Inner = 4 * w - 8 /\ Inner \in Nat
  <2>1. RealSize = 4 * w /\ HeaderSize = 8
    BY <1>9, <1>a
  <2> QED  BY ONLY <1>10, <2>1 DEF Inner
<1>17. PICK new : new = readers'
  OBVIOUS
<1>18. new = Append(Replaced(readers, [Top EXCEPT !.size = RealSize, !.boxRead = HeaderSize]),
                    Reader(Type, Inner))
  BY <1>17 DEF Enter
<1>19. /\ Len(new) = 2 /\ new[1].max = Size /\ new[1].read = pos
       /\ new[1].size = 4 * w /\ new[1].boxRead = 8
       /\ new[2].max = 4 * w - 8 /\ new[2].read = 0 /\ ~new[2].last
  <2>1. PICK calls, l, size, head, type, max, top :
          calls = readers /\ l = Len(readers) /\ size = RealSize /\ head = HeaderSize
          /\ type = Type /\ max = Inner /\ top = Top
    OBVIOUS
  <2>2. /\ calls \in Seq(Calls) /\ l \in Nat /\ l = 1 /\ l >= 1 /\ l = Len(calls)
        /\ top = calls[l] /\ size \in Nat /\ head \in Nat /\ type \in Nat /\ max \in Nat
        /\ new = EnteredWith(calls, top, size, head, type, max)
    <3>1. new = Append(Replaced(calls, [top EXCEPT !.size = size, !.boxRead = head]),
                       Reader(type, max))
      BY <1>18, <2>1
    <3>2. new = EnteredWith(calls, top, size, head, type, max)
      BY ONLY <3>1 DEF EnteredWith
    <3> QED  BY <1>2, <1>9, <1>16, <2>1, <3>2, WordAssumption DEF Top
  <2>3. IsEntered(EnteredWith(calls, top, size, head, type, max),
                  calls, l, top, size, head, max)
    BY ONLY <2>2, HandsOver
  <2>4. l + 1 = 2 /\ size = 4 * w /\ head = 8 /\ max = 4 * w - 8 /\ top.max = Size
        /\ top.read = pos
    BY <1>2, <1>9, <1>16, <2>1, <2>2
  <2>5. IsEntered(new, calls, l, top, size, head, max)
    BY ONLY <2>2, <2>3
  <2> QED  BY ONLY <2>2, <2>4, <2>5 DEF IsEntered
<1>20. Top' = new[2] /\ Len(readers') = 2
  BY <1>17, <1>19 DEF Top
<1>22. Size' = Size
  BY <1>13 DEF Size, Bytes
<1>23. PICK g : g[2] = 1 /\ OnPath(tree, m, Size, new, g)
  <2>1. /\ Len(new) = 2 /\ new[1].read = 4 * m /\ new[1].max = Size
        /\ new[1].size = SizeOf(tree, 1) /\ new[1].boxRead = 8
        /\ new[2].max = SizeOf(tree, 1) - 8 /\ ~new[2].last
    BY <1>1, <1>10, <1>11, <1>19
  <2>2. PICK size : size = Size
    OBVIOUS
  <2>3. \E g : g[2] = 1 /\ OnPath(tree, m, size, new, g)
    BY ONLY tree \in Trees, <1>1, <1>10, <2>1, <2>2, PathStart
  <2> QED  BY <2>2, <2>3
<1>24. seen' = ShownTo(tree)[1]
  <2> DEFINE k == 1
  <2>1. /\ k \in 1 .. Len(tree) /\ Type = tree[k].kind /\ Len(readers) = tree[k].level
        /\ RealSize = SizeOf(tree, k) /\ 0 = tree[k].words
    BY <1>2, <1>9, <1>11, <1>16
  <2>2. seen = ShownTo(tree)[k - 1]
    <3>1. k - 1 = 0
      OBVIOUS
    <3> QED  BY <1>2, <3>1, ShownToIs
  <2> HIDE DEF k
  <2>3. Seen(0) = ShownTo(tree)[k]
    BY <2>1, <2>2, SeenIs
  <2> QED  BY <1>13, <2>3 DEF k
<1>25. PICK k : AtBox(tree, m, 0, 1, pos', seen', k)
  <2> DEFINE i == 1
  <2>1. i \in 1 .. Len(tree) /\ tree[i].kind \in {Moov, Container} /\ m \in Nat
    BY <1>1, <1>10, <1>11
  <2>2. WordsTo(tree)[i - 1] = 0
    BY <1>11
  <2> HIDE DEF i
  <2>3. \E k : AtBox(tree, m, 0, i, 4 * (m + WordsTo(tree)[i - 1]) + 8, ShownTo(tree)[i], k)
    BY <2>1, FirstIn
  <2>4. 4 * (m + WordsTo(tree)[i - 1]) + 8 = pos'
    BY ONLY <1>1, <1>10, <1>13, <2>2
  <2>5. i = 1
    BY DEF i
  <2> QED  BY ONLY <1>24, <2>3, <2>4, <2>5, Zenon
<1>26. m = MoovAt(moovEnd)' /\ Holds(file, MoovAt(moovEnd))' /\ MoovWords' = w
  <2>1. tree' = tree /\ moovEnd' = moovEnd /\ file' = file
    BY <1>13
  <2>2. MoovAt(moovEnd)' = MoovAt(moovEnd')
    BY <2>1, SameTree
  <2>3. \A f, b : Holds(f, b)' <=> Holds(f, b)
    BY <2>1, SameTree
  <2>4. MoovWords' = MoovWords
    BY <2>1, SameTree
  <2>5. MoovAt(moovEnd)' = m
    BY ONLY <1>a, <2>1, <2>2
  <2>6. Holds(file', m)
    BY <1>10, <2>1, Zenon
  <2>7. Holds(file, MoovAt(moovEnd))'
    BY ONLY <2>3, <2>5, <2>6
  <2> QED  BY ONLY <1>a, <2>4, <2>5, <2>7
<1>27. Inside(B)'
  <2>1. /\ tree' = tree /\ moovEnd' > 0 /\ moovEnd' <= Size'
    BY <1>10, <1>12, <1>13, <1>22
  <2>2. Len(readers') = 2 /\ 2 >= 2
    BY <1>20
  <2>3. OnPath(tree', m, Size', readers', g)
    BY ONLY <1>17, <1>22, <1>23, <2>1
  <2>4. AtBox(tree', m, Top'.read, g[2], pos', seen', k)
    BY ONLY <1>19, <1>20, <1>23, <1>25, <2>1
  <2>5. m + w \in B
    BY <1>10
  <2> QED  BY ONLY <1>26, <2>1, <2>2, <2>3, <2>4, <2>5 DEF Inside
<1> QED  BY <1>13, <1>27

-----------------------------------------------------------------------------
(* Behind the moov there is no word that is taken for the type of a box.   *)
LEMMA AfterType ==
  ASSUME tree \in Trees, file \in Seq(Nat), pos \in Nat, NEW B, After(B),
         Behind(file, moovEnd), phase = "reading", More
  PROVE  Type \notin Kinds
<1>1. Top.max = Size /\ Top.read = pos /\ moovEnd > 0 /\ pos >= moovEnd
  BY DEF After, AtRoot
<1>2. PICK e \in Nat : moovEnd = 4 * e
  <2>1. /\ MoovAt(moovEnd) \in Nat /\ MoovWords \in Nat
        /\ moovEnd = 4 * (MoovAt(moovEnd) + MoovWords)
    BY <1>1, BehindIs
  <2>2. MoovAt(moovEnd) + MoovWords \in Nat
    BY <2>1
  <2> QED  BY <2>1, <2>2
<1>3. pos + 8 < Size /\ Size = 4 * Len(file) /\ Len(file) \in Nat
  BY <1>1 DEF More, Header, Size, Bytes
<1>4. PICK k : k = (pos + 4) \div 4 + 1
  OBVIOUS
<1>5. k \in 1 .. Len(file) /\ 4 * k >= moovEnd + 8
  BY ONLY pos \in Nat, <1>1, <1>2, <1>3, <1>4
<1>6. Type = file[k]
  BY <1>4 DEF Type, Word
<1> QED  BY <1>1, <1>5, <1>6 DEF Behind

LEMMA AfterFound ==
  ASSUME ReaderInv, FileInv, phase = "reading", NEW B, After(B)
  PROVE  Found
<1>1. Top.read <= Top.max /\ Top.max = Size /\ Top.read = pos
  BY TopType DEF After, AtRoot
<1>2. Size \in Nat /\ pos \in Nat /\ moovEnd \in Nat
  BY TopType DEF ReaderInv, FileInv
<1>3. moovEnd > 0 /\ pos >= moovEnd /\ seen = ShownTo(tree)[Len(tree)]
  BY DEF After
<1>4. moovEnd <= Size
  BY <1>1, <1>2, <1>3
<1> QED  BY <1>3, <1>4 DEF Found

(* Behind the moov the reader is at a box, at the end, or at a word left   *)
(* over, and takes what this one says for a box that was cut.              *)
LEMMA AfterCases ==
  ASSUME tree \in Trees, file \in Seq(Nat), moovEnd \in Nat, NEW B, Places(file, moovEnd, B),
         Behind(file, moovEnd), phase = "reading", After(B), StaleQuiet, More
  PROVE  \E p \in B : /\ p \in Nat /\ pos = 4 * p /\ pos + 8 < Size /\ pos > 0
                      /\ \/ \E q \in B : Plain(file, p, q)
                         \/ ~IsLarge /\ Truncated
<1>1. Top.max = Size /\ Top.read = pos /\ moovEnd > 0 /\ pos >= moovEnd
  BY DEF After, AtRoot
<1>2. PICK p \in B : pos = 4 * p
  BY DEF After
<1>3. p \in Nat /\ Place(file, moovEnd, B, p)
  BY DEF Places
<1>4. pos \in Nat /\ Size = 4 * Len(file) /\ Len(file) \in Nat
  BY <1>2, <1>3 DEF Size, Bytes
<1>5. pos + 8 < Size /\ pos > 0
  BY <1>1, <1>4 DEF More, Header
<1>6. ~(Len(file) <= p)
  BY <1>2, <1>3, <1>4, <1>5
<1>7. p # MoovAt(moovEnd)
  <2>1. PICK m, w : m = MoovAt(moovEnd) /\ w = MoovWords
    OBVIOUS
  <2>2. m \in Nat /\ w \in Nat /\ w >= 2 /\ moovEnd = 4 * (m + w)
    BY <1>1, <2>1, BehindIs
  <2> QED  BY ONLY <1>1, <1>2, <1>3, <2>1, <2>2
<1>8. CASE \E q \in B : Plain(file, p, q)
  BY <1>2, <1>3, <1>5, <1>8
<1>9. CASE Leftover(file, p)
  <2>1. p + 1 \in 1 .. Len(file) /\ Size <= pos + 24
    BY <1>2, <1>3, <1>4, <1>6, <1>9 DEF Leftover
  <2>2. PICK word : word = file[p + 1]
    OBVIOUS
  <2>3. Word(pos) = word
    BY <1>2, <1>3, <2>2, WordAt
  <2>4. word \in Nat /\ (word = 0 \/ word > 24)
    <3>1. word \in Stale
      BY <1>9, <2>1, <2>2 DEF Leftover
    <3> QED  BY <3>1, WordAssumption DEF StaleQuiet
  <2>5. ~IsLarge
    BY <2>3, <2>4 DEF IsLarge, Large
  <2>6. Size < pos + RealSize
    <3>1. CASE word = 0
      <4>0. Word(pos) = 0
        BY ONLY <2>3, <3>1
      <4>1. RealSize = Size
        BY ONLY <2>5, <4>0, Zenon DEF RealSize
      <4> QED  BY <1>4, <1>5, <4>1
    <3>2. CASE word > 24
      <4>1. RealSize = word
        <5>1. word # 0
          BY <2>4, <3>2
        <5> QED  BY <2>3, <2>5, <5>1 DEF RealSize
      <4> QED  BY ONLY <1>4, <2>1, <2>4, <3>2, <4>1
    <3> QED  BY <2>4, <3>1, <3>2
  <2>7. Truncated
    BY <1>1, <2>6 DEF Truncated
  <2> QED  BY <1>2, <1>3, <1>5, <2>5, <2>7
<1>10. (\E q \in B : Plain(file, p, q)) \/ Leftover(file, p)
  BY <1>3, <1>6, <1>7, Zenon DEF Place
<1> QED  BY <1>8, <1>9, <1>10

LEMMA AfterRefuses ==
  ASSUME tree \in Trees, file \in Seq(Nat), moovEnd \in Nat, NEW B, Places(file, moovEnd, B),
         Behind(file, moovEnd), phase = "reading", After(B), StaleQuiet, More,
         \/ NotMp4
         \/ ~NotMp4 /\ IsLarge /\ ~LargeFits
         \/ Complete /\ Bad
  PROVE  Word(pos) = Large /\ Size - pos < 2 * Header
<1>1. PICK p \in B : /\ p \in Nat /\ pos = 4 * p /\ pos + 8 < Size /\ pos > 0
                     /\ \/ \E q \in B : Plain(file, p, q)
                        \/ ~IsLarge /\ Truncated
  BY AfterCases
<1>2. Top.max = Size /\ Top.read = pos
  BY DEF After, AtRoot
<1>3. ~NotMp4
  BY <1>1, <1>2 DEF NotMp4, IsFirst
<1>4. CASE \E q \in B : Plain(file, p, q)
  <2>1. PICK q \in B : Plain(file, p, q)
    BY <1>4
  <2>2. q \in Nat
    BY DEF Places
  <2>3. /\ IsLarge /\ ~LargeFits => Word(pos) = Large /\ Size - pos < 2 * Header
        /\ (IsLarge => LargeFits) => RealSize = 4 * (q - p) /\ RealSize >= HeaderSize
    BY <1>1, <1>2, <2>1, <2>2, PlainHeader
  <2>4. (IsLarge => LargeFits) => ~Bad
    <3> SUFFICES ASSUME IsLarge => LargeFits PROVE ~Bad
      OBVIOUS
    <3>1. RealSize \in Int /\ RealSize >= HeaderSize /\ HeaderSize \in Int
      BY <1>1, <2>2, <2>3 DEF HeaderSize, Header
    <3> QED  BY ONLY <3>1 DEF Bad
  <2> QED  BY <1>3, <2>3, <2>4 DEF Complete
<1>5. CASE ~IsLarge /\ Truncated
  BY <1>3, <1>5 DEF Complete
<1> QED  BY <1>1, <1>4, <1>5

LEMMA AfterSkips ==
  ASSUME RoomInv, ReaderInv, FileInv, NEW B, Places(file, moovEnd, B), After(B),
         Behind(file, moovEnd), phase = "reading", ReadLeaf
  PROVE  After(B)' /\ UNCHANGED <<phase, tree, file, moovEnd, damaged>>
<1>0. Whole /\ More /\ Complete /\ ~Bad /\ (IsLarge => LargeFits) /\ AtRoot /\ ~Truncated
      /\ Skip(Inner \div 4)
  BY DEF ReadLeaf, Whole, Complete, After
<1>1. tree \in Trees /\ file \in Seq(Nat) /\ moovEnd \in Nat /\ pos \in Nat
      /\ readers \in Seq(Calls)
  BY DEF RoomInv, FileInv, ReaderInv
<1>2. Type \notin Kinds
  BY <1>0, <1>1, AfterType
<1>3. RealSize \in Nat
  BY <1>0, HeaderInFile
<1>4. /\ AtRoot' /\ seen' = seen /\ pos' = pos + RealSize
      /\ UNCHANGED <<phase, tree, file, moovEnd, damaged>>
  <2>1. PICK n : n = Inner \div 4
    OBVIOUS
  <2>2. Skip(n)
    BY <1>0, <2>1
  <2> QED  BY ONLY <1>0, <1>1, <1>2, <1>3, <2>2, RootSkips
<1>5. moovEnd > 0 /\ pos >= moovEnd /\ seen = ShownTo(tree)[Len(tree)]
  BY DEF After
<1>6. pos' >= moovEnd'
  BY <1>1, <1>3, <1>4, <1>5
<1>7. StaleQuiet => \E p \in B : pos' = 4 * p
  <2> SUFFICES ASSUME StaleQuiet PROVE \E p \in B : pos' = 4 * p
    OBVIOUS
  <2>1. PICK p \in B : /\ p \in Nat /\ pos = 4 * p /\ pos + 8 < Size
                       /\ \E q \in B : Plain(file, p, q)
    BY <1>0, <1>1, AfterCases
  <2>2. PICK q \in B : Plain(file, p, q)
    BY <2>1
  <2>3. q \in Nat
    BY DEF Places
  <2>4. Top.max = Size /\ Top.read = pos
    BY DEF After, AtRoot
  <2>5. RealSize = 4 * (q - p)
    BY <1>0, <1>1, <2>1, <2>2, <2>3, <2>4, PlainHeader
  <2>6. pos' = 4 * q
    BY ONLY <1>4, <2>1, <2>3, <2>5
  <2> QED  BY <2>6
<1> QED  BY <1>4, <1>5, <1>6, <1>7 DEF After, StaleQuiet

-----------------------------------------------------------------------------
(* Where the reader is inside a box.                                       *)
CursorAt(t, m, i, read, at, k, max, size) ==
  /\ k \in i + 1 .. LastIn(t, i) + 1 /\ k - 1 \in 0 .. Len(t)
  /\ WordsTo(t)[k - 1] \in Nat /\ WordsTo(t)[LastIn(t, i)] \in Nat
  /\ WordsTo(t)[i - 1] \in Nat
  /\ at \in Nat /\ read \in Int /\ max \in Int
  /\ WordsTo(t)[k - 1] <= WordsTo(t)[LastIn(t, i)]
  /\ ~(at < size /\ read + 8 < max) =>
       WordsTo(t)[LastIn(t, i)] - WordsTo(t)[k - 1] <= 2
  /\ at < size /\ read + 8 < max =>
       /\ WordsTo(t)[LastIn(t, i)] - WordsTo(t)[k - 1] > 2
       /\ k \in i + 1 .. LastIn(t, i) /\ k \in 2 .. Len(t)
       /\ t[k].level = t[i].level + 1
       /\ ~(t[k].kind = Table /\ t[k].words = 0)
       /\ SizeOf(t, k) \in Nat /\ read + SizeOf(t, k) <= max

LEMMA CursorIs ==
  ASSUME NEW t \in Trees, NEW m \in Nat, NEW i \in 1 .. Len(t),
         t[i].kind \in {Moov, Container}, NEW read, NEW at, NEW shown, NEW k,
         AtBox(t, m, read, i, at, shown, k), NEW max, max = SizeOf(t, i) - 8,
         NEW size \in Nat, 4 * (m + WordsTo(t)[Len(t)]) <= size
  PROVE  CursorAt(t, m, i, read, at, k, max, size)
<1>0. Len(t) \in Nat /\ i \in Nat /\ LastIn(t, i) \in i .. Len(t)
  BY TreeBoxes, LastInIs
<1>1. /\ k \in i + 1 .. LastIn(t, i) + 1
      /\ k <= LastIn(t, i) => t[k].level = t[i].level + 1
      /\ at = 4 * (m + WordsTo(t)[k - 1])
      /\ read = 4 * (WordsTo(t)[k - 1] - WordsTo(t)[i - 1]) - 8
      /\ k <= LastIn(t, i) => ~(t[k].kind = Table /\ t[k].words = 0)
  BY DEF AtBox, Meets
<1>2. PICK l, n : l = LastIn(t, i) /\ n = Len(t)
  OBVIOUS
<1>3. k - 1 \in 0 .. n /\ k - 1 <= l /\ l \in 0 .. n /\ n \in 0 .. n /\ l <= n /\ l \in Nat /\ k \in Nat
      /\ k \in i + 1 .. l + 1
  BY ONLY <1>0, <1>1, <1>2
<1>4. PICK a, b, c, e : /\ a = WordsTo(t)[i - 1] /\ b = WordsTo(t)[k - 1]
                        /\ c = WordsTo(t)[l] /\ e = WordsTo(t)[n]
  OBVIOUS
<1>5. a \in Nat /\ max = 4 * (c - a) - 8
  BY <1>2, <1>4, SizeOfIs
<1>6. b \in Nat /\ c \in Nat /\ b <= c
  BY ONLY t \in Trees, <1>2, <1>3, <1>4, WordsToGrows
<1>7. e \in Nat /\ c <= e
  BY ONLY t \in Trees, <1>2, <1>3, <1>4, WordsToGrows
<1>8. at = 4 * (m + b) /\ read = 4 * (b - a) - 8 /\ 4 * (m + e) <= size
  BY <1>1, <1>2, <1>4
<1>9. /\ at \in Nat /\ read \in Int /\ max \in Int
      /\ ~(at < size /\ read + 8 < max) => c - b <= 2
      /\ at < size /\ read + 8 < max => c - b > 2
  BY ONLY m \in Nat, size \in Nat, <1>5, <1>6, <1>7, <1>8
<1>10. ASSUME at < size, read + 8 < max
       PROVE  /\ k \in i + 1 .. l /\ k \in 2 .. n
              /\ t[k].level = t[i].level + 1
              /\ ~(t[k].kind = Table /\ t[k].words = 0)
              /\ SizeOf(t, k) \in Nat /\ read + SizeOf(t, k) <= max
  <2>1. k # l + 1
    <3> SUFFICES ASSUME k = l + 1 PROVE FALSE
      OBVIOUS
    <3>1. k - 1 = l
      BY <1>3
    <3>2. b = c
      BY <1>4, <3>1
    <3> QED  BY ONLY <1>6, <1>9, <1>10, <3>2
  <2>2. k \in i + 1 .. l /\ k <= l /\ k \in 2 .. n /\ k \in 1 .. n
    BY ONLY <1>0, <1>2, <1>3, <2>1
  <2>3. LastIn(t, k) <= l
    BY <1>2, <2>2, LastInNested
  <2>4. SizeOf(t, k) = 4 * (WordsTo(t)[LastIn(t, k)] - b) /\ SizeOf(t, k) \in Nat
        /\ LastIn(t, k) \in k .. n
    BY <1>2, <1>4, <2>2, SizeOfIs
  <2>5. WordsTo(t)[LastIn(t, k)] <= c /\ WordsTo(t)[LastIn(t, k)] \in Nat
    <3>1. PICK j : j = LastIn(t, k)
      OBVIOUS
    <3>2. j \in 0 .. n /\ j <= l
      BY ONLY <1>3, <2>2, <2>3, <2>4, <3>1
    <3> QED  BY ONLY t \in Trees, <1>2, <1>3, <1>4, <3>1, <3>2, WordsToGrows
  <2>6. PICK d : d = WordsTo(t)[LastIn(t, k)]
    OBVIOUS
  <2>7. read + SizeOf(t, k) <= max
    BY ONLY SMTT(30), <1>5, <1>6, <1>8, <2>4, <2>5, <2>6
  <2> QED  BY <1>1, <1>2, <2>2, <2>4, <2>7
<1> QED  BY <1>1, <1>2, <1>3, <1>4, <1>5, <1>6, <1>9, <1>10 DEF CursorAt

(* The innermost call is in box i of the tree, at box k.                   *)
IsInside(n, m, f, i, k) ==
  /\ n \in Nat /\ n >= 2 /\ n = Len(readers) /\ m = MoovAt(moovEnd) /\ m \in Nat
  /\ OnPath(tree, m, Size, readers, f)
  /\ i \in 1 .. Len(tree) /\ i = f[n] /\ tree[i].kind \in {Moov, Container}
  /\ tree[i].level = n - 1
  /\ Top.max = SizeOf(tree, i) - 8 /\ ~Top.last
  /\ AtBox(tree, m, Top.read, i, pos, seen, k)
  /\ Size \in Nat /\ Size = 4 * Len(file) /\ 4 * (m + WordsTo(tree)[Len(tree)]) <= Size
  /\ Holds(file, m)

LEMMA InsideIs ==
  ASSUME tree \in Trees, file \in Seq(Nat), readers \in Seq(Calls),
         Behind(file, moovEnd), NEW B, Inside(B)
  PROVE  \E n, m, f, i, k : IsInside(n, m, f, i, k)
<1>1. PICK f, k : /\ OnPath(tree, MoovAt(moovEnd), Size, readers, f)
                  /\ AtBox(tree, MoovAt(moovEnd), Top.read, f[Len(readers)], pos, seen, k)
  BY DEF Inside
<1>2. PICK n, m : n = Len(readers) /\ m = MoovAt(moovEnd)
  OBVIOUS
<1>3. n \in Nat /\ n >= 2 /\ m \in Nat /\ moovEnd <= Size /\ moovEnd = 4 * (m + MoovWords)
      /\ Holds(file, m)
  <2>1. moovEnd > 0 /\ moovEnd <= Size /\ Len(readers) >= 2 /\ Holds(file, MoovAt(moovEnd))
    BY DEF Inside
  <2>2. MoovAt(moovEnd) \in Nat /\ moovEnd = 4 * (MoovAt(moovEnd) + MoovWords)
    BY <2>1, BehindIs
  <2> QED  BY ONLY readers \in Seq(Calls), <1>2, <2>1, <2>2
<1>4. PICK i : i = f[n]
  OBVIOUS
<1>5. n \in 2 .. n
  BY <1>3
<1>6. i \in 1 .. Len(tree) /\ tree[i].kind \in {Moov, Container} /\ tree[i].level = n - 1
      /\ readers[n].max = SizeOf(tree, i) - 8 /\ ~readers[n].last
  BY <1>1, <1>2, <1>4, <1>5 DEF OnPath
<1>7. Top = readers[n]
  BY <1>2 DEF Top
<1>8. Size \in Nat /\ Size = 4 * Len(file)
  BY DEF Size, Bytes
<1>9. 4 * (m + WordsTo(tree)[Len(tree)]) <= Size
  BY <1>3 DEF MoovWords
<1>10. OnPath(tree, m, Size, readers, f) /\ AtBox(tree, m, Top.read, i, pos, seen, k)
  BY <1>1, <1>2, <1>4
<1>11. IsInside(n, m, f, i, k)
  BY ONLY <1>2, <1>3, <1>4, <1>6, <1>7, <1>8, <1>9, <1>10 DEF IsInside
<1> QED  BY <1>11

(* The header of a box of the moov says of it what the tree does.          *)
LEMMA HeaderInside ==
  ASSUME tree \in Trees, file \in Seq(Nat), phase = "reading", NEW n, NEW m, NEW f, NEW i, NEW k,
         IsInside(n, m, f, i, k), More
  PROVE  /\ k \in i + 1 .. LastIn(tree, i) /\ k \in 1 .. Len(tree) /\ tree[k].level = n
         /\ Type = tree[k].kind /\ Word(pos) # 0 /\ ~IsLarge
         /\ RealSize = SizeOf(tree, k) /\ HeaderSize = 8 /\ RealSize \in Nat
         /\ Inner \in Nat /\ Inner = SizeOf(tree, k) - 8
         /\ ~NotMp4 /\ ~Truncated /\ ~Bad
         /\ tree[k].kind = Leaf => Inner \div 4 = tree[k].words
         /\ tree[k].kind = Table => TableFits /\ Word(pos + HeaderSize + 4) = tree[k].words
<1>0. /\ n \in Nat /\ n >= 2 /\ n = Len(readers) /\ m \in Nat
      /\ i \in 1 .. Len(tree) /\ tree[i].kind \in {Moov, Container} /\ tree[i].level = n - 1
      /\ Top.max = SizeOf(tree, i) - 8
      /\ AtBox(tree, m, Top.read, i, pos, seen, k)
      /\ Size \in Nat /\ Size = 4 * Len(file) /\ 4 * (m + WordsTo(tree)[Len(tree)]) <= Size
      /\ Holds(file, m)
  BY DEF IsInside
<1>1. pos < Size /\ Top.read + 8 < Top.max
  BY DEF More, Header
<1>2. /\ WordsTo(tree)[k - 1] \in Nat /\ k \in i + 1 .. LastIn(tree, i) /\ k \in 2 .. Len(tree)
      /\ tree[k].level = tree[i].level + 1 /\ ~(tree[k].kind = Table /\ tree[k].words = 0)
      /\ SizeOf(tree, k) \in Nat /\ Top.read + SizeOf(tree, k) <= Top.max
      /\ Top.read \in Int /\ Top.max \in Int
  <2>1. PICK max, size, read, at, shown :
          max = Top.max /\ size = Size /\ read = Top.read /\ at = pos /\ shown = seen
    OBVIOUS
  <2>2. AtBox(tree, m, read, i, at, shown, k)
    BY <1>0, <2>1
  <2>3. max = SizeOf(tree, i) - 8 /\ size \in Nat /\ 4 * (m + WordsTo(tree)[Len(tree)]) <= size
        /\ at < size /\ read + 8 < max
    BY <1>0, <1>1, <2>1
  <2>4. CursorAt(tree, m, i, read, at, k, max, size)
    BY ONLY tree \in Trees, <1>0, <2>2, <2>3, CursorIs
  <2>5. /\ WordsTo(tree)[k - 1] \in Nat /\ k \in i + 1 .. LastIn(tree, i) /\ k \in 2 .. Len(tree)
        /\ tree[k].level = tree[i].level + 1 /\ ~(tree[k].kind = Table /\ tree[k].words = 0)
        /\ SizeOf(tree, k) \in Nat /\ read + SizeOf(tree, k) <= max
        /\ read \in Int /\ max \in Int
    BY ONLY <2>3, <2>4, Zenon DEF CursorAt
  <2> QED  BY ONLY <2>1, <2>5
<1>3. k \in 1 .. Len(tree) /\ k \in Nat /\ tree[k].level = n /\ Len(tree) \in Nat
  <2>1. Len(tree) \in Nat
    BY TreeBoxes
  <2>2. k \in 2 .. Len(tree) /\ tree[k].level = (n - 1) + 1
    BY <1>0, <1>2
  <2>3. n \in Nat
    BY <1>0
  <2> QED  BY ONLY <2>1, <2>2, <2>3
<1>4. PICK a, p, s, j, w : /\ a = At(k) /\ p = m + a /\ s = SizeOf(tree, k)
                           /\ j = LastIn(tree, k) /\ w = tree[k].words
  OBVIOUS
<1>5. a \in Nat /\ p \in Nat /\ pos = 4 * p
  <2>1. pos = 4 * (m + WordsTo(tree)[k - 1])
    BY <1>0 DEF AtBox
  <2>2. a = WordsTo(tree)[k - 1]
    BY <1>4 DEF At
  <2>3. pos = 4 * (m + a) /\ a \in Nat /\ m \in Nat /\ p = m + a
    BY <1>0, <1>2, <1>4, <2>1, <2>2
  <2> QED  BY ONLY <2>3
<1>6. j \in k .. Len(tree) /\ s = 4 * (WordsTo(tree)[j] - a) /\ WordsTo(tree)[j] \in Nat
      /\ s \in Nat
  BY <1>3, <1>4, SizeOfIs DEF At
<1>7. WordsTo(tree)[j] <= WordsTo(tree)[Len(tree)] /\ WordsTo(tree)[Len(tree)] \in Nat
  <2>1. j \in 0 .. Len(tree) /\ Len(tree) \in 0 .. Len(tree) /\ j <= Len(tree)
    BY <1>3, <1>6, TreeBoxes
  <2> QED  BY <2>1, WordsToGrows
<1>8. pos + s <= Size
  <2>1. PICK c, e : c = WordsTo(tree)[j] /\ e = WordsTo(tree)[Len(tree)]
    OBVIOUS
  <2>2. /\ c \in Nat /\ e \in Nat /\ c <= e /\ s = 4 * (c - a) /\ p = m + a
        /\ m \in Nat /\ Size \in Nat /\ 4 * (m + e) <= Size
    BY <1>0, <1>4, <1>6, <1>7, <2>1
  <2> QED  BY ONLY <1>5, <2>2
<1>9. tree[k].kind \in Kinds /\ w \in Nat
  BY <1>3, <1>4, TreeBoxes
<1>10. /\ s >= 8 /\ At(k + 1) # At(k)
       /\ tree[k].kind = Table => s = 16 + 4 * w /\ w # 0
       /\ tree[k].kind = Leaf => s = 8 + 4 * w
  <2>1. PICK b : b = WordsTo(tree)[k]
    OBVIOUS
  <2>2. At(k + 1) = b /\ At(k) = a /\ WordsTo(tree)[k - 1] = a
    BY <1>3, <1>4, <2>1 DEF At
  <2>3. b \in Nat
    BY <1>3, <2>1, SizeOfIs
  <2>4. CASE tree[k].kind \in {Moov, Container}
    <3>1. s >= 8 /\ b = a + 2
      BY <1>3, <1>4, <2>1, <2>2, <2>4, SizeOfIs
    <3>2. tree[k].kind # Table /\ tree[k].kind # Leaf
      BY <2>4, WordAssumption
    <3> QED  BY <1>5, <2>2, <3>1, <3>2
  <2>5. CASE tree[k].kind = Leaf
    <3>1. s = 8 + 4 * w /\ s = 4 * (b - a)
      BY <1>3, <1>4, <2>1, <2>2, <2>5, SizeOfIs
    <3>2. tree[k].kind # Table
      BY <2>5, WordAssumption
    <3>3. s >= 8 /\ b # a
      BY ONLY <1>5, <1>9, <2>3, <3>1
    <3> QED  BY <2>2, <3>1, <3>2, <3>3
  <2>6. CASE tree[k].kind = Table
    <3>0. w # 0
      BY <1>2, <1>4, <2>6
    <3>1. s = 16 + 4 * w /\ s = 4 * (b - a)
      BY <1>3, <1>4, <2>1, <2>2, <2>6, <3>0, SizeOfIs
    <3>2. tree[k].kind # Leaf
      BY <2>6, WordAssumption
    <3>3. s >= 8 /\ b # a
      BY ONLY <1>5, <1>9, <2>3, <3>1
    <3> QED  BY <2>2, <3>0, <3>1, <3>2, <3>3
  <2> QED  BY <1>9, <2>4, <2>5, <2>6 DEF Kinds
<1>11. /\ Is(file, p + 1, s) /\ Is(file, p + 2, tree[k].kind)
       /\ tree[k].kind = Table => Is(file, p + 4, w)
  <2>1. /\ Is(file, m + At(k) + 1, SizeOf(tree, k)) /\ Is(file, m + At(k) + 2, tree[k].kind)
        /\ tree[k].kind = Table => Is(file, m + At(k) + 4, tree[k].words)
    BY <1>0, <1>3, <1>10 DEF Holds
  <2> QED  BY <1>4, <2>1
<1>12. Word(pos) = s /\ Type = tree[k].kind
  <2>1. Word(pos) = file[p + 1] /\ Type = file[p + 2]
    BY <1>5, WordAt DEF Type
  <2>2. p + 1 \in 1 .. Len(file) /\ p + 2 \in 1 .. Len(file)
    <3>1. Size = 4 * Len(file) /\ Len(file) \in Nat /\ s >= 8 /\ s \in Nat
      BY <1>0, <1>6, <1>10
    <3> QED  BY ONLY <1>5, <1>8, <3>1
  <2> QED  BY <1>11, <2>1, <2>2 DEF Is
<1>13. Word(pos) # 0 /\ ~IsLarge
  BY ONLY <1>6, <1>10, <1>12 DEF IsLarge, Large
<1>14. RealSize = s /\ HeaderSize = 8
  <2>1. RealSize = Word(pos)
    BY ONLY <1>13, Zenon DEF RealSize
  <2>2. HeaderSize = 8
    BY ONLY <1>13 DEF HeaderSize, Header
  <2> QED  BY ONLY <1>12, <2>1, <2>2
<1>15. Inner = s - 8 /\ Inner \in Nat
  BY ONLY <1>6, <1>10, <1>14 DEF Inner
<1>16. ~Truncated /\ ~Bad
  <2>1. ~Bad
    BY ONLY <1>6, <1>10, <1>14 DEF Bad
  <2>2. Top.read + s <= Top.max
    BY <1>2, <1>4
  <2>3. ~Truncated
    BY ONLY SMTT(30), <1>2, <1>6, <1>14, <2>2 DEF Truncated
  <2> QED  BY <2>1, <2>3
<1>17. ~NotMp4
  <2>1. ~IsFirst
    BY SMTT(30), <1>0 DEF IsFirst
  <2> QED  BY <2>1 DEF NotMp4
<1>18. tree[k].kind = Leaf => Inner \div 4 = w
  BY ONLY <1>9, <1>10, <1>15
<1>19. ASSUME tree[k].kind = Table PROVE TableFits /\ Word(pos + HeaderSize + 4) = w
  <2>1. pos + HeaderSize + 4 = 4 * p + 12
    BY ONLY <1>5, <1>14
  <2>2. Word(4 * p + 12) = file[p + 4]
    BY <1>5, WordAt
  <2>3. p + 4 \in 1 .. Len(file)
    <3>1. Size = 4 * Len(file) /\ Len(file) \in Nat /\ s = 16 + 4 * w /\ w \in Nat
      BY <1>0, <1>9, <1>10, <1>19
    <3> QED  BY ONLY <1>5, <1>8, <3>1
  <2>4. Word(pos + HeaderSize + 4) = w
    BY <1>11, <1>19, <2>1, <2>2, <2>3 DEF Is
  <2>5. Inner = 8 + 4 * w
    BY ONLY <1>9, <1>10, <1>15, <1>19
  <2>6. TableFits
    BY ONLY <1>9, <2>4, <2>5 DEF TableFits
  <2> QED  BY <2>4, <2>6
<1> QED  BY ONLY <1>2, <1>3, <1>4, <1>6, <1>12, <1>13, <1>14, <1>15, <1>16, <1>17, <1>18, <1>19

(* The reader is inside the moov again.                                    *)
LEMMA InsideAgain ==
  ASSUME tree' = tree, file' = file, moovEnd' = moovEnd, NEW B, Inside(B),
         NEW m, m = MoovAt(moovEnd), NEW new, new = readers', NEW l, l = Len(new), l >= 2,
         NEW g, OnPath(tree, m, Size, new, g),
         NEW j, AtBox(tree, m, new[l].read, g[l], pos', seen', j)
  PROVE  Inside(B)'
<1>1. /\ moovEnd > 0 /\ moovEnd <= Size /\ Holds(file, MoovAt(moovEnd))
      /\ MoovAt(moovEnd) + MoovWords \in B
  BY DEF Inside
<1>2. MoovAt(moovEnd)' = m
  <2>1. MoovAt(moovEnd)' = MoovAt(moovEnd')
    BY SameTree
  <2> QED  BY ONLY <2>1, m = MoovAt(moovEnd), moovEnd' = moovEnd
<1>3. \A f, b : Holds(f, b)' <=> Holds(f, b)
  BY SameTree
<1>4. MoovWords' = MoovWords
  BY SameTree
<1>5. Holds(file', m)
  BY <1>1
<1>6. Holds(file, MoovAt(moovEnd))'
  BY ONLY <1>2, <1>3, <1>5
<1>7. Size' = Size
  BY DEF Size, Bytes
<1>8. moovEnd' > 0 /\ moovEnd' <= Size'
  BY ONLY <1>1, <1>7, moovEnd' = moovEnd
<1>9. Top' = new[l] /\ Len(readers') = l
  BY DEF Top
<1>10. OnPath(tree', m, Size', readers', g)
  BY ONLY <1>7, tree' = tree, new = readers', OnPath(tree, m, Size, new, g)
<1>11. AtBox(tree', m, Top'.read, g[l], pos', seen', j)
  BY ONLY <1>9, tree' = tree, AtBox(tree, m, new[l].read, g[l], pos', seen', j)
<1>12. (MoovAt(moovEnd)' + MoovWords') \in B
  BY ONLY <1>1, <1>2, <1>4, m = MoovAt(moovEnd)
<1> QED  BY ONLY <1>2, <1>6, <1>8, <1>9, <1>10, <1>11, <1>12, l >= 2 DEF Inside

(* A box inside the moov is entered.                                       *)
LEMMA InsideEnters ==
  ASSUME tree \in Trees, file \in Seq(Nat), readers \in Seq(Calls),
         Behind(file, moovEnd), NEW B, Inside(B), phase = "reading", Enter
  PROVE  Inside(B)' /\ UNCHANGED <<phase, tree, file, moovEnd, damaged>>
<1>1. PICK n, m, f, i, k : IsInside(n, m, f, i, k)
  BY InsideIs
<1>2. More /\ Type \in {Moov, Container}
  BY DEF Enter, Whole
<1>3. /\ n \in Nat /\ n >= 2 /\ n = Len(readers) /\ m \in Nat /\ m = MoovAt(moovEnd)
      /\ OnPath(tree, m, Size, readers, f) /\ i = f[n] /\ ~Top.last
      /\ AtBox(tree, m, Top.read, i, pos, seen, k)
  BY <1>1 DEF IsInside
<1>4. /\ k \in i + 1 .. LastIn(tree, i) /\ k \in 1 .. Len(tree) /\ tree[k].level = n
      /\ Type = tree[k].kind /\ RealSize = SizeOf(tree, k) /\ HeaderSize = 8 /\ RealSize \in Nat
      /\ Inner \in Nat /\ Inner = SizeOf(tree, k) - 8
  <2>1. IsInside(n, m, f, i, k) /\ More
    BY <1>1, <1>2
  <2> QED  BY ONLY tree \in Trees, file \in Seq(Nat), phase = "reading", <2>1, HeaderInside
<1>5. UNCHANGED <<phase, tree, file, moovEnd, damaged>> /\ pos' = pos + 8 /\ seen' = Seen(0)
  BY <1>4 DEF Enter, writeVars, fileVars
<1>6. PICK new : new = readers'
  OBVIOUS
<1>7. IsEntered(new, readers, n, Top, SizeOf(tree, k), 8, SizeOf(tree, k) - 8)
  <2>1. PICK calls, size, head, type, max, top :
          calls = readers /\ size = RealSize /\ head = HeaderSize
          /\ type = Type /\ max = Inner /\ top = Top
    OBVIOUS
  <2>2. new = EnteredWith(calls, top, size, head, type, max)
    <3>1. new = Append(Replaced(readers, [Top EXCEPT !.size = RealSize, !.boxRead = HeaderSize]),
                       Reader(Type, Inner))
      BY <1>6 DEF Enter
    <3>2. new = Append(Replaced(calls, [top EXCEPT !.size = size, !.boxRead = head]),
                       Reader(type, max))
      BY <2>1, <3>1
    <3> QED  BY ONLY <3>2 DEF EnteredWith
  <2>3. /\ calls \in Seq(Calls) /\ n \in Nat /\ n = Len(calls) /\ n >= 1
        /\ size \in Nat /\ head \in Nat /\ type \in Nat /\ max \in Nat /\ top = calls[n]
    <3>1. type \in Nat
      BY <1>2, <2>1, WordAssumption
    <3>2. head \in Nat /\ size \in Nat /\ max \in Nat
      BY <1>4, <2>1
    <3>3. top = calls[n]
      BY <1>3, <2>1 DEF Top
    <3> QED  BY ONLY readers \in Seq(Calls), <1>3, <2>1, <3>1, <3>2, <3>3
  <2>4. IsEntered(EnteredWith(calls, top, size, head, type, max),
                  calls, n, top, size, head, max)
    BY ONLY <2>3, HandsOver
  <2>5. size = SizeOf(tree, k) /\ head = 8 /\ max = SizeOf(tree, k) - 8
    BY <1>4, <2>1
  <2> QED  BY ONLY <2>1, <2>2, <2>4, <2>5
<1>8. /\ Len(new) = n + 1 /\ \A h \in 1 .. n - 1 : new[h] = readers[h]
      /\ new[n].max = readers[n].max /\ new[n].read = readers[n].read /\ ~new[n].last
      /\ new[n].size = SizeOf(tree, k) /\ new[n].boxRead = 8
      /\ new[n + 1].max = SizeOf(tree, k) - 8 /\ new[n + 1].read = 0 /\ ~new[n + 1].last
  <2>1. Top = readers[n]
    BY <1>3 DEF Top
  <2> QED  BY ONLY <1>3, <1>7, <2>1 DEF IsEntered
<1>9. /\ readers[n].read = 4 * (WordsTo(tree)[k - 1] - WordsTo(tree)[f[n] - 1]) - 8
      /\ pos = 4 * (m + WordsTo(tree)[k - 1]) /\ seen = ShownTo(tree)[k - 1]
  <2>1. Top = readers[n]
    BY <1>3 DEF Top
  <2> QED  BY ONLY <1>3, <2>1 DEF AtBox
<1>10. PICK g : g[n + 1] = k /\ OnPath(tree, m, Size, new, g)
  <2>1. PICK size, calls : size = Size /\ calls = readers
    OBVIOUS
  <2>2. /\ OnPath(tree, m, size, calls, f) /\ k \in f[n] + 1 .. LastIn(tree, f[n])
        /\ tree[k].kind \in {Moov, Container} /\ Len(calls) = n
    BY <1>2, <1>3, <1>4, <2>1
  <2>3. /\ \A h \in 1 .. n - 1 : new[h] = calls[h]
        /\ new[n].max = calls[n].max /\ new[n].read = calls[n].read
        /\ calls[n].read = 4 * (WordsTo(tree)[k - 1] - WordsTo(tree)[f[n] - 1]) - 8
        /\ Len(new) = n + 1 /\ ~new[n].last
        /\ new[n].size = SizeOf(tree, k) /\ new[n].boxRead = 8
        /\ new[n + 1].max = SizeOf(tree, k) - 8 /\ ~new[n + 1].last
    BY ONLY <1>8, <1>9, <2>1
  <2>4. n \in Nat /\ n >= 2 /\ m \in Nat /\ tree[k].level = n
    BY <1>3, <1>4
  <2>5. \E g : g[n + 1] = k /\ OnPath(tree, m, size, new, g)
    BY ONLY tree \in Trees, <2>2, <2>3, <2>4, PathInto, SMTT(60)
  <2> QED  BY <2>1, <2>5
<1>11. seen' = ShownTo(tree)[k]
  <2>1. tree[k].words = 0
    BY <1>2, <1>4, TreeBoxes
  <2>2. Seen(0) = ShownTo(tree)[k]
    BY <1>3, <1>4, <1>9, <2>1, SeenIs
  <2> QED  BY <1>5, <2>2
<1>12. PICK j : AtBox(tree, m, 0, k, pos', seen', j)
  <2>1. tree[k].kind \in {Moov, Container}
    BY <1>2, <1>4
  <2>2. \E j : AtBox(tree, m, 0, k, 4 * (m + WordsTo(tree)[k - 1]) + 8, ShownTo(tree)[k], j)
    BY ONLY tree \in Trees, <1>3, <1>4, <2>1, FirstIn
  <2>3. pos' = 4 * (m + WordsTo(tree)[k - 1]) + 8
    BY <1>5, <1>9
  <2> QED  BY ONLY <1>11, <2>2, <2>3, Zenon
<1>13. PICK l : l = n + 1
  OBVIOUS
<1>14. l = Len(new) /\ l >= 2 /\ AtBox(tree, m, new[l].read, g[l], pos', seen', j)
  BY ONLY <1>3, <1>8, <1>10, <1>12, <1>13
<1>15. Inside(B)'
  BY ONLY Inside(B), <1>3, <1>5, <1>6, <1>10, <1>14, InsideAgain
<1> QED  BY <1>5, <1>15

(* A box inside the moov that is none of boxes is read.                    *)
LEMMA InsideSkips ==
  ASSUME tree \in Trees, file \in Seq(Nat), readers \in Seq(Calls),
         Behind(file, moovEnd), NEW B, Inside(B), phase = "reading", ReadLeaf \/ ReadTable
  PROVE  Inside(B)' /\ UNCHANGED <<phase, tree, file, moovEnd, damaged>>
<1>1. PICK n, m, f, i, k : IsInside(n, m, f, i, k)
  BY InsideIs
<1>2. More /\ Type \notin {Moov, Container}
  <2>1. Table \notin {Moov, Container}
    BY WordAssumption
  <2> QED  BY <2>1 DEF ReadLeaf, ReadTable, Whole
<1>3. /\ n \in Nat /\ n >= 2 /\ n = Len(readers) /\ m \in Nat /\ m = MoovAt(moovEnd)
      /\ OnPath(tree, m, Size, readers, f) /\ i = f[n] /\ ~Top.last
      /\ AtBox(tree, m, Top.read, i, pos, seen, k) /\ tree[i].level = n - 1
      /\ i \in 1 .. Len(tree)
  BY <1>1 DEF IsInside
<1>4. /\ k \in i + 1 .. LastIn(tree, i) /\ k \in 1 .. Len(tree) /\ tree[k].level = n
      /\ Type = tree[k].kind /\ RealSize = SizeOf(tree, k) /\ RealSize \in Nat
      /\ Word(pos) # 0
      /\ tree[k].kind = Leaf => Inner \div 4 = tree[k].words
      /\ tree[k].kind = Table => TableFits /\ Word(pos + HeaderSize + 4) = tree[k].words
  <2>1. IsInside(n, m, f, i, k) /\ More
    BY <1>1, <1>2
  <2> QED  BY ONLY tree \in Trees, file \in Seq(Nat), phase = "reading", <2>1, HeaderInside
<1>5. Skip(tree[k].words)
  <2>1. tree[k].kind \in {Leaf, Table}
    <3>1. tree[k].kind \in Kinds
      BY <1>4, TreeBoxes
    <3> QED  BY <1>2, <1>4, <3>1 DEF Kinds
  <2>2. CASE ReadLeaf
    <3>1. Type # Table /\ Skip(Inner \div 4)
      BY <2>2 DEF ReadLeaf
    <3>2. tree[k].kind = Leaf
      BY <1>4, <2>1, <3>1
    <3>3. Inner \div 4 = tree[k].words
      BY <1>4, <3>2
    <3> QED  BY ONLY <3>1, <3>3
  <2>3. CASE ReadTable
    <3>1. Type = Table
      BY <2>3 DEF ReadTable
    <3>2. TableFits /\ Word(pos + HeaderSize + 4) = tree[k].words
      BY <1>4, <3>1
    <3>3. Skip(Word(pos + HeaderSize + 4))
      BY <2>3, <3>2 DEF ReadTable
    <3> QED  BY ONLY <3>2, <3>3
  <2> QED  BY <2>2, <2>3
<1>6. /\ UNCHANGED <<phase, tree, file, moovEnd, damaged>> /\ pos' = pos + SizeOf(tree, k)
      /\ seen' = Seen(tree[k].words)
  BY <1>4, <1>5 DEF Skip, writeVars, fileVars
<1>7. PICK new : new = readers'
  OBVIOUS
<1>8. Top = readers[n]
  BY <1>3 DEF Top
<1>9. /\ Len(new) = n /\ \A h \in 1 .. n - 1 : new[h] = readers[h]
      /\ new[n].max = Top.max /\ new[n].read = Top.read + SizeOf(tree, k) /\ ~new[n].last
  <2>1. PICK calls, size, last, top :
          calls = readers /\ size = SizeOf(tree, k) /\ last = (Word(pos) = 0) /\ top = Top
    OBVIOUS
  <2>2. new = SkippedBy(calls, top, size, last)
    <3>1. new = Replaced(readers, [Top EXCEPT !.read = Top.read + RealSize,
                                              !.last = Word(pos) = 0])
      BY <1>5, <1>7 DEF Skip
    <3>2. new = Replaced(calls, [top EXCEPT !.read = top.read + size, !.last = last])
      BY <1>4, <2>1, <3>1
    <3> QED  BY ONLY <3>2 DEF SkippedBy
  <2>3. /\ calls \in Seq(Calls) /\ n \in Nat /\ n = Len(calls) /\ n >= 1
        /\ size \in Nat /\ last \in BOOLEAN /\ top = calls[n]
    <3>1. (Word(pos) = 0) \in BOOLEAN
      OBVIOUS
    <3> QED  BY <1>3, <1>4, <1>8, <2>1, <3>1
  <2>4. /\ Len(new) = n /\ \A h \in 1 .. n - 1 : new[h] = calls[h]
        /\ new[n].max = top.max /\ new[n].read = top.read + size /\ new[n].last = last
    BY ONLY <2>2, <2>3, GoesOn, SMTT(60)
  <2>5. ~last
    BY <1>4, <2>1
  <2> QED  BY ONLY <2>1, <2>4, <2>5
<1>10. /\ Top.read = 4 * (WordsTo(tree)[k - 1] - WordsTo(tree)[i - 1]) - 8
       /\ pos = 4 * (m + WordsTo(tree)[k - 1]) /\ seen = ShownTo(tree)[k - 1]
  BY ONLY <1>3 DEF AtBox
<1>11. PICK g : g[n] = f[n] /\ OnPath(tree, m, Size, new, g)
  <2>1. PICK size, calls, len : size = Size /\ calls = readers /\ len = n
    OBVIOUS
  <2>2. /\ OnPath(tree, m, size, calls, f) /\ len \in Nat /\ Len(calls) = len /\ len >= n
        /\ \A h \in 1 .. n - 1 : new[h] = calls[h]
        /\ new[n].max = calls[n].max
    BY <1>3, <1>8, <1>9, <2>1
  <2>3. \E g : g[n] = f[n] /\ OnPath(tree, m, size, new, g)
    <3>1. n \in Nat /\ n >= 2 /\ m \in Nat /\ Len(new) = n /\ ~new[n].last
      BY ONLY <1>3, <1>9
    <3> QED  BY ONLY tree \in Trees, <2>2, <3>1, PathOn, SMTT(60)
  <2> QED  BY <2>1, <2>3
<1>12. seen' = ShownTo(tree)[k]
  <2>1. PICK words : words = tree[k].words
    OBVIOUS
  <2>2. Seen(words) = ShownTo(tree)[k]
    BY <1>3, <1>4, <1>10, <2>1, SeenIs
  <2> QED  BY <1>6, <2>1, <2>2
<1>13. LastIn(tree, k) = k
  BY <1>2, <1>4, LastInLeaf
<1>14. PICK j : AtBox(tree, m, new[n].read, i, pos', seen', j)
  <2>1. tree[k].level = tree[i].level + 1
    <3>1. n = (n - 1) + 1
      BY ONLY <1>3
    <3> QED  BY ONLY <1>3, <1>4, <3>1
  <2>2. \E j : AtBox(tree, m, 4 * (WordsTo(tree)[LastIn(tree, k)] - WordsTo(tree)[i - 1]) - 8, i,
                     4 * (m + WordsTo(tree)[LastIn(tree, k)]), ShownTo(tree)[LastIn(tree, k)], j)
    BY ONLY tree \in Trees, <1>3, <1>4, <2>1, NextIn
  <2>3. PICK a, b, c : /\ a = WordsTo(tree)[i - 1] /\ b = WordsTo(tree)[k - 1]
                       /\ c = WordsTo(tree)[k]
    OBVIOUS
  <2>4. a \in Nat /\ b \in Nat /\ c \in Nat /\ SizeOf(tree, k) = 4 * (c - b)
    BY <1>3, <1>4, <1>13, <2>3, SizeOfIs
  <2>5. new[n].read = (4 * (b - a) - 8) + 4 * (c - b) /\ pos' = 4 * (m + b) + 4 * (c - b)
    BY <1>6, <1>9, <1>10, <2>3, <2>4
  <2>6. m \in Nat
    BY <1>3
  <2>7. new[n].read = 4 * (c - a) - 8 /\ pos' = 4 * (m + c)
    BY ONLY <2>4, <2>5, <2>6
  <2> QED  BY ONLY <1>12, <1>13, <2>2, <2>3, <2>7, Zenon
<1>15. PICK l : l = n
  OBVIOUS
<1>16. l = Len(new) /\ l >= 2 /\ AtBox(tree, m, new[l].read, g[l], pos', seen', j)
  BY ONLY <1>3, <1>9, <1>11, <1>14, <1>15
<1>17. Inside(B)'
  BY ONLY Inside(B), <1>3, <1>6, <1>7, <1>11, <1>16, InsideAgain
<1> QED  BY <1>6, <1>17

(* Inside the moov nothing is refused and nothing is cut.                  *)
LEMMA InsideAccepts ==
  ASSUME tree \in Trees, file \in Seq(Nat), readers \in Seq(Calls),
         Behind(file, moovEnd), NEW B, Inside(B), phase = "reading", More
  PROVE  /\ ~NotMp4 /\ ~IsLarge /\ ~Truncated /\ ~Bad
         /\ Type = Table => TableFits
<1>1. PICK n, m, f, i, k : IsInside(n, m, f, i, k)
  BY InsideIs
<1>2. /\ Type = tree[k].kind /\ ~IsLarge /\ ~NotMp4 /\ ~Truncated /\ ~Bad
      /\ tree[k].kind = Table => TableFits
  <2>1. IsInside(n, m, f, i, k) /\ More
    BY <1>1
  <2> QED  BY ONLY tree \in Trees, file \in Seq(Nat), phase = "reading", <2>1, HeaderInside
<1> QED  BY <1>2

(* The innermost call ends, inside another box or with the moov.           *)
LEMMA InsideReturns ==
  ASSUME tree \in Trees, file \in Seq(Nat), readers \in Seq(Calls),
         Behind(file, moovEnd), NEW B, Inside(B), phase = "reading", ReadAll
  PROVE  /\ Inside(B)' \/ After(B)'
         /\ UNCHANGED <<phase, tree, file, moovEnd, damaged>>
<1>1. PICK n, m, f, i, k : IsInside(n, m, f, i, k)
  BY InsideIs
<1>2. ~More /\ Return(Top.read, pos)
  BY DEF ReadAll
<1>3. /\ n \in Nat /\ n >= 2 /\ n = Len(readers) /\ m \in Nat /\ m = MoovAt(moovEnd)
      /\ OnPath(tree, m, Size, readers, f) /\ i = f[n] /\ ~Top.last
      /\ AtBox(tree, m, Top.read, i, pos, seen, k) /\ tree[i].level = n - 1
      /\ i \in 1 .. Len(tree) /\ Top.max = SizeOf(tree, i) - 8
      /\ tree[i].kind \in {Moov, Container}
      /\ Size \in Nat /\ 4 * (m + WordsTo(tree)[Len(tree)]) <= Size
  BY <1>1 DEF IsInside
<1>4. PICK parent : parent = readers[n - 1]
  OBVIOUS
<1>5. PICK new : new = readers'
  OBVIOUS
<1>6. /\ UNCHANGED <<phase, tree, file, moovEnd, damaged>> /\ seen' = seen
      /\ pos' = pos + parent.size - (parent.boxRead + Top.read)
      /\ new = ReturnedTo(SubSeq(readers, 1, n - 1), parent)
  <2>0. n >= 2 /\ n = Len(readers)
    BY <1>3
  <2>1. Len(readers) # 1
    BY ONLY <2>0
  <2>2. /\ pos' = pos + readers[Len(readers) - 1].size
                  - (readers[Len(readers) - 1].boxRead + Top.read)
        /\ readers' = Replaced(SubSeq(readers, 1, Len(readers) - 1),
                        [readers[Len(readers) - 1] EXCEPT
                           !.read = readers[Len(readers) - 1].read
                                      + readers[Len(readers) - 1].size])
        /\ UNCHANGED <<phase, writeVars, fileVars, seen>>
    BY <1>2, <2>1 DEF Return
  <2>3. new = Replaced(SubSeq(readers, 1, n - 1),
                       [parent EXCEPT !.read = parent.read + parent.size])
    BY <1>3, <1>4, <1>5, <2>2
  <2> QED  BY <1>3, <1>4, <2>2, <2>3 DEF ReturnedTo, writeVars, fileVars
<1>7. /\ f \in [2 .. n -> 1 .. Len(tree)] /\ f[2] = 1
      /\ readers[1].read = 4 * m /\ readers[1].max = Size
      /\ \A j \in 2 .. n :
           /\ tree[f[j]].kind \in {Moov, Container} /\ tree[f[j]].level = j - 1
           /\ readers[j].max = SizeOf(tree, f[j]) - 8 /\ ~readers[j].last
           /\ readers[j - 1].size = SizeOf(tree, f[j]) /\ readers[j - 1].boxRead = 8
      /\ \A j \in 3 .. n :
           /\ f[j] \in f[j - 1] + 1 .. LastIn(tree, f[j - 1])
           /\ readers[j - 1].read
                = 4 * (WordsTo(tree)[f[j] - 1] - WordsTo(tree)[f[j - 1] - 1]) - 8
  BY ONLY <1>3, Zenon DEF OnPath
<1>8. parent.size = SizeOf(tree, i) /\ parent.boxRead = 8
  <2>1. n \in 2 .. n
    BY <1>3
  <2> QED  BY <1>3, <1>4, <1>7, <2>1
<1>9. PICK a, b, c : /\ a = WordsTo(tree)[i - 1] /\ b = WordsTo(tree)[k - 1]
                     /\ c = WordsTo(tree)[LastIn(tree, i)]
  OBVIOUS
<1>10. pos = 4 * (m + b) /\ Top.read = 4 * (b - a) - 8 /\ seen = ShownTo(tree)[k - 1]
  BY ONLY <1>3, <1>9 DEF AtBox
<1>11. a \in Nat /\ c \in Nat /\ SizeOf(tree, i) = 4 * (c - a)
  BY <1>3, <1>9, SizeOfIs
<1>12. /\ k \in i + 1 .. LastIn(tree, i) + 1 /\ b \in Nat
       /\ WordsTo(tree)[LastIn(tree, i)] - WordsTo(tree)[k - 1] <= 2
  <2>1. PICK max, size, read, at, shown :
          max = Top.max /\ size = Size /\ read = Top.read /\ at = pos /\ shown = seen
    OBVIOUS
  <2>2. AtBox(tree, m, read, i, at, shown, k)
    BY <1>3, <2>1
  <2>3. max = SizeOf(tree, i) - 8 /\ size \in Nat /\ 4 * (m + WordsTo(tree)[Len(tree)]) <= size
        /\ ~(at < size /\ read + 8 < max)
    BY <1>2, <1>3, <2>1 DEF More, Header
  <2>4. CursorAt(tree, m, i, read, at, k, max, size)
    BY ONLY tree \in Trees, <1>3, <2>2, <2>3, CursorIs
  <2>5. /\ k \in i + 1 .. LastIn(tree, i) + 1 /\ WordsTo(tree)[k - 1] \in Nat
        /\ WordsTo(tree)[LastIn(tree, i)] - WordsTo(tree)[k - 1] <= 2
    BY ONLY <2>3, <2>4, Zenon DEF CursorAt
  <2> QED  BY ONLY <1>9, <2>5
<1>13. seen' = ShownTo(tree)[LastIn(tree, i)]
  BY <1>3, <1>6, <1>10, <1>12, ShownAtEnd
<1>14. pos' = 4 * (m + c)
  <2>1. pos' = pos + 4 * (c - a) - (8 + Top.read)
    BY <1>6, <1>8, <1>11
  <2>2. m \in Nat
    BY <1>3
  <2> QED  BY ONLY <1>10, <1>11, <1>12, <2>1, <2>2
<1>15. /\ Len(new) = n - 1 /\ \A h \in 1 .. (n - 1) - 1 : new[h] = readers[h]
       /\ new[n - 1].max = parent.max /\ new[n - 1].last = parent.last
       /\ new[n - 1].read = parent.read + SizeOf(tree, i)
  <2>1. PICK calls : calls = readers
    OBVIOUS
  <2>2. /\ calls \in Seq(Calls) /\ n \in Nat /\ n = Len(calls) /\ n >= 2
        /\ parent = calls[n - 1] /\ new = ReturnedTo(SubSeq(calls, 1, n - 1), parent)
    BY <1>3, <1>4, <1>6, <2>1
  <2>3. /\ Len(new) = n - 1 /\ \A h \in 1 .. (n - 1) - 1 : new[h] = calls[h]
        /\ new[n - 1].max = parent.max /\ new[n - 1].last = parent.last
        /\ new[n - 1].read = parent.read + parent.size
    BY ONLY <2>2, GoesBack, SMTT(60)
  <2> QED  BY ONLY <1>8, <2>1, <2>3
<1>16. CASE n = 2
  <2>1. i = 1
    BY <1>3, <1>7, <1>16
  <2>2. a = 0 /\ c = MoovWords /\ LastIn(tree, i) = Len(tree)
    <3>1. LastIn(tree, 1) = Len(tree)
      BY LastInMoov
    <3>2. 1 - 1 = 0 /\ WordsTo(tree)[0] = 0
      BY SizeOfMoov
    <3> QED  BY <1>9, <2>1, <3>1, <3>2 DEF MoovWords
  <2>3. moovEnd > 0 /\ moovEnd = 4 * (m + c) /\ m + c \in B
    <3>1. moovEnd > 0 /\ MoovAt(moovEnd) + MoovWords \in B
      BY DEF Inside
    <3>2. moovEnd = 4 * (MoovAt(moovEnd) + MoovWords)
      BY <3>1, BehindIs
    <3> QED  BY <1>3, <2>2, <3>1, <3>2
  <2>4. Len(new) = 1 /\ new[1].max = Size /\ new[1].read = 4 * (m + c)
    <3>1. n - 1 = 1
      BY <1>16
    <3>2. parent = readers[1]
      BY <1>4, <3>1
    <3>3. Len(new) = 1 /\ new[1].max = Size /\ new[1].read = 4 * m + SizeOf(tree, i)
      BY <1>7, <1>15, <3>1, <3>2
    <3>4. m \in Nat
      BY <1>3
    <3> QED  BY ONLY <1>11, <2>2, <3>3, <3>4
  <2>5. Top' = new[1] /\ Len(readers') = 1 /\ Size' = Size
    BY <1>5, <1>6, <2>4 DEF Top, Size, Bytes
  <2>6. AtRoot'
    BY <1>14, <2>4, <2>5 DEF AtRoot
  <2>7. seen' = ShownTo(tree')[Len(tree')]
    BY <1>6, <1>13, <2>2
  <2>8. pos' >= moovEnd' /\ moovEnd' > 0
    <3>1. moovEnd \in Nat
      BY SMTT(30), <1>3, <1>11, <2>3
    <3> QED  BY <1>6, <1>14, <2>3, <3>1
  <2>9. \E p \in B : pos' = 4 * p
    BY <1>14, <2>3
  <2>10. After(B)'
    BY ONLY <2>6, <2>7, <2>8, <2>9 DEF After, StaleQuiet
  <2> QED  BY <1>6, <2>10
<1>17. CASE n > 2
  <2>1. PICK l : l = n - 1
    OBVIOUS
  <2>2. l \in Nat /\ l >= 2 /\ l \in 2 .. n /\ n \in 3 .. n /\ n - 1 = l /\ Len(new) = l
        /\ n \in 2 .. n /\ l \in 1 .. n - 1 /\ n >= l
    BY <1>3, <1>15, <1>17, <2>1
  <2>3. PICK o : o = f[l]
    OBVIOUS
  <2>4. /\ o \in 1 .. Len(tree) /\ i \in o + 1 .. LastIn(tree, o)
        /\ tree[o].level = l - 1 /\ ~parent.last
        /\ parent.read = 4 * (WordsTo(tree)[i - 1] - WordsTo(tree)[o - 1]) - 8
    <3>1. f[n] \in f[n - 1] + 1 .. LastIn(tree, f[n - 1])
          /\ readers[n - 1].read
               = 4 * (WordsTo(tree)[f[n] - 1] - WordsTo(tree)[f[n - 1] - 1]) - 8
      BY ONLY <1>7, <2>2, Zenon
    <3>2. tree[f[l]].level = l - 1 /\ ~readers[l].last /\ f[l] \in 1 .. Len(tree)
      BY ONLY <1>7, <2>2
    <3> QED  BY ONLY <1>3, <1>4, <2>2, <2>3, <3>1, <3>2
  <2>5. tree[i].level = tree[o].level + 1
    <3>1. tree[i].level = l
      BY <1>3, <2>2
    <3> QED  BY ONLY <2>2, <2>4, <3>1
  <2>6. PICK g : g[l] = o /\ OnPath(tree, m, Size, new, g)
    <3>1. PICK size, calls : size = Size /\ calls = readers
      OBVIOUS
    <3>2. /\ OnPath(tree, m, size, calls, f) /\ Len(calls) \in Nat /\ Len(calls) >= l /\ m \in Nat
          /\ \A h \in 1 .. l - 1 : new[h] = calls[h]
          /\ new[l].max = calls[l].max /\ ~new[l].last /\ Len(new) = l /\ l \in Nat /\ l >= 2
      BY <1>3, <1>4, <1>15, <2>2, <2>4, <3>1
    <3>3. \E g : g[l] = f[l] /\ OnPath(tree, m, size, new, g)
      BY ONLY tree \in Trees, <3>2, PathOn, SMTT(60)
    <3> QED  BY <2>3, <3>1, <3>3
  <2>7. PICK j : AtBox(tree, m, new[l].read, g[l], pos', seen', j)
    <3>1. \E j : AtBox(tree, m, 4 * (WordsTo(tree)[LastIn(tree, i)] - WordsTo(tree)[o - 1]) - 8, o,
                       4 * (m + WordsTo(tree)[LastIn(tree, i)]), ShownTo(tree)[LastIn(tree, i)], j)
      BY ONLY tree \in Trees, <1>3, <2>4, <2>5, NextIn
    <3>2. PICK d : d = WordsTo(tree)[o - 1]
      OBVIOUS
    <3>3. d \in Nat
      BY <2>4, <3>2, SizeOfIs
    <3>4. new[l].read = (4 * (a - d) - 8) + 4 * (c - a)
      BY <1>9, <1>11, <1>15, <2>2, <2>4, <3>2
    <3>5. new[l].read = 4 * (c - d) - 8
      BY ONLY <1>11, <3>3, <3>4
    <3> QED  BY ONLY <1>9, <1>13, <1>14, <2>6, <3>1, <3>2, <3>5, Zenon
  <2>8. Inside(B)'
    <3>1. l = Len(new) /\ l >= 2
      BY <2>2
    <3> QED  BY ONLY Inside(B), <1>3, <1>5, <1>6, <2>6, <2>7, <3>1, InsideAgain
  <2> QED  BY <1>6, <2>8
<1> QED  BY <1>3, <1>16, <1>17

-----------------------------------------------------------------------------
(* What a step of the reader comes to: it goes on, opens the file with     *)
(* what there is to find, or refuses the 'mdat' that was cut.              *)
GoesOnIn(B) == phase' = "reading" /\ (Before(B)' \/ Inside(B)' \/ After(B)')
OpensFound  == phase' = "opened" /\ seen' = seen /\ Found
RefusesCut  ==
  /\ phase' = "refused" /\ pos' = pos
  /\ StaleQuiet => Word(pos) = Large /\ Size - pos < 2 * Header

LEMMA ReadKeeps ==
  ASSUME Read
  PROVE  /\ phase = "reading" /\ phase' \in {"reading", "opened", "refused"}
         /\ tree' = tree /\ file' = file /\ moovEnd' = moovEnd /\ damaged' = damaged
<1> USE DEF writeVars, fileVars
<1>1. phase = "reading"
  BY DEF Read, ReadBad, ReadTruncated, Enter, ReadLeaf, ReadTable, ReadAll, Whole, More
<1>2. ASSUME NEW bytes, NEW from, Return(bytes, from)
      PROVE  /\ phase' \in {phase, "opened"}
             /\ tree' = tree /\ file' = file /\ moovEnd' = moovEnd /\ damaged' = damaged
  BY <1>2 DEF Return
<1>3. ASSUME NEW n, Skip(n)
      PROVE  /\ phase' = phase
             /\ tree' = tree /\ file' = file /\ moovEnd' = moovEnd /\ damaged' = damaged
  BY <1>3 DEF Skip
<1>4. ASSUME Refuse
      PROVE  /\ phase' = "refused"
             /\ tree' = tree /\ file' = file /\ moovEnd' = moovEnd /\ damaged' = damaged
  BY <1>4 DEF Refuse
<1>5. CASE ReadBad
  BY <1>1, <1>4, <1>5 DEF ReadBad
<1>6. CASE ReadTruncated
  BY <1>1, <1>2, <1>6 DEF ReadTruncated
<1>7. CASE Enter
  BY <1>1, <1>7 DEF Enter
<1>8. CASE ReadLeaf
  BY <1>1, <1>3, <1>8 DEF ReadLeaf
<1>9. CASE ReadTable
  <2>1. CASE TableFits
    <3>1. Skip(Word(pos + HeaderSize + 4))
      BY <1>9, <2>1 DEF ReadTable
    <3> QED  BY <1>1, <1>3, <3>1
  <2>2. CASE ~TableFits
    <3>1. Refuse
      BY <1>9, <2>2 DEF ReadTable
    <3> QED  BY <1>1, <1>4, <3>1
  <2> QED  BY <2>1, <2>2
<1>10. CASE ReadAll
  BY <1>1, <1>2, <1>10 DEF ReadAll
<1> QED  BY <1>5, <1>6, <1>7, <1>8, <1>9, <1>10 DEF Read

(* The outermost call returns.                                             *)
LEMMA RootReturns ==
  ASSUME AtRoot, NEW bytes, NEW from, Return(bytes, from)
  PROVE  phase' = "opened" /\ seen' = seen
BY DEF AtRoot, Return, readVars

LEMMA BeforeStep ==
  ASSUME TreeInv, NEW B, Places(file, moovEnd, B), Behind(file, moovEnd), Before(B), Read
  PROVE  GoesOnIn(B) \/ OpensFound \/ RefusesCut
<1>1. /\ tree \in Trees /\ file \in Seq(Nat) /\ moovEnd \in Nat /\ readers \in Seq(Calls)
      /\ pos \in Nat /\ phase = "reading" /\ AtRoot
  BY ReadKeeps DEF TreeInv, RoomInv, FileInv, ReaderInv, Before
<1>2. ASSUME Refuse, Word(pos) = Large /\ Size - pos < 2 * Header PROVE RefusesCut
  BY <1>2 DEF RefusesCut, Refuse, readVars
<1>3. ASSUME Found, NEW bytes, NEW from, Return(bytes, from) PROVE OpensFound
  BY <1>1, <1>3, RootReturns DEF OpensFound
<1>4. CASE ReadBad
  <2>1. Word(pos) = Large /\ Size - pos < 2 * Header
    BY <1>1, <1>4, BeforeRefuses DEF ReadBad
  <2> QED  BY <1>2, <1>4, <2>1 DEF ReadBad
<1>5. CASE ReadTruncated
  <2>1. Found
    BY <1>1, <1>5, BeforeEnds DEF ReadTruncated
  <2> QED  BY <1>3, <1>5, <2>1 DEF ReadTruncated
<1>6. CASE Enter
  <2>1. Inside(B)' /\ phase' = phase
    BY <1>1, <1>6, BeforeEnters
  <2> QED  BY <1>1, <2>1 DEF GoesOnIn
<1>7. CASE ReadLeaf \/ (ReadTable /\ TableFits)
  <2>1. Before(B)' /\ phase' = phase
    BY <1>1, <1>7, BeforeSkips
  <2> QED  BY <1>1, <2>1 DEF GoesOnIn
<1>8. CASE ReadTable /\ ~TableFits
  <2>1. Whole /\ Type = Table /\ More /\ Refuse
    BY <1>8 DEF ReadTable, Whole
  <2>2. Word(pos) = Large /\ Size - pos < 2 * Header
    BY <1>1, <2>1, BeforeRefuses
  <2> QED  BY <1>2, <2>1, <2>2
<1>9. CASE ReadAll
  <2>1. Found
    BY <1>1, <1>9, BeforeEnds DEF ReadAll
  <2> QED  BY <1>3, <1>9, <2>1 DEF ReadAll
<1> QED  BY <1>4, <1>5, <1>6, <1>7, <1>8, <1>9 DEF Read

LEMMA InsideStep ==
  ASSUME TreeInv, NEW B, Behind(file, moovEnd), Inside(B), Read
  PROVE  GoesOnIn(B)
<1>1. /\ tree \in Trees /\ file \in Seq(Nat) /\ readers \in Seq(Calls) /\ phase = "reading"
  BY ReadKeeps DEF TreeInv, RoomInv, FileInv, ReaderInv
<1>2. More => ~NotMp4 /\ ~IsLarge /\ ~Truncated /\ ~Bad
  BY <1>1, InsideAccepts
<1>3. ~ReadBad /\ ~ReadTruncated
  BY <1>2 DEF ReadBad, ReadTruncated
<1>4. CASE Enter
  <2>1. Inside(B)' /\ phase' = phase
    BY <1>1, <1>4, InsideEnters
  <2> QED  BY <1>1, <2>1 DEF GoesOnIn
<1>5. CASE ReadLeaf \/ ReadTable
  <2>1. Inside(B)' /\ phase' = phase
    BY <1>1, <1>5, InsideSkips
  <2> QED  BY <1>1, <2>1 DEF GoesOnIn
<1>6. CASE ReadAll
  <2>1. (Inside(B)' \/ After(B)') /\ phase' = phase
    BY <1>1, <1>6, InsideReturns
  <2> QED  BY <1>1, <2>1 DEF GoesOnIn
<1> QED  BY <1>3, <1>4, <1>5, <1>6 DEF Read

LEMMA AfterStep ==
  ASSUME TreeInv, NEW B, Places(file, moovEnd, B), Behind(file, moovEnd), After(B), Read
  PROVE  GoesOnIn(B) \/ OpensFound \/ RefusesCut
<1>1. /\ tree \in Trees /\ file \in Seq(Nat) /\ moovEnd \in Nat /\ pos \in Nat
      /\ phase = "reading" /\ AtRoot /\ RoomInv /\ FileInv /\ ReaderInv
  BY ReadKeeps DEF TreeInv, RoomInv, FileInv, ReaderInv, After
<1>2. Found
  BY <1>1, AfterFound
<1>3. ASSUME NEW bytes, NEW from, Return(bytes, from) PROVE OpensFound
  BY <1>1, <1>2, <1>3, RootReturns DEF OpensFound
<1>4. CASE ReadBad
  <2>1. StaleQuiet => Word(pos) = Large /\ Size - pos < 2 * Header
    BY <1>1, <1>4, AfterRefuses DEF ReadBad
  <2> QED  BY <1>4, <2>1 DEF ReadBad, RefusesCut, Refuse, readVars
<1>5. CASE ReadTruncated
  BY <1>3, <1>5 DEF ReadTruncated
<1>6. CASE ReadLeaf
  <2>1. After(B)' /\ phase' = phase
    BY <1>1, <1>6, AfterSkips
  <2> QED  BY <1>1, <2>1 DEF GoesOnIn
<1>7. ~Enter /\ ~ReadTable
  <2>1. More => Type \notin Kinds
    BY <1>1, AfterType
  <2> QED  BY <2>1 DEF Enter, ReadTable, Whole, Kinds
<1>8. CASE ReadAll
  BY <1>3, <1>8 DEF ReadAll
<1> QED  BY <1>4, <1>5, <1>6, <1>7, <1>8 DEF Read

LEMMA SearchInit == Init => SearchInv
BY DEF Init, SearchInv, WholeOrNone, OnlyCutRefused

LEMMA OpenSearch ==
  ASSUME TreeInv, SearchInv, PlacesInv', NEW words \in Nat, Open(words), Len(file') = words
  PROVE  SearchInv'
<1>1. /\ phase = "written" /\ phase' = "reading" /\ readers' = <<Reader("root", 4 * words)>>
      /\ pos' = pos /\ seen' = seen /\ damaged' = damaged
  BY DEF Open, Start
<1>2. pos = 0 /\ seen = <<>>
  BY <1>1 DEF TreeInv, ReaderInv, SearchInv
<1>3. ASSUME ~damaged' PROVE \E B : Places(file, moovEnd, B)' /\ Before(B)'
  <2>1. PICK B : Places(file, moovEnd, B)'
    BY <1>1, <1>3 DEF PlacesInv, InPlace
  <2>2. 0 \in B
    BY <2>1 DEF Places
  <2>3. Len(readers') = 1 /\ Top'.max = Size' /\ Top'.read = 0 /\ ~Top'.last
    BY <1>1 DEF Top, Size, Bytes, Reader
  <2>4. AtRoot'
    BY <1>1, <1>2, <2>3 DEF AtRoot
  <2>5. \E p \in B : pos' = 4 * p
    <3>1. pos' = 4 * 0
      BY <1>1, <1>2
    <3> QED  BY <2>2, <3>1
  <2>6. moovEnd' > 0 => pos' < moovEnd'
    BY <1>1, <1>2
  <2>7. Before(B)'
    BY <1>1, <1>2, <2>3, <2>4, <2>5, <2>6 DEF Before
  <2> QED  BY <2>1, <2>7
<1> QED  BY <1>1, <1>3 DEF SearchInv, WholeOrNone, OnlyCutRefused

LEMMA ReadSearch ==
  ASSUME TreeInv, PlacesInv, SearchInv, Read
  PROVE  SearchInv'
<1>1. /\ phase = "reading" /\ phase' \in {"reading", "opened", "refused"}
      /\ tree' = tree /\ file' = file /\ moovEnd' = moovEnd /\ damaged' = damaged
  BY ReadKeeps
<1>2. CASE damaged
  BY <1>1, <1>2 DEF SearchInv, WholeOrNone, OnlyCutRefused
<1>3. CASE ~damaged
  <2>1. Behind(file, moovEnd)
    BY <1>1, <1>3 DEF PlacesInv, InPlace
  <2>2. PICK B : Places(file, moovEnd, B) /\ (Before(B) \/ Inside(B) \/ After(B))
    BY <1>1, <1>3 DEF SearchInv
  <2>3. GoesOnIn(B) \/ OpensFound \/ RefusesCut
    BY <2>1, <2>2, BeforeStep, InsideStep, AfterStep
  <2>4. CASE GoesOnIn(B)
    <3>1. Places(file, moovEnd, B)'
      <4>1. Places(file', moovEnd', B)
        BY <1>1, <2>2, Zenon
      <4>2. \A w, e, b : Places(w, e, b)' <=> Places(w, e, b)
        BY <1>1, SameTree
      <4> QED  BY ONLY <4>1, <4>2
    <3>2. phase' = "reading" /\ (Before(B)' \/ Inside(B)' \/ After(B)')
      BY <2>4 DEF GoesOnIn
    <3> QED  BY <3>1, <3>2 DEF SearchInv, WholeOrNone, OnlyCutRefused
  <2>5. CASE OpensFound
    <3>1. phase' = "opened" /\ seen' = seen /\ Size' = Size
      BY <1>1, <2>5 DEF OpensFound, Size, Bytes
    <3>2. WholeOrNone'
      BY <1>1, <2>5, <3>1 DEF OpensFound, Found, WholeOrNone
    <3> QED  BY <3>1, <3>2 DEF SearchInv, OnlyCutRefused
  <2>6. CASE RefusesCut
    <3>1. phase' = "refused" /\ pos' = pos /\ Size' = Size /\ Word(pos)' = Word(pos)
      BY <1>1, <2>6 DEF RefusesCut, Size, Bytes, Word
    <3>2. StaleQuiet => OnlyCutRefused'
      BY <2>6, <3>1 DEF RefusesCut, OnlyCutRefused
    <3> QED  BY <3>1, <3>2 DEF SearchInv, WholeOrNone, StaleQuiet
  <2> QED  BY <2>3, <2>4, <2>5, <2>6
<1> QED  BY <1>2, <1>3

LEMMA SearchStep ==
  ASSUME TreeInv, PlacesInv, PlacesInv', SearchInv, [Next]_vars
  PROVE  SearchInv'
<1>1. ASSUME phase' \in {"writing", "written"}, phase \in {"writing", "written"}, seen' = seen
      PROVE  SearchInv'
  BY <1>1 DEF SearchInv, WholeOrNone, OnlyCutRefused
<1>2. CASE Write
  <2>1. phase = "writing" /\ seen' = seen /\ phase' \in {"writing", "written"}
    BY <1>2 DEF Write, WriteBox, CloseBox, Grow, NoSpace, Ready, Flush, GiveUp, readVars
  <2> QED  BY <1>1, <2>1
<1>3. CASE OpenEmpty
  <2>1. phase' = "refused" /\ Size' = 0
    BY <1>3 DEF OpenEmpty, Size, Bytes
  <2> QED  BY <2>1 DEF SearchInv, WholeOrNone, OnlyCutRefused
<1>4. CASE \E words \in 1 .. Len(file) : Open(words)
  <2>1. PICK words \in 1 .. Len(file) : Open(words)
    BY <1>4
  <2>2. words \in Nat /\ Len(file') = words
    BY <2>1 DEF Open, TreeInv, FileInv
  <2> QED  BY <2>1, <2>2, OpenSearch
<1>5. CASE \E at \in 1 .. Len(file), word \in Lost : OpenDamaged(at, word)
  <2>1. phase' = "reading" /\ damaged'
    BY <1>5 DEF OpenDamaged, Start
  <2> QED  BY <2>1 DEF SearchInv, WholeOrNone, OnlyCutRefused
<1>6. CASE Read
  BY <1>6, ReadSearch
<1>7. CASE UNCHANGED vars
  <2>1. UNCHANGED <<phase, tree, file, moovEnd, damaged, pos, readers, seen>>
    BY <1>7 DEF vars, writeVars, fileVars, readVars
  <2>2. \A B : Places(file, moovEnd, B)' <=> Places(file, moovEnd, B)
    <3>1. \A w, e, b : Places(w, e, b)' <=> Places(w, e, b)
      BY <2>1, SameTree
    <3>2. \A B : Places(file', moovEnd', B) <=> Places(file, moovEnd, B)
      BY <2>1, Zenon
    <3> QED  BY ONLY <3>1, <3>2
  <2>3. Size' = Size /\ Top' = Top /\ Word(pos)' = Word(pos)
    BY <2>1 DEF Size, Bytes, Top, Word
  <2>4. WholeOrNone' /\ (StaleQuiet => OnlyCutRefused')
    BY <2>1, <2>3 DEF WholeOrNone, OnlyCutRefused, SearchInv
  <2>5. AtRoot' <=> AtRoot
    BY <2>1, <2>3 DEF AtRoot
  <2>6. \A B : Before(B)' <=> Before(B)
    BY <2>1, <2>3, <2>5 DEF Before
  <2>7. \A B : After(B)' <=> After(B)
    BY <2>1, <2>3, <2>5 DEF After, StaleQuiet
  <2>8. ASSUME NEW B, Inside(B) PROVE Inside(B)'
    <3>1. PICK f, k :
            /\ OnPath(tree, MoovAt(moovEnd), Size, readers, f)
            /\ AtBox(tree, MoovAt(moovEnd), Top.read, f[Len(readers)], pos, seen, k)
      BY <2>8 DEF Inside
    <3>2. PICK m, new, l : m = MoovAt(moovEnd) /\ new = readers' /\ l = Len(new)
      OBVIOUS
    <3>3. l >= 2 /\ Top = new[l]
      BY <2>1, <2>8, <3>2 DEF Inside, Top
    <3>4. OnPath(tree, m, Size, new, f) /\ AtBox(tree, m, new[l].read, f[l], pos', seen', k)
      BY ONLY <2>1, <3>1, <3>2, <3>3
    <3> QED  BY ONLY <2>1, <2>8, <3>2, <3>3, <3>4, InsideAgain
  <2>9. phase' = "reading" /\ ~damaged' =>
          \E B : Places(file, moovEnd, B)' /\ (Before(B)' \/ Inside(B)' \/ After(B)')
    BY <2>1, <2>2, <2>6, <2>7, <2>8 DEF SearchInv
  <2> QED  BY <2>1, <2>4, <2>9 DEF SearchInv, StaleQuiet
<1> QED  BY <1>2, <1>3, <1>4, <1>5, <1>6, <1>7 DEF Next

-----------------------------------------------------------------------------
MoovInv == TreeInv /\ WriterInv /\ PlacesInv /\ SearchInv

LEMMA MoovInit == Init => MoovInv
<1>1. Init => TreeInv
  BY TreeInit
<1>2. Init => WriterInv
  <2> SUFFICES ASSUME Init PROVE WriterInv
    OBVIOUS
  <2>1. RoomInv
    BY RoomInit
  <2>2. writers = <<>> /\ next = 1 /\ Len(buf) = 0
    BY DEF Init
  <2> QED  BY <2>1, <2>2, WriterInit
<1> QED  BY <1>1, <1>2, PlacesInit, SearchInit DEF MoovInv

LEMMA MoovStep == MoovInv /\ [Next]_vars => MoovInv'
<1> SUFFICES ASSUME MoovInv, [Next]_vars PROVE MoovInv'
  OBVIOUS
<1>1. TreeInv /\ TreeInv' /\ WriterInv /\ PlacesInv /\ SearchInv
  BY TreeStep DEF MoovInv
<1>2. RoomInv /\ RoomInv' /\ FileInv /\ FileInv'
  BY <1>1 DEF TreeInv
<1>3. WriterInv'
  BY <1>1, <1>2, WriterStep
<1>4. PlacesInv'
  BY <1>1, <1>2, PlacesStep
<1>5. SearchInv'
  BY <1>1, <1>4, SearchStep
<1> QED  BY <1>1, <1>3, <1>4, <1>5 DEF MoovInv

(* The boxes that a file is opened with are those of the moov that was     *)
(* written, when it is in the file to its end, and none when it is not:    *)
(* the sizes that mp4_box_container_write puts in place, wherever          *)
(* mp4_mux_sync_internal puts the moov, are those by which                 *)
(* mp4_box_children_read descends into each box and comes out of it, and   *)
(* no box next to the moov, nor a cut, makes it see another.               *)
THEOREM MoovIsWholeOrNone == Spec => []WholeOrNone
<1>1. Spec => []MoovInv
  BY MoovInit, MoovStep, PTL DEF Spec
<1>2. MoovInv => WholeOrNone
  BY DEF MoovInv, SearchInv
<1> QED  BY <1>1, <1>2, PTL

(* A file of the muxer is refused when it is empty or was cut inside the   *)
(* header of an 'mdat' with a 64-bit size, and in no other case, provided  *)
(* that the word left over where there is no room for a 'free' is none of  *)
(* the sizes that mp4_box_children_read would take for a box that fits.    *)
THEOREM OnlyCutIsRefused ==
  ASSUME StaleQuiet
  PROVE  Spec => []OnlyCutRefused
<1>1. Spec => []MoovInv
  BY MoovInit, MoovStep, PTL DEF Spec
<1>2. MoovInv => OnlyCutRefused
  BY DEF MoovInv, SearchInv
<1> QED  BY <1>1, <1>2, PTL
=============================================================================
