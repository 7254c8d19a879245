----------------------------- MODULE MCBoxTree -----------------------------
(* Small instances of BoxTree for TLC. *)
EXTENDS BoxTree

CONSTANT MaxBoxes   (* bound: boxes in a tree *)

Below == [kind : {Container}, level : 2 .. 4, words : {0}]
         \cup [kind : {Leaf}, level : 2 .. 4, words : {1}]
         \cup [kind : {Table}, level : 2 .. 4, words : {0, 2}]

Nested(boxes) ==
  \A i \in 2 .. Len(boxes) :
    boxes[i].level <= boxes[i - 1].level
                      + (IF boxes[i - 1].kind \in {Moov, Container} THEN 1 ELSE 0)

AllTrees ==
  {<<[kind |-> Moov, level |-> 1, words |-> 0]>> \o boxes :
     boxes \in UNION {[1 .. n -> Below] : n \in 0 .. MaxBoxes - 1}}

SmallTrees == {boxes \in AllTrees : Nested(boxes)}
=============================================================================
