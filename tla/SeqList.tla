------------------------------- MODULE SeqList -------------------------------
(***************************************************************************)
(* What the operations of src/list.c do to the data of a list, without     *)
(* nodes and links: a list is the sequence of the data pointers it holds.  *)
(* TaList implements this.                                                 *)
(***************************************************************************)
EXTENDS Integers, Sequences, FiniteSets

CONSTANTS
  Lists,       \* lists a program has
  Data,        \* data pointers other than NULL
  Positions,   \* positions it inserts at
  MaxLen       \* bound: nodes allocated at a time

VARIABLE seqs     \* list -> its data, in order

NULL == 0
Pointers == Data \cup {NULL}

Init == seqs = [l \in Lists |-> <<>>]

Becomes(l, s) == seqs' = [seqs EXCEPT ![l] = s]
Items == UNION {{l} \X DOMAIN seqs[l] : l \in Lists}
Grows(l, s) == Cardinality(Items) < MaxLen /\ Becomes(l, s)

(* A NULL is ignored where it would come last in a list that is not empty.  *)
AppendData(l, d) == d # NULL /\ Grows(l, Append(seqs[l], d))

InsertData(l, d, pos) ==
  IF seqs[l] = <<>> THEN Grows(l, <<d>>)
  ELSE IF pos \in 0..Len(seqs[l]) - 1
  THEN Grows(l, SubSeq(seqs[l], 1, pos) \o <<d>> \o SubSeq(seqs[l], pos + 1, Len(seqs[l])))
  ELSE AppendData(l, d)

(* The first of the data that is d goes.                                    *)
RemoveItem(l, d) ==
  \E i \in DOMAIN seqs[l] :
    /\ seqs[l][i] = d /\ \A j \in 1..i - 1 : seqs[l][j] # d
    /\ Becomes(l, SubSeq(seqs[l], 1, i - 1) \o SubSeq(seqs[l], i + 1, Len(seqs[l])))

PopItem(l) ==
  /\ seqs[l] # <<>>
  /\ Becomes(l, SubSeq(seqs[l], 1, Len(seqs[l]) - 1))

(* The other list is given up: its nodes belong to l now.                   *)
Extend(l, other) ==
  /\ l # other
  /\ seqs' = [seqs EXCEPT ![l] = @ \o seqs[other], ![other] = <<>>]

ReverseItems(l) ==
  Becomes(l, [i \in DOMAIN seqs[l] |-> seqs[l][Len(seqs[l]) + 1 - i]])

Next ==
  \/ \E l \in Lists, d \in Pointers :
       \/ AppendData(l, d) \/ RemoveItem(l, d)
       \/ \E pos \in Positions : InsertData(l, d, pos)
  \/ \E l \in Lists : PopItem(l) \/ ReverseItems(l)
  \/ \E l, other \in Lists : Extend(l, other)

Spec == Init /\ [][Next]_seqs
=============================================================================
