------------------------------ MODULE TaListSort -----------------------------
(***************************************************************************)
(* ta_list_sort (src/list.c:295-391): a merge sort that relinks the list   *)
(* in place, bottom up.  A pass merges the runs of split_point nodes two   *)
(* by two; p is what is left of the first run, q where the second begins,  *)
(* and the merged nodes hang between list and tail.                        *)
(*                                                                         *)
(* Nodes are numbered in the order in which the list is given, and all     *)
(* that cmpfunc knows of a node is its key.  SrvSelect calls this sort and *)
(* goes on when it has returned.                                           *)
(***************************************************************************)
EXTENDS TaListOps

CONSTANTS
  Keys,     \* what the nodes are compared by
  MaxLen    \* bound: nodes of the list

ASSUME KeysAssumption == Keys \subseteq Int
ASSUME LenAssumption == MaxLen \in Nat

VARIABLES
  key,      \* the keys of the nodes, fixed
  mem,      \* the memory of the nodes
  list,     \* the head of the list, while it is merged of the output
  p, q, tail, psize, qsize, split_point, nmerges,
  pc        \* "call", "pass", "split", "merge"; "return" once it is done
vars == <<key, mem, list, p, q, tail, psize, qsize, split_point, nmerges, pc>>

Size == Len(key)
Nodes == 1..Size

Init ==
  /\ \E n \in 0..MaxLen : key \in [1..n -> Keys]
  /\ mem = [next |-> [n \in Nodes |-> IF n = Size THEN NULL ELSE n + 1],
            prev |-> [n \in Nodes |-> n - 1],
            data |-> [n \in Nodes |-> n]]
  /\ list = IF Size = 0 THEN NULL ELSE 1
  /\ p = NULL /\ q = NULL /\ tail = NULL
  /\ psize = 0 /\ qsize = 0 /\ split_point = 1 /\ nmerges = 0
  /\ pc = "call"

(* A list that is empty or has one element is returned as it is.            *)
Call ==
  /\ pc = "call"
  /\ pc' = IF list = NULL THEN "return"
           ELSE IF mem.next[list] = NULL THEN "return" ELSE "pass"
  /\ UNCHANGED <<key, mem, list, p, q, tail, psize, qsize, split_point, nmerges>>

Pass ==
  /\ pc = "pass"
  /\ p' = list /\ list' = NULL /\ tail' = NULL /\ nmerges' = 0
  /\ pc' = "split"
  /\ UNCHANGED <<key, mem, q, psize, qsize, split_point>>

(* The first run has split_point nodes, or what is left of the list.        *)
Split ==
  LET c == Chain(mem, p) IN
  /\ pc = "split" /\ p # NULL
  /\ nmerges' = nmerges + 1
  /\ IF Len(c) > split_point THEN psize' = split_point /\ q' = c[split_point + 1]
                             ELSE psize' = Len(c) /\ q' = NULL
  /\ qsize' = split_point
  /\ pc' = "merge"
  /\ UNCHANGED <<key, mem, list, p, tail, split_point>>

(* The next node e goes behind tail.                                        *)
Link(e) ==
  /\ mem' = IF tail = NULL THEN [mem EXCEPT !.prev[e] = NULL]
            ELSE [mem EXCEPT !.next[tail] = e, !.prev[e] = tail]
  /\ list' = IF tail = NULL THEN e ELSE list
  /\ tail' = e

(* The second run has a node left.                                          *)
Second_Unsized == q # NULL

Second == qsize > 0 /\ q # NULL

QFirst_OnTie == psize = 0 \/ (Second /\ key[p] >= key[q])

(* Whether the next node comes from the second run; the first one goes      *)
(* first among equals.                                                      *)
QFirst == psize = 0 \/ (Second /\ key[p] > key[q])

TakeFirst_KeepsSize ==
  /\ pc = "merge" /\ psize > 0 /\ ~QFirst
  /\ Link(p)
  /\ p' = mem.next[p]
  /\ UNCHANGED <<key, q, psize, qsize, split_point, nmerges, pc>>

TakeFirst ==
  /\ pc = "merge" /\ psize > 0 /\ ~QFirst
  /\ Link(p)
  /\ p' = mem.next[p] /\ psize' = psize - 1
  /\ UNCHANGED <<key, q, qsize, split_point, nmerges, pc>>

TakeSecond ==
  /\ pc = "merge" /\ Second /\ QFirst
  /\ Link(q)
  /\ q' = mem.next[q] /\ qsize' = qsize - 1
  /\ UNCHANGED <<key, p, psize, split_point, nmerges, pc>>

(* Both runs are used up; the next two begin at q.                          *)
Merged ==
  /\ pc = "merge" /\ psize = 0 /\ ~Second
  /\ p' = q
  /\ pc' = "split"
  /\ UNCHANGED <<key, mem, list, q, tail, psize, qsize, split_point, nmerges>>

(* The pass is over; it was the last if it merged once.                     *)
Longer_ByOne == split_point + 1
Longer_Same == split_point
LastPass == nmerges <= 1
Longer == split_point * 2

EndPass ==
  /\ pc = "split" /\ p = NULL
  /\ mem' = [mem EXCEPT !.next[tail] = NULL]
  /\ IF LastPass THEN pc' = "return" /\ UNCHANGED split_point
                 ELSE pc' = "pass" /\ split_point' = Longer
  /\ UNCHANGED <<key, list, p, q, tail, psize, qsize, nmerges>>

(* What ta_list_sort does until it returns.                                 *)
SortStep == Call \/ Pass \/ Split \/ TakeFirst \/ TakeSecond \/ Merged \/ EndPass
-----------------------------------------------------------------------------
Pointers == Nodes \cup {NULL}
TypeOK ==
  /\ mem \in [next : [Nodes -> Pointers], prev : [Nodes -> Pointers], data : [Nodes -> Nodes]]
  /\ {list, p, q, tail} \subseteq Pointers
  /\ psize \in 0..Size /\ split_point \in Nat \ {0} /\ qsize \in 0..split_point
  /\ nmerges \in 0..Size

InOrder(c) ==
  \A i, j \in DOMAIN c : i < j =>
    \/ key[c[i]] < key[c[j]]
    \/ key[c[i]] = key[c[j]] /\ c[i] < c[j]

(* In the middle of a merge every node is in one of three places: merged,   *)
(* where prev leads from tail back to list, in the first run, or on the     *)
(* rest of the list that begins with the second.                            *)
NoNodeLost ==
  pc = "merge" =>
    LET parts == Walk(mem.prev, tail) \o SubSeq(Chain(mem, p), 1, psize) \o Chain(mem, q)
    IN  /\ Len(parts) = Size
        /\ {parts[i] : i \in DOMAIN parts} = Nodes

(* Before a pass every run of split_point nodes is sorted.                  *)
RunsSorted ==
  pc = "pass" =>
    LET c == Chain(mem, list) IN
    \A start \in DOMAIN c :
      (start - 1) % split_point = 0 =>
        InOrder(SubSeq(c, start, IF start + split_point > Len(c) THEN Len(c)
                                 ELSE start + split_point - 1))

(* What is returned is the whole list, sorted, equal elements in the order  *)
(* in which they were, and it can be walked both ways.                      *)
Sorted ==
  pc = "return" =>
    /\ Len(Chain(mem, list)) = Size
    /\ InOrder(Chain(mem, list))
    /\ WellFormed(mem, list)

=============================================================================
