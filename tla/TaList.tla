-------------------------------- MODULE TaList -------------------------------
(***************************************************************************)
(* A program that keeps lists of src/list.c: it owns the pointer to the    *)
(* first node of each, passes it to every operation and keeps what the     *)
(* operation returns.  Sorting is in TaListSort.                           *)
(*                                                                         *)
(* A program takes a node off a list to free it, and the node's memory is  *)
(* used again for a later one.                                             *)
(***************************************************************************)
EXTENDS TaListOps

CONSTANTS
  Lists, Data, Positions,
  MaxLen       \* bound: nodes allocated at a time

ASSUME DataAssumption == Data \subseteq Nat \ {NULL}
ASSUME PositionsAssumption == Positions \subseteq Int
ASSUME BoundAssumption == MaxLen \in Nat

Nodes == 1..MaxLen

VARIABLES mem,    \* the memory of the nodes
          head    \* list -> its first node
vars == <<mem, head>>

Pointers == Data \cup {NULL}
Cleared == [n \in Nodes |-> NULL]

Listed(l) == {Chain(mem, head[l])[i] : i \in DOMAIN Chain(mem, head[l])}
Unused == Nodes \ UNION {Listed(l) : l \in Lists}
Fresh == CHOOSE n \in Unused : TRUE

Init ==
  /\ mem = [next |-> Cleared, prev |-> Cleared, data |-> Cleared]
  /\ head = [l \in Lists |-> NULL]

Returns(l, r) == mem' = r.mem /\ head' = [head EXCEPT ![l] = r.head]

(* The memory r leaves, with what left list l freed.                        *)
Release(l, r) ==
  LET c == Chain(r.mem, r.head)
      gone == Listed(l) \ {c[i] : i \in DOMAIN c}
      Clear(f) == [n \in Nodes |-> IF n \in gone THEN NULL ELSE f[n]]
  IN  List([next |-> Clear(r.mem.next), prev |-> Clear(r.mem.prev),
            data |-> Clear(r.mem.data)], r.head)

AppendData(l, d) ==
  /\ Unused # {}
  /\ Returns(l, AppendNode(mem, head[l], Fresh, d))

InsertData(l, d, pos) ==
  /\ Unused # {}
  /\ Returns(l, InsertNode(mem, head[l], Fresh, d, pos))

RemoveItem(l, d) == Returns(l, Release(l, RemoveData(mem, head[l], d)))
PopItem(l) == Returns(l, Release(l, PopNode(mem, head[l])))

(* Both pointers reach the nodes of other afterwards; the program gives up  *)
(* the one it passed second.                                                *)
Extend(l, other) ==
  LET r == ExtendList(mem, head[l], head[other]) IN
  /\ l # other
  /\ mem' = r.mem
  /\ head' = [head EXCEPT ![l] = r.head, ![other] = NULL]

ReverseItems(l) == Returns(l, ReverseList(mem, head[l]))

Next ==
  \/ \E l \in Lists, d \in Pointers :
       \/ AppendData(l, d) \/ RemoveItem(l, d)
       \/ \E pos \in Positions : InsertData(l, d, pos)
  \/ \E l \in Lists : PopItem(l) \/ ReverseItems(l)
  \/ \E l, other \in Lists : Extend(l, other)

Spec == Init /\ [][Next]_vars
-----------------------------------------------------------------------------
Contents(l) == LET c == Chain(mem, head[l]) IN [i \in DOMAIN c |-> mem.data[c[i]]]

(* Whatever operations made them, lists have no cycle, prev undoes next on  *)
(* every node, nothing comes before the first, and no node is on two lists: *)
(* what every loop of list.c relies on.                                     *)
ListsWellFormed ==
  /\ \A l \in Lists : WellFormed(mem, head[l])
  /\ \A k, l \in Lists : k # l => Listed(k) \cap Listed(l) = {}

(* The data of the lists are what SeqList says, after any sequence of       *)
(* operations and at every position an insertion can have.                  *)
Seqs == INSTANCE SeqList WITH seqs <- [l \in Lists |-> Contents(l)]
ImplementsSeqList == Seqs!Spec
=============================================================================
