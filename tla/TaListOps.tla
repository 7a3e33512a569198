------------------------------ MODULE TaListOps ------------------------------
(***************************************************************************)
(* The linked list of src/list.c as operators on memory.  A list is the    *)
(* address of its first node; the caller owns that pointer, so every       *)
(* operation that may change it returns it, together with the memory.      *)
(*                                                                         *)
(* A memory is a record of functions next, prev and data over the nodes.   *)
(* Addresses are numbers, NULL is 0, and a data pointer is a number too.   *)
(* A node whose memory has been allocated and not filled in holds whatever *)
(* the memory says; ta_list_new sets next and prev but not data.           *)
(***************************************************************************)
EXTENDS Integers, Sequences, FiniteSets

NULL == 0

(* What following a link from p visits, as `for (node = p; node; node =     *)
(* node->link)' does.  A cycle shows as a walk longer than the memory.      *)
Walk(link, p) ==
  LET At[k \in 1..Cardinality(DOMAIN link) + 1] ==
        IF k = 1 THEN p
        ELSE LET before == At[k - 1] IN IF before = NULL THEN NULL ELSE link[before]
  IN  SubSeq(At, 1, Cardinality({k \in DOMAIN At : At[k] # NULL}))

Chain(m, p) == Walk(m.next, p)
LastNode(m, p) == IF p = NULL THEN NULL ELSE Chain(m, p)[Len(Chain(m, p))]

List(m, p) == [mem |-> m, head |-> p]

(* ta_list_append puts a node n at the end; it ignores NULL data, so n is   *)
(* allocated only if there is some.                                         *)
AppendNode(m, p, n, d) ==
  LET last == LastNode(m, p)
      new == [m EXCEPT !.next[n] = NULL, !.prev[n] = last, !.data[n] = d]
  IN  IF d = NULL THEN List(m, p)
      ELSE IF p = NULL THEN List(new, n)
      ELSE List([new EXCEPT !.next[last] = n], p)

(* ta_list_remove unlinks the first node that holds d.  The removed node    *)
(* keeps its own links.  The new first node's prev becomes NULL.            *)
Unlink(m, p, n) ==
  LET prev == m.prev[n]  next == m.next[n]
  IN  List([m EXCEPT
              !.next = IF prev = NULL THEN @ ELSE [@ EXCEPT ![prev] = next],
              !.prev = IF next = NULL THEN @
                       ELSE [@ EXCEPT ![next] = IF n = p THEN NULL ELSE prev]],
           IF n = p THEN next ELSE p)

Holding(m, c, d) == {i \in DOMAIN c : m.data[c[i]] = d}

RemoveData_LastMatch(m, p, d) ==
  LET c == Chain(m, p)
      held == Holding(m, c, d)
  IN  IF held = {} THEN List(m, p)
      ELSE Unlink(m, p, c[CHOOSE i \in held : \A j \in held : i >= j])

RemoveData(m, p, d) ==
  LET c == Chain(m, p)
      held == Holding(m, c, d)
  IN  IF held = {} THEN List(m, p)
      ELSE Unlink(m, p, c[CHOOSE i \in held : \A j \in held : i <= j])

(* ta_list_insert puts a node n before the one at a position counted from   *)
(* 0.  On an empty list the position does not matter; a position that is    *)
(* not in the list makes it an append, which ignores NULL data.             *)
InsertNode(m, p, n, d, position) ==
  LET new == [m EXCEPT !.next[n] = NULL, !.prev[n] = NULL, !.data[n] = d]
      c == Chain(m, p)
  IN  IF p = NULL THEN List(new, n)
      ELSE IF position = 0
      THEN List([new EXCEPT !.prev[p] = n, !.next[n] = p], n)
      ELSE IF position \in 1..Len(c) - 1
      THEN LET node == c[position + 1]  prev == m.prev[node]
           IN  List([new EXCEPT !.next[prev] = n, !.next[n] = node,
                                !.prev[n] = prev, !.prev[node] = n], p)
      ELSE AppendNode(m, p, n, d)

(* ta_list_pop unlinks the last node.                                       *)
PopNode_PrevKept(m, p) ==
  LET last == LastNode(m, p)  prev == m.prev[last]
  IN  IF p = NULL THEN List(m, NULL)
      ELSE List([m EXCEPT !.prev[last] = NULL], IF last = p THEN NULL ELSE p)

PopNode(m, p) ==
  LET last == LastNode(m, p)  prev == m.prev[last]
  IN  IF p = NULL THEN List(m, NULL)
      ELSE IF prev = NULL THEN List(m, IF last = p THEN NULL ELSE p)
      ELSE List([m EXCEPT !.next[prev] = NULL, !.prev[last] = NULL],
                IF last = p THEN NULL ELSE p)

(* ta_list_extend binds the last node of p to the first of other.           *)
ExtendList_NoBackLink(m, p, other) ==
  LET last == LastNode(m, p) IN
  IF other = NULL THEN List(m, p)
  ELSE IF last = NULL THEN List(m, other)
  ELSE List([m EXCEPT !.next[last] = other], p)

ExtendList(m, p, other) ==
  LET last == LastNode(m, p)
      back == [m EXCEPT !.prev[other] = last]
  IN  IF other = NULL THEN List(m, p)
      ELSE IF last = NULL THEN List(back, other)
      ELSE List([back EXCEPT !.next[last] = other], p)

(* ta_list_reverse swaps the links of every node.                           *)
ReverseList(m, p) ==
  LET c == Chain(m, p)
      Swap(f, g) == [n \in DOMAIN f |-> IF \E i \in DOMAIN c : c[i] = n THEN g[n] ELSE f[n]]
  IN  List([m EXCEPT !.next = Swap(m.next, m.prev), !.prev = Swap(m.prev, m.next)],
           LastNode(m, p))
-----------------------------------------------------------------------------
(* The shape the operations rely on and keep: no cycle, prev undoes next,   *)
(* and nothing comes before the first node.                                 *)
WellFormed(m, p) ==
  LET c == Chain(m, p) IN
  /\ Len(c) <= Cardinality(DOMAIN m.next)
  /\ \A i \in DOMAIN c : m.prev[c[i]] = (IF i = 1 THEN NULL ELSE c[i - 1])
=============================================================================
