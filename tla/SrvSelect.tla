------------------------------ MODULE SrvSelect ------------------------------
(***************************************************************************)
(* The order in which ta_srv_query_domain returns the targets of a service *)
(* (src/srv.c:119-180), once they are read from the answer: they are       *)
(* sorted by priority and weight, and then, one priority after the other,  *)
(* drawn at random by their weights.  Both happen on the links of one list *)
(* in place: what is drawn is removed and hung behind the output.          *)
(* pc is "draw" from the first priority on, and "crash" once the search     *)
(* has gone through a NULL pointer.                                        *)
(*                                                                         *)
(* overdrawn is a history variable, which no action reads: the places of   *)
(* the output for which a number above the sum of the weights was drawn.   *)
(*                                                                         *)
(* The key of a node is its target's priority and weight in one number.    *)
(***************************************************************************)
EXTENDS TaListSort, SequencesExt

CONSTANTS
  Scale    \* above every weight; a key is priority * Scale + weight

ASSUME ScaleAssumption == Scale \in Nat \ {0}

VARIABLES
  out, last,   \* the first and the last node drawn so far
  num, sum,    \* how many targets of the priority are left, and their weights
  overdrawn
drawing == <<out, last, num, sum, overdrawn>>
srvVars == <<vars, drawing>>

Priority(n) == key[n] \div Scale
Weight(n) == key[n] % Scale

SrvInit ==
  /\ Init
  /\ out = NULL /\ last = NULL /\ num = 0 /\ sum = 0
  /\ overdrawn = {}

Sort == SortStep /\ UNCHANGED drawing

(* The weights of the first i nodes of c.                                   *)
Weights(c, i) ==
  LET To[j \in 0..Len(c)] == IF j = 0 THEN 0 ELSE To[j - 1] + Weight(c[j])
  IN  To[i]

(* The targets of the first priority are counted, their weights added up.   *)
SameLevel(c) == CHOOSE i \in DOMAIN c :
  /\ \A j \in 1..i : Priority(c[j]) = Priority(c[1])
  /\ i < Len(c) => Priority(c[i + 1]) # Priority(c[1])

Level ==
  LET c == Chain(mem, list) IN
  /\ pc = "return" \/ (pc = "draw" /\ num = 0)
  /\ list # NULL
  /\ num' = SameLevel(c)
  /\ sum' = Weights(c, SameLevel(c))
  /\ pc' = "draw"
  /\ UNCHANGED <<key, mem, list, p, q, tail, psize, qsize, split_point, nmerges>>
  /\ UNCHANGED <<out, last, overdrawn>>

(* A number is drawn and the list searched for the node it falls on.  The   *)
(* quotient rand()/RAND_MAX is 1 for RAND_MAX itself and for what a float    *)
(* rounds to it, so that sum + 1 is drawn too.  When a target of another     *)
(* level was drawn the sum may be negative, and then so are the numbers.     *)
Draws == IF sum + 1 >= 0 THEN 0..sum + 1 ELSE sum + 1..0
Overdraws(r) == r > sum /\ r > 0
FallsOn(c, r) == {i \in DOMAIN c : Weight(c[i]) >= r - Weights(c, i - 1)}
Winner(c, r, i) == i \in FallsOn(c, r) /\ \A j \in 1..i - 1 : j \notin FallsOn(c, r)

SumLeft_Kept(t) == sum
SumLeft(t) == sum - Weight(t)

Pick_LastKept(t) ==
  \E rest \in {RemoveData(mem, list, mem.data[t])} :
  /\ list' = rest.head
  /\ mem' = IF out = NULL THEN rest.mem ELSE [rest.mem EXCEPT !.next[last] = t]
  /\ out' = IF out = NULL THEN t ELSE out
  /\ last' = IF out = NULL THEN t ELSE last
  /\ num' = num - 1 /\ sum' = SumLeft(t)

(* The winner t goes from the list to the end of the output.                *)
Pick(t) ==
  \E rest \in {RemoveData(mem, list, mem.data[t])} :
  /\ list' = rest.head
  /\ mem' = IF out = NULL THEN rest.mem ELSE [rest.mem EXCEPT !.next[last] = t]
  /\ out' = IF out = NULL THEN t ELSE out
  /\ last' = t
  /\ num' = num - 1 /\ sum' = SumLeft(t)

(* A number is drawn; if it falls on no target the search runs off the list.*)
Draw ==
  /\ pc = "draw" /\ num > 0
  /\ \E c \in {Chain(mem, list)}, r \in Draws :
       /\ \/ \E i \in DOMAIN c : Winner(c, r, i) /\ Pick(c[i]) /\ UNCHANGED pc
          \/ /\ FallsOn(c, r) = {} /\ pc' = "crash"
             /\ UNCHANGED <<mem, list, out, last, num, sum>>
       /\ overdrawn' = IF Overdraws(r) THEN overdrawn \cup {Size - Len(c) + 1}
                       ELSE overdrawn
  /\ UNCHANGED <<key, p, q, tail, psize, qsize, split_point, nmerges>>

(* ta_srv_query_domain has returned out.                                    *)
Returned == pc \in {"return", "draw"} /\ list = NULL /\ num = 0
Rest == (Returned \/ pc = "crash") /\ UNCHANGED srvVars

SrvNext == Sort \/ Level \/ Draw \/ Rest
SrvSpec == SrvInit /\ [][SrvNext]_srvVars /\ WF_srvVars(Sort \/ Level \/ Draw)
-----------------------------------------------------------------------------
(* What is left on the list, and what has been drawn; the last node drawn   *)
(* still points to what came behind it on the list.                         *)
Left == Chain(mem, list)
Drawn == SubSeq(Chain(mem, out), 1, Size - Len(Left))

(* At any time every target is either drawn or still on the list, once.     *)
TargetsKept ==
  pc = "draw" => /\ Len(Chain(mem, out)) >= Size - Len(Left)
                 /\ ToSet(Drawn \o Left) = Nodes

(* The places of the output d that a target of a later priority has taken   *)
(* while one of an earlier priority was still to be drawn.                  *)
Early(d, c) == {i \in DOMAIN d :
  \/ \E j \in i + 1..Len(d) : Priority(d[j]) < Priority(d[i])
  \/ \E j \in DOMAIN c : Priority(c[j]) < Priority(d[i])}

(* Targets are drawn "in this priority level" (srv.c:152) until none is     *)
(* left in it, except where the number drawn was above the sum of their     *)
(* weights: only then is the place taken by a target of a later priority,   *)
(* or does the search run off the list, and only after such a draw do num   *)
(* and sum no longer count what is left of the level.                       *)
LevelsInOrder ==
  LET c == Left
      level == SameLevel(c)
  IN  /\ pc = "crash" => Size - Len(c) + 1 \in overdrawn
      /\ pc = "draw" => Early(Drawn, c) \subseteq overdrawn
      /\ pc = "draw" /\ num > 0 =>
           /\ num <= level /\ sum <= Weights(c, level)
           /\ overdrawn = {} => num = level /\ sum = Weights(c, level)

(* The query returns the whole list and nothing behind it, unless a number  *)
(* above the sum of the weights has taken the search off the list.          *)
QueryReturns ==
  <>(\/ Returned /\ Len(Chain(mem, out)) = Size
     \/ pc = "crash" /\ overdrawn # {})
=============================================================================
