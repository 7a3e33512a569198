--------------------------- MODULE EventHooksProofs ---------------------------
(***************************************************************************)
(* Proofs about HookOrder and EventHooks for any events, hooks, number of  *)
(* registrations and depth of nesting: the types, the lists of hooks, the  *)
(* order in which HookOrder calls them, and that EventHooks calls them so  *)
(* while no hook disconnects itself or one that is being called.  The      *)
(* lists of the events are apart, ascend because a connect appends what it *)
(* has just allocated, and hold what is live.                              *)
(***************************************************************************)
EXTENDS EventHooks, TaListOpsProofs

Values == Nodes \cup {NULL}
Chains == [e \in Events |-> Chain(mem, head[e])]
Ascending(c) == \A i, j \in DOMAIN c : i < j => c[i] < c[j]

ListInv ==
  /\ Apart(Nodes, Values, Events, mem, head, Chains)
  /\ \A e \in Events : Ascending(Chains[e])

Owned ==
  /\ \A n \in Nodes : (st[n] = "live") = (\E e \in Events : n \in Of(Chains[e]))
  /\ \A n \in Nodes : n > made => st[n] = "unused"
  /\ \A n \in Nodes : st[n] = "live" => mem.data[n] = n

Inv == TypeOK /\ ListInv /\ Owned

LEMMA NodesFinite == IsFiniteSet(Nodes) /\ NULL \notin Nodes /\ Nodes \subseteq Nat
  BY RegAssumption, FS_Interval DEF Nodes, NULL

LEMMA ListedIs == ASSUME NEW e \in Events PROVE Listed(e) = Of(Chains[e])
  BY DEF Listed, Of, ToSet, Chains

LEMMA ApartGives ==
  ASSUME NEW m, NEW h, NEW cs, Apart(Nodes, Values, Events, m, h, cs)
  PROVE  \A e \in Events : Chain(m, h[e]) = cs[e]
  BY NodesFinite, ChainIs DEF Apart

LEMMA InvGives ==
  ASSUME Inv, NEW e \in Events
  PROVE  LET c == Chains[e] IN
         /\ mem \in Memory(Nodes, Values) /\ Linked(mem, head[e], c)
         /\ c = Chain(mem, head[e])
         /\ c \in Seq(Nodes) /\ Once(c) /\ Len(c) \in Nat /\ DOMAIN c = 1..Len(c)
         /\ c = <<>> <=> Len(c) = 0
         /\ head[e] = IF Len(c) = 0 THEN NULL ELSE c[1]
         /\ \A i \in 1..Len(c) :
              /\ c[i] \in Nodes /\ c[i] # NULL /\ c[i] \in Of(c)
              /\ mem.next[c[i]] = IF i = Len(c) THEN NULL ELSE c[i + 1]
         /\ Ascending(c) /\ Of(c) \subseteq Nodes
         /\ \A n \in Of(c) : st[n] = "live" /\ mem.data[n] = n /\ n <= made
<1> DEFINE c == Chains[e]
<1>1. mem \in Memory(Nodes, Values) /\ Linked(mem, head[e], c) /\ Ascending(c)
  BY DEF Inv, ListInv, Apart
<1>2. c = Chain(mem, head[e])
  BY DEF Chains
<1> HIDE DEF c
<1>3. /\ c \in Seq(Nodes) /\ Once(c) /\ Len(c) \in Nat /\ DOMAIN c = 1..Len(c)
      /\ c = <<>> <=> Len(c) = 0
      /\ head[e] = IF Len(c) = 0 THEN NULL ELSE c[1]
      /\ \A i \in 1..Len(c) :
           /\ c[i] \in Nodes /\ c[i] # NULL
           /\ mem.next[c[i]] = IF i = Len(c) THEN NULL ELSE c[i + 1]
  BY <1>1, NodesFinite, LinkedIs, SMTT(30)
<1>4. Of(c) \subseteq Nodes /\ \A i \in 1..Len(c) : c[i] \in Of(c)
  BY <1>3 DEF Of
<1>5. \A n \in Of(c) : st[n] = "live" /\ mem.data[n] = n /\ n <= made
  <2> TAKE n \in Of(c)
  <2>1. st[n] = "live" /\ n \in Nodes
    BY <1>4 DEF Inv, Owned, c
  <2>2. ~(n > made) /\ mem.data[n] = n
    BY <2>1 DEF Inv, Owned
  <2>3. n \in Nat /\ made \in Nat
    BY <2>1, NodesFinite DEF Inv, TypeOK
  <2> QED BY <2>1, <2>2, <2>3
<1> QED BY <1>1, <1>2, <1>3, <1>4, <1>5 DEF c

(* A step of one event's list that also touches the nodes in S, which are   *)
(* on no list.                                                              *)
LEMMA OneChanges ==
  ASSUME Inv, NEW e \in Events, NEW r, NEW c, Ascending(c),
         NEW S, \A k \in Events : Of(Chains[k]) \cap S = {},
         Makes(Nodes, Values, mem, r, c, Of(Chains[e]) \cup S),
         Of(c) \subseteq Of(Chains[e]) \cup S,
         mem' = r.mem, head' = [head EXCEPT ![e] = r.head]
  PROVE  /\ ListInv' /\ mem' \in Memory(Nodes, Values)
         /\ head' \in [Events -> Nodes \cup {NULL}]
         /\ Chains' = [Chains EXCEPT ![e] = c]
<1> DEFINE ds == [k \in Events |-> IF k = e THEN c ELSE Chains[k]]
<1>1. head \in [Events -> Nodes \cup {NULL}]
  BY DEF Inv, TypeOK
<1>2. Apart(Nodes, Values, Events, mem, head, Chains)
  BY DEF Inv, ListInv
<1>3. head'[e] = r.head /\ \A k \in Events : k # e => head'[k] = head[k]
  BY <1>1
<1>4. ds[e] = c /\ \A k \in Events : k # e => ds[k] = Chains[k]
  OBVIOUS
<1> HIDE DEF ds
<1>5. Apart(Nodes, Values, Events, mem', head', ds)
  <2>1. PICK g : g = head'
    OBVIOUS
  <2>2. Apart(Nodes, Values, Events, r.mem, g, ds)
    <3>1. Only(Events, e, head, r.head, g) /\ Only(Events, e, Chains, c, ds)
      BY <1>3, <1>4, <2>1 DEF Only
    <3>2. NULL \notin Nodes /\ ~On(Events, Chains, S)
      BY NodesFinite DEF On
    <3> QED BY <1>2, <3>1, <3>2, ApartChanges
  <2> QED BY <2>1, <2>2
<1>6. \A k \in Events : Chain(mem', head'[k]) = ds[k]
  <2>1. PICK m, g : m = mem' /\ g = head'
    OBVIOUS
  <2>2. \A k \in Events : Chain(m, g[k]) = ds[k]
    <3>1. Apart(Nodes, Values, Events, m, g, ds)
      BY <1>5, <2>1
    <3> QED BY <3>1, NodesFinite, ApartGives
  <2> QED BY <2>1, <2>2
<1>7. Chains' = ds
  BY <1>6 DEF Chains, ds
<1>8. Chains' = [Chains EXCEPT ![e] = c]
  BY <1>7 DEF Chains, ds
<1>9. \A k \in Events : Ascending(ds[k])
  <2> TAKE k \in Events
  <2>1. Ascending(Chains[k])
    BY DEF Inv, ListInv
  <2> QED BY <1>4, <2>1
<1>10. ListInv'
  BY <1>5, <1>7, <1>9 DEF ListInv
<1>11. r.head \in Nodes \cup {NULL} /\ mem' \in Memory(Nodes, Values)
  <2>1. r.mem \in Memory(Nodes, Values) /\ Linked(r.mem, r.head, c)
    BY DEF Makes
  <2>2. /\ r.head = IF Len(c) = 0 THEN NULL ELSE c[1]
        /\ Len(c) \in Nat /\ \A i \in 1..Len(c) : c[i] \in Nodes
    BY <2>1, NodesFinite, LinkedIs
  <2>3. Len(c) # 0 => 1 \in 1..Len(c)
    BY <2>2
  <2> QED BY <2>1, <2>2, <2>3
<1> QED BY <1>1, <1>8, <1>10, <1>11
-----------------------------------------------------------------------------
LEMMA InvInit == Init => Inv
<1> SUFFICES ASSUME Init PROVE Inv
  OBVIOUS
<1> DEFINE cs == [e \in Events |-> <<>>]
<1>1. /\ mem \in Memory(Nodes, Values) /\ \A n \in Nodes : st[n] = "unused"
      /\ \A e \in Events : head[e] = NULL /\ cs[e] = <<>>
  BY DEF Init, Memory, Values, Cleared
<1>2. TypeOK
  BY <1>1, RegAssumption DEF Init, TypeOK, Memory, Values
<1>3. Linked(mem, NULL, <<>>) /\ Ascending(<<>>) /\ Of(<<>>) = {}
  BY DEF Linked, Once, Ascending, Of
<1>4. Apart(Nodes, Values, Events, mem, head, cs)
  <2> HIDE DEF cs
  <2> QED BY <1>1, <1>3 DEF Apart
<1>5. Chains = cs
  <2>1. \A e \in Events : Chain(mem, head[e]) = cs[e]
    <3> HIDE DEF cs
    <3> QED BY <1>4, ApartGives
  <2> QED BY <2>1 DEF Chains
<1>6. ListInv
  <2> HIDE DEF cs
  <2> QED BY <1>1, <1>3, <1>4, <1>5 DEF ListInv
<1>7. Owned
  <2> HIDE DEF cs
  <2> QED BY <1>1, <1>3, <1>5 DEF Owned
<1> QED BY <1>2, <1>6, <1>7 DEF Inv

(* What becomes of the lists when hooks are connected and disconnected.     *)
LEMMA AscendingWith ==
  ASSUME NEW c \in Seq(Nodes), Ascending(c), NEW n \in Nodes, \A x \in Of(c) : x < n
  PROVE  Ascending(With(c, Len(c) + 1, n))
<1> DEFINE L == Len(c)
           s == With(c, L + 1, n)
<1>1. L \in Nat /\ DOMAIN c = 1..L /\ \A i \in 1..L : c[i] \in Of(c)
  BY LenProperties DEF Of
<1>2. DOMAIN s = 1..L + 1
      /\ \A j \in 1..L + 1 : s[j] = IF j < L + 1 THEN c[j] ELSE IF j = L + 1 THEN n ELSE c[j - 1]
  BY DEF With
<1> SUFFICES ASSUME NEW i \in 1..L + 1, NEW j \in 1..L + 1, i < j PROVE s[i] < s[j]
  BY <1>2 DEF Ascending
<1> HIDE DEF s, L
<1>3. i \in 1..L /\ s[i] = c[i]
  BY <1>1, <1>2
<1>4. CASE j = L + 1
  BY <1>1, <1>2, <1>3, <1>4
<1>5. CASE j # L + 1
  <2>1. j \in 1..L /\ s[j] = c[j]
    BY <1>1, <1>2, <1>5
  <2> QED BY <1>1, <1>3, <2>1 DEF Ascending
<1> QED BY <1>4, <1>5

LEMMA AscendingWithout ==
  ASSUME NEW c \in Seq(Nodes), Ascending(c), NEW k \in 1..Len(c)
  PROVE  Ascending(Without(c, k))
<1> DEFINE L == Len(c)
           s == Without(c, k)
<1>1. L \in Nat /\ DOMAIN c = 1..L /\ k \in 1..L
  BY LenProperties
<1>2. DOMAIN s = 1..L - 1 /\ \A j \in 1..L - 1 : s[j] = IF j < k THEN c[j] ELSE c[j + 1]
  BY DEF Without
<1> SUFFICES ASSUME NEW i \in 1..L - 1, NEW j \in 1..L - 1, i < j PROVE s[i] < s[j]
  BY <1>2 DEF Ascending
<1> HIDE DEF s, L
<1> DEFINE At(x) == IF x < k THEN x ELSE x + 1
<1>3. At(i) \in 1..L /\ At(j) \in 1..L /\ At(i) < At(j)
  BY <1>1
<1>4. s[i] = c[At(i)] /\ s[j] = c[At(j)]
  BY <1>2
<1> QED BY <1>1, <1>3, <1>4 DEF Ascending

LEMMA ConnectStep ==
  ASSUME Inv, NEW e \in Events, NEW h \in Hooks, Connect(e, h)
  PROVE  Inv' /\ Of(Chains'[e]) = Of(Chains[e]) \cup {made + 1}
         /\ \A k \in Events : k # e => Chains'[k] = Chains[k]
<1> DEFINE c == Chains[e]
           n == made + 1
           r == AppendNode(mem, head[e], n, n)
           s == With(c, Len(c) + 1, n)
<1>1. /\ made \in Nat /\ n \in Nodes /\ n > made /\ n # NULL /\ n \in Values
      /\ made' = n /\ made' \in 0..MaxRegs
  BY RegAssumption DEF Connect, Inv, TypeOK, Nodes, NULL, Values
<1>2. /\ mem \in Memory(Nodes, Values) /\ Linked(mem, head[e], c) /\ c \in Seq(Nodes)
      /\ Len(c) \in Nat /\ Ascending(c) /\ Of(c) \subseteq Nodes
  BY InvGives
<1>3. \A k \in Events : n \notin Of(Chains[k]) /\ Of(Chains[k]) \cap {n} = {}
  <2>1. \A k \in Events : \A x \in Of(Chains[k]) : x <= made /\ x \in Nodes
    BY InvGives
  <2> HIDE DEF n
  <2>2. ~(n <= made)
    BY <1>1, NodesFinite
  <2> QED BY <2>1, <2>2
<1>4. Makes(Nodes, Values, mem, r, s, Of(c) \cup {n}) /\ Stores(mem, r.mem, n, n)
  <2>1. n \in Nodes \ Of(c) /\ n \in Values /\ n # NULL
    BY <1>1, <1>3
  <2>2. IsFiniteSet(Nodes) /\ NULL \notin Nodes
    BY NodesFinite
  <2> HIDE DEF c, n
  <2> QED BY <1>2, <2>1, <2>2, AppendNodeIs
<1>5. Ascending(s)
  <2>1. \A x \in Of(c) : x < n
    <3>1. \A x \in Of(c) : x <= made /\ x \in Nat
      BY InvGives, NodesFinite
    <3> QED BY <1>1, <3>1
  <2> HIDE DEF c, n
  <2> QED BY <1>1, <1>2, <2>1, AscendingWith
<1>6. Of(s) = Of(c) \cup {n}
  <2>1. PICK i \in 1..Len(c) + 1 : i = Len(c) + 1
    BY <1>2
  <2>2. n \in Nodes
    BY <1>1
  <2> HIDE DEF c, n
  <2>3. Of(With(c, i, n)) = Of(c) \cup {n}
    BY <1>2, <2>2, WithIs
  <2> QED BY <2>1, <2>3
<1>7. mem' = r.mem /\ head' = [head EXCEPT ![e] = r.head]
  <2>1. /\ mem' = r.mem
        /\ head' = [head EXCEPT ![e] = IF @ = NULL THEN r.head ELSE @]
    BY DEF Connect, Connected
  <2>2. head[e] # NULL => r.head = head[e]
    <3> HIDE DEF n
    <3> QED BY <1>1 DEF AppendNode, List
  <2> HIDE DEF r
  <2> QED BY <2>1, <2>2
<1> HIDE DEF r, s, c
<1>8. /\ ListInv' /\ mem' \in Memory(Nodes, Values)
      /\ head' \in [Events -> Nodes \cup {NULL}]
      /\ Chains' = [Chains EXCEPT ![e] = s]
  <2> HIDE DEF n
  <2>1. DEFINE S == {n}
  <2> QED BY <1>3, <1>4, <1>5, <1>6, <1>7, OneChanges DEF c
<1>9. Chains'[e] = s /\ \A k \in Events : k # e => Chains'[k] = Chains[k]
  BY <1>8 DEF Chains
<1>10. TypeOK'
  <2>1. /\ st' = [st EXCEPT ![n] = "live"] /\ fn' = [fn EXCEPT ![n] = h] /\ calls' = calls
    BY DEF Connect
  <2> HIDE DEF n
  <2> QED BY <1>1, <1>8, <2>1 DEF Inv, TypeOK, Memory, Values
<1>11. st' = [st EXCEPT ![n] = "live"] /\ st \in [Nodes -> {"unused", "live", "freed"}]
  BY DEF Connect, Inv, TypeOK
<1>12. \A x \in Nodes : (st'[x] = "live") = (\E k \in Events : x \in Of(Chains'[k]))
  <2> TAKE x \in Nodes
  <2>1. (st[x] = "live") = (\E k \in Events : x \in Of(Chains[k]))
    BY DEF Inv, Owned
  <2>2. st'[x] = "live" <=> st[x] = "live" \/ x = n
    <3> HIDE DEF n
    <3> QED BY <1>11
  <2>3. \A k \in Events : x \in Of(Chains'[k]) <=> x \in Of(Chains[k]) \/ (k = e /\ x = n)
    <3> HIDE DEF n
    <3> QED BY <1>6, <1>9 DEF c
  <2> HIDE DEF n
  <2> QED BY <2>1, <2>2, <2>3
<1>13. \A x \in Nodes : x > made' => st'[x] = "unused"
  <2>1. \A x \in Nodes : x > made => st[x] = "unused"
    BY DEF Inv, Owned
  <2>2. \A x \in Nodes : x > n => x > made /\ x # n
    BY <1>1, NodesFinite
  <2> HIDE DEF n
  <2> QED BY <1>1, <1>11, <2>1, <2>2
<1>14. \A x \in Nodes : st'[x] = "live" => mem'.data[x] = x
  <2>1. \A x \in Nodes : st[x] = "live" => mem.data[x] = x
    BY DEF Inv, Owned
  <2>2. mem'.data = [mem.data EXCEPT ![n] = n]
    BY <1>4, <1>7 DEF Stores
  <2> HIDE DEF n
  <2> QED BY <1>2, <1>11, <2>1, <2>2 DEF Memory
<1> QED BY <1>6, <1>8, <1>9, <1>10, <1>12, <1>13, <1>14 DEF Inv, Owned, c
(* The loop of ta_xmpp_client_event_disconnect: Left[i] is the list when    *)
(* it has seen i nodes.                                                     *)
Looped(e, h, Left, n) ==
  LET c == Chain(mem, head[e]) IN
  Left = [i \in 0..n |->
            IF i = 0 THEN List(mem, head[e])
            ELSE LET l == Left[i - 1]
                 IN  IF c[i] \in Matching(e, h) THEN RemoveData(l.mem, l.head, mem.data[c[i]])
                     ELSE l]

LEMMA LoopedExists ==
  ASSUME NEW e, NEW h, NEW n \in Nat
  PROVE  \E Left : Looped(e, h, Left, n)
<1> DEFINE c == Chain(mem, head[e])
           Body(i, l) == IF c[i] \in Matching(e, h)
                         THEN RemoveData(l.mem, l.head, mem.data[c[i]]) ELSE l
           Ok == {m \in Nat : \E Left : Looped(e, h, Left, m)}
           Start == List(mem, head[e])
<1>1. 0 \in Ok
  <2> DEFINE Left == [i \in 0..0 |-> Start]
  <2>1. \A i \in 0..0 : i = 0
    OBVIOUS
  <2> HIDE DEF Start
  <2>2. Left = [i \in 0..0 |-> IF i = 0 THEN Start ELSE Body(i, Left[i - 1])]
    <3> HIDE DEF Body
    <3> QED BY <2>1
  <2>3. Looped(e, h, Left, 0)
    BY <2>2, Zenon DEF Looped, Start
  <2> QED BY <2>3
<1>2. ASSUME NEW m \in Ok PROVE m + 1 \in Ok
  <2>1. m \in Nat
    OBVIOUS
  <2>2. PICK Left : Looped(e, h, Left, m)
    OBVIOUS
  <2> DEFINE New == [i \in 0..m + 1 |-> IF i <= m THEN Left[i] ELSE Body(m + 1, Left[m])]
  <2>3. \A i \in 0..m : Left[i] = IF i = 0 THEN Start ELSE Body(i, Left[i - 1])
    <3>1. Left = [i \in 0..m |-> IF i = 0 THEN Start ELSE Body(i, Left[i - 1])]
      BY <2>2, Zenon DEF Looped
    <3> HIDE DEF Body, Start
    <3> QED BY <3>1
  <2> HIDE DEF Body, Start
  <2>4. /\ \A i \in 0..m : New[i] = Left[i]
        /\ New[m + 1] = Body(m + 1, Left[m])
        /\ New = [i \in 0..m + 1 |-> New[i]]
    BY <2>1
  <2> HIDE DEF New
  <2>5. ASSUME NEW i \in 0..m + 1 PROVE New[i] = IF i = 0 THEN Start ELSE Body(i, New[i - 1])
    <3>1. CASE i \in 0..m
      <4>1. i # 0 => i - 1 \in 0..m
        BY <2>1, <3>1
      <4> QED BY <2>3, <2>4, <3>1, <4>1
    <3>2. CASE i = m + 1
      <4>1. i # 0 /\ i - 1 = m /\ m \in 0..m
        BY <2>1, <3>2
      <4> QED BY <2>4, <3>2, <4>1
    <3> QED BY <2>1, <3>1, <3>2
  <2>6. New = [i \in 0..m + 1 |-> IF i = 0 THEN Start ELSE Body(i, New[i - 1])]
    BY <2>4, <2>5
  <2>7. Looped(e, h, New, m + 1)
    BY <2>6, Zenon DEF Looped, Body, Start
  <2> QED BY <2>1, <2>7
<1>3. Ok = Nat
  <2> HIDE DEF Ok
  <2>1. Ok \in SUBSET Nat
    BY DEF Ok
  <2> QED BY <1>1, <1>2, <2>1, Induction
<1> QED BY <1>3

LEMMA DisconnectedIs ==
  ASSUME Inv, NEW e \in Events, NEW h
  PROVE  \E Left : /\ Looped(e, h, Left, Len(Chains[e]))
                   /\ Disconnected(e, h) = Left[Len(Chains[e])]
<1> DEFINE c == Chain(mem, head[e])
           Left == CHOOSE Left : Looped(e, h, Left, Len(c))
<1>1. Chains[e] = c /\ Len(c) \in Nat
  <2>1. Chains[e] = c /\ Len(Chains[e]) \in Nat
    BY InvGives
  <2> QED BY <2>1
<1>2. Looped(e, h, Left, Len(c))
  BY <1>1, LoopedExists
<1>3. Disconnected(e, h) = Left[Len(c)]
  BY Zenon DEF Disconnected, Looped
<1> HIDE DEF Left
<1> QED BY <1>1, <1>2, <1>3

(* After i nodes the matching ones of them are off the list.                *)
Pruned(e, h, i, l) ==
  LET c == Chains[e] IN
  \E s : /\ Makes(Nodes, Values, mem, l, s, Of(c))
         /\ l.mem.data = mem.data
         /\ Ascending(s)
         /\ Of(s) = {x \in Of(c) : x \notin Matching(e, h) \/ \A j \in 1..i : x # c[j]}

LEMMA PrunedStart ==
  ASSUME Inv, NEW e \in Events, NEW h
  PROVE  Pruned(e, h, 0, List(mem, head[e]))
<1> DEFINE c == Chains[e]
<1>1. mem \in Memory(Nodes, Values) /\ Linked(mem, head[e], c) /\ Ascending(c)
  BY InvGives
<1> HIDE DEF c
<1>2. Makes(Nodes, Values, mem, List(mem, head[e]), c, Of(c))
  BY <1>1 DEF Makes, List, SameLinks
<1>3. Of(c) = {x \in Of(c) : x \notin Matching(e, h) \/ \A j \in 1..0 : x # c[j]}
  OBVIOUS
<1> QED BY <1>1, <1>2, <1>3 DEF Pruned, List, c

LEMMA PrunedNext ==
  ASSUME Inv, NEW e \in Events, NEW h, NEW i \in 1..Len(Chains[e]), NEW l,
         Pruned(e, h, i - 1, l)
  PROVE  Pruned(e, h, i, IF Chains[e][i] \in Matching(e, h)
                         THEN RemoveData(l.mem, l.head, mem.data[Chains[e][i]]) ELSE l)
<1> DEFINE c == Chains[e]
           M == Matching(e, h)
           n == c[i]
           r == RemoveData(l.mem, l.head, n)
<1>1. /\ mem \in Memory(Nodes, Values) /\ Once(c) /\ Len(c) \in Nat /\ DOMAIN c = 1..Len(c)
      /\ i \in 1..Len(c) /\ n \in Of(c) /\ Of(c) \subseteq Nodes
      /\ \A x \in Of(c) : mem.data[x] = x
  BY InvGives
<1> HIDE DEF c, M, n
<1>2. PICK s : /\ Makes(Nodes, Values, mem, l, s, Of(c))
               /\ l.mem.data = mem.data
               /\ Ascending(s)
               /\ Of(s) = {x \in Of(c) : x \notin M \/ \A j \in 1..i - 1 : x # c[j]}
  BY DEF Pruned, c, M
<1>3. \A j \in 1..i : j \in 1..i - 1 \/ j = i
  BY <1>1
<1>4. \A j \in 1..i - 1 : j \in 1..i /\ j \in 1..Len(c) /\ c[j] # n
  <2>1. \A j \in 1..i - 1 : j \in 1..i /\ j \in 1..Len(c) /\ j # i
    BY <1>1
  <2> QED BY <1>1, <2>1 DEF Once, n
<1>5. i \in 1..i
  BY <1>1
<1>6. CASE n \notin M
  <2>1. Of(s) = {x \in Of(c) : x \notin M \/ \A j \in 1..i : x # c[j]}
    BY <1>2, <1>3, <1>4, <1>6 DEF n
  <2> QED BY <1>2, <1>6, <2>1 DEF Pruned, c, M, n
<1>7. CASE n \in M
  <2>1. l.mem \in Memory(Nodes, Values) /\ Linked(l.mem, l.head, s)
        /\ SameLinks(mem, l.mem, Nodes \ Of(c))
    BY <1>2 DEF Makes
  <2>2. s \in Seq(Nodes) /\ Once(s) /\ DOMAIN s = 1..Len(s)
    BY <2>1, NodesFinite, LinkedIs
  <2>3. n \in Of(s)
    BY <1>1, <1>2, <1>4
  <2>4. PICK k \in 1..Len(s) : s[k] = n
    BY <2>2, <2>3 DEF Of
  <2>5. \A j \in 1..Len(s) : s[j] \in Of(s) /\ l.mem.data[s[j]] = s[j]
    <3>1. \A j \in 1..Len(s) : s[j] \in Of(s)
      BY <2>2 DEF Of
    <3> QED BY <1>1, <1>2, <3>1
  <2>6. PICK j \in 1..Len(s) : /\ FirstHeld(l.mem, s, n, j)
                               /\ Makes(Nodes, Values, l.mem, r, Without(s, j), Of(s))
                               /\ r.mem.data = l.mem.data
    <3>1. \/ r = List(l.mem, l.head) /\ \A j \in 1..Len(s) : l.mem.data[s[j]] # n
          \/ \E j \in 1..Len(s) : /\ FirstHeld(l.mem, s, n, j)
                                  /\ Makes(Nodes, Values, l.mem, r, Without(s, j), Of(s))
                                  /\ r.mem.data = l.mem.data
      <4>1. FirstGone(Nodes, Values, l.mem, l.head, s, n)
        BY <2>1, NodesFinite, RemoveDataIs
      <4> QED BY <4>1 DEF FirstGone
    <3>2. l.mem.data[s[k]] = n
      BY <2>4, <2>5
    <3> QED BY <3>1, <3>2
  <2>7. s[j] = n
    BY <2>5, <2>6 DEF FirstHeld
  <2>8. Of(Without(s, j)) = Of(s) \ {n} /\ Ascending(Without(s, j))
    BY <1>2, <2>2, <2>7, WithoutIs, AscendingWithout
  <2>9. Makes(Nodes, Values, mem, r, Without(s, j), Of(c))
    <3>1. Of(s) \subseteq Of(c)
      BY <1>2
    <3>2. SameLinks(l.mem, r.mem, Nodes \ Of(s))
      BY <2>6 DEF Makes
    <3>3. SameLinks(mem, r.mem, Nodes \ Of(c))
      BY <2>1, <3>1, <3>2 DEF SameLinks
    <3> QED BY <2>6, <3>3 DEF Makes
  <2>10. Of(Without(s, j)) = {x \in Of(c) : x \notin M \/ \A y \in 1..i : x # c[y]}
    BY <1>2, <1>3, <1>4, <1>5, <1>7, <2>8 DEF n
  <2>11. r.mem.data = mem.data
    BY <1>2, <2>6
  <2>12. Pruned(e, h, i, r)
    <3> HIDE DEF r
    <3> QED BY <2>8, <2>9, <2>10, <2>11 DEF Pruned, c, M
  <2>13. mem.data[n] = n
    BY <1>1
  <2> QED BY <1>7, <2>12, <2>13 DEF c, M, n
<1> QED BY <1>6, <1>7

LEMMA DisconnectedPruned ==
  ASSUME Inv, NEW e \in Events, NEW h
  PROVE  Pruned(e, h, Len(Chains[e]), Disconnected(e, h))
<1> DEFINE c == Chains[e]
           L == Len(c)
           Start == List(mem, head[e])
           Body(i, l) == IF c[i] \in Matching(e, h)
                         THEN RemoveData(l.mem, l.head, mem.data[c[i]]) ELSE l
<1>1. PICK Left : Looped(e, h, Left, L) /\ Disconnected(e, h) = Left[L]
  BY DisconnectedIs
<1>2. L \in Nat /\ c = Chain(mem, head[e])
  BY InvGives
<1>3. \A i \in 0..L : Left[i] = IF i = 0 THEN Start ELSE Body(i, Left[i - 1])
  <2>1. Left = [i \in 0..L |-> IF i = 0 THEN Start ELSE Body(i, Left[i - 1])]
    <3> HIDE DEF c, L
    <3> QED BY <1>1, <1>2, Zenon DEF Looped
  <2> HIDE DEF Body, Start, L
  <2> QED BY <2>1
<1> DEFINE Ok == {i \in Nat : i <= L => Pruned(e, h, i, Left[i])}
<1>4. 0 \in Ok
  <2>1. 0 \in 0..L
    BY <1>2
  <2>2. Left[0] = Start
    <3> HIDE DEF Body, Start, L
    <3> QED BY <1>3, <2>1
  <2> HIDE DEF L
  <2> QED BY <2>2, PrunedStart
<1>5. ASSUME NEW m \in Ok PROVE m + 1 \in Ok
  <2> SUFFICES ASSUME m + 1 <= L PROVE Pruned(e, h, m + 1, Left[m + 1])
    BY <1>2
  <2>1. /\ m + 1 \in 0..L /\ m + 1 # 0 /\ m + 1 - 1 = m /\ m + 1 \in 1..L
        /\ Pruned(e, h, m, Left[m])
    BY <1>2
  <2>2. PICK i \in 1..L : i = m + 1 /\ i - 1 = m /\ i # 0 /\ i \in 0..L
    BY <2>1
  <2>3. Left[i] = Body(i, Left[m])
    <3> HIDE DEF Body, L, Start
    <3> QED BY <1>3, <2>2
  <2>4. Pruned(e, h, i - 1, Left[m])
    BY <2>1, <2>2
  <2>5. Pruned(e, h, i, Body(i, Left[m]))
    BY <2>4, PrunedNext
  <2> HIDE DEF Body
  <2> QED BY <2>2, <2>3, <2>5
<1>6. Ok = Nat
  <2> HIDE DEF Ok
  <2>1. Ok \in SUBSET Nat
    BY DEF Ok
  <2> QED BY <1>4, <1>5, <2>1, Induction
<1>7. Pruned(e, h, L, Left[L])
  <2>1. L \in Ok
    <3> HIDE DEF Ok, L
    <3> QED BY <1>2, <1>6
  <2> QED BY <1>2, <2>1
<1> QED BY <1>1, <1>7
LEMMA DisconnectStep ==
  ASSUME Inv, NEW e \in Events, NEW h \in Hooks \cup {AnyHook}, Disconnect(e, h)
  PROVE  Inv' /\ Of(Chains'[e]) = Of(Chains[e]) \ Matching(e, h)
         /\ \A k \in Events : k # e => Chains'[k] = Chains[k]
<1> DEFINE c == Chains[e]
           M == Matching(e, h)
           r == Disconnected(e, h)
<1>1. /\ Of(c) \subseteq Nodes /\ DOMAIN c = 1..Len(c)
      /\ \A n \in Of(c) : st[n] = "live"
  BY InvGives
<1>2. M \subseteq Of(c)
  BY DEF Matching, ToSet, Of, Chains
<1>3. /\ mem' = r.mem /\ head' = [head EXCEPT ![e] = r.head]
      /\ st' = [n \in Nodes |-> IF n \in M THEN "freed" ELSE st[n]]
      /\ made' = made /\ fn' = fn /\ calls' = calls
  BY DEF Disconnect
<1> HIDE DEF c, M, r
<1>4. PICK s : /\ Makes(Nodes, Values, mem, r, s, Of(c))
               /\ r.mem.data = mem.data
               /\ Ascending(s)
               /\ Of(s) = {x \in Of(c) : x \notin M \/ \A j \in 1..Len(c) : x # c[j]}
  BY DisconnectedPruned DEF Pruned, c, M, r
<1>5. Of(s) = Of(c) \ M
  <2>1. \A x \in Of(c) : \E j \in 1..Len(c) : x = c[j]
    BY <1>1 DEF Of
  <2> QED BY <1>4, <2>1
<1>6. /\ ListInv' /\ mem' \in Memory(Nodes, Values)
      /\ head' \in [Events -> Nodes \cup {NULL}]
      /\ Chains' = [Chains EXCEPT ![e] = s]
  <2>1. /\ Makes(Nodes, Values, mem, r, s, Of(c) \cup {})
        /\ Of(s) \subseteq Of(c) \cup {} /\ \A k \in Events : Of(Chains[k]) \cap {} = {}
    <3>1. Of(c) \cup {} = Of(c)
      OBVIOUS
    <3> QED BY <1>4, <1>5, <3>1
  <2> QED BY <1>3, <1>4, <2>1, OneChanges DEF c
<1>7. Chains'[e] = s /\ \A k \in Events : k # e => Chains'[k] = Chains[k]
  BY <1>6 DEF Chains
<1>8. TypeOK'
  <2>1. st' \in [Nodes -> {"unused", "live", "freed"}]
    BY <1>3 DEF Inv, TypeOK
  <2> QED BY <1>3, <1>6, <2>1 DEF Inv, TypeOK, Memory, Values
<1>9. \A x \in Nodes : (st'[x] = "live") = (\E k \in Events : x \in Of(Chains'[k]))
  <2> TAKE x \in Nodes
  <2>1. (st[x] = "live") = (\E k \in Events : x \in Of(Chains[k]))
    BY DEF Inv, Owned
  <2>2. st'[x] = "live" <=> st[x] = "live" /\ x \notin M
    BY <1>3
  <2>3. \A k \in Events : k # e => Of(c) \cap Of(Chains[k]) = {}
    BY DEF Inv, ListInv, Apart, c
  <2>4. \A k \in Events : x \in Of(Chains'[k]) <=> x \in Of(Chains[k]) /\ x \notin M
    BY <1>2, <1>5, <1>7, <2>3 DEF c
  <2> QED BY <2>1, <2>2, <2>4
<1>10. \A x \in Nodes : x > made' => st'[x] = "unused"
  <2>1. \A x \in Nodes : x > made => st[x] = "unused"
    BY DEF Inv, Owned
  <2> QED BY <1>1, <1>2, <1>3, <2>1
<1>11. \A x \in Nodes : st'[x] = "live" => mem'.data[x] = x
  <2>1. \A x \in Nodes : st[x] = "live" => mem.data[x] = x
    BY DEF Inv, Owned
  <2> QED BY <1>3, <1>4, <2>1
<1> QED BY <1>5, <1>6, <1>7, <1>8, <1>9, <1>10, <1>11 DEF Inv, Owned, c, M

(* Dispatches touch no list.                                                *)
LEMMA CallsStep ==
  ASSUME Inv, UNCHANGED <<made, st, fn, mem, head>>,
         calls' \in Seq([ev : Events, at : Nodes, seen : SUBSET Nodes])
  PROVE  Inv' /\ Chains' = Chains
<1>1. Chains' = Chains
  BY DEF Chains
<1>2. TypeOK'
  BY DEF Inv, TypeOK
<1> QED BY <1>1, <1>2 DEF Inv, ListInv, Owned

Dispatches == [ev : Events, at : Nodes, seen : SUBSET Nodes]

LEMMA CallTyped ==
  ASSUME NEW e \in Events, NEW n \in Nodes, NEW seen \in SUBSET Nodes
  PROVE  /\ Call(e, n, seen) \in Dispatches
         /\ Call(e, n, seen).ev = e /\ Call(e, n, seen).at = n
         /\ Call(e, n, seen).seen = seen \cup {n}
  BY DEF Call, Dispatches

LEMMA TopTyped ==
  ASSUME Inv, calls # <<>>
  PROVE  Len(calls) \in DOMAIN calls /\ Top \in Dispatches
         /\ Top.ev \in Events /\ Top.at \in Nodes /\ Top.seen \in SUBSET Nodes
<1>1. calls \in Seq(Dispatches)
  BY DEF Inv, TypeOK, Dispatches
<1>2. Len(calls) \in DOMAIN calls /\ Top \in Dispatches
  BY <1>1 DEF Top
<1> QED BY <1>2 DEF Dispatches

LEMMA PopTyped ==
  ASSUME Inv, calls # <<>>, Pop
  PROVE  /\ calls' \in Seq(Dispatches)
         /\ DOMAIN calls' \subseteq DOMAIN calls
         /\ \A i \in DOMAIN calls' : calls'[i] = calls[i]
<1>1. calls \in Seq(Dispatches)
  BY DEF Inv, TypeOK, Dispatches
<1> QED BY <1>1 DEF Pop

LEMMA ReplaceTyped ==
  ASSUME Inv, calls # <<>>, NEW d \in Dispatches, calls' = [calls EXCEPT ![Len(calls)] = d]
  PROVE  /\ calls' \in Seq(Dispatches)
         /\ DOMAIN calls' = DOMAIN calls
         /\ \A i \in DOMAIN calls : calls'[i] = IF i = Len(calls) THEN d ELSE calls[i]
<1>1. calls \in Seq(Dispatches)
  BY DEF Inv, TypeOK, Dispatches
<1> QED BY <1>1

LEMMA HeadIsFirst ==
  ASSUME Inv, NEW e \in Events, head[e] # NULL
  PROVE  /\ head[e] \in Of(Chains[e]) /\ head[e] \in Nodes
         /\ \A n \in Of(Chains[e]) : head[e] <= n
<1> DEFINE c == Chains[e]
<1>1. /\ Len(c) \in Nat /\ DOMAIN c = 1..Len(c) /\ Ascending(c)
      /\ head[e] = IF Len(c) = 0 THEN NULL ELSE c[1]
      /\ \A i \in 1..Len(c) : c[i] \in Nodes /\ c[i] \in Of(c)
  BY InvGives
<1> HIDE DEF c
<1>2. 1 \in 1..Len(c) /\ head[e] = c[1]
  BY <1>1
<1>3. \A i \in 1..Len(c) : c[1] <= c[i]
  <2> TAKE i \in 1..Len(c)
  <2>1. i = 1 \/ 1 < i
    BY <1>1
  <2>2. c[1] \in Nat /\ c[i] \in Nat
    BY <1>1, <1>2, NodesFinite
  <2> QED BY <1>1, <1>2, <2>1, <2>2 DEF Ascending
<1>4. \A n \in Of(c) : head[e] <= n
  BY <1>1, <1>2, <1>3 DEF Of
<1> QED BY <1>1, <1>2, <1>4 DEF c

LEMMA EmitStep ==
  ASSUME Inv, NEW e \in Events, Emit(e)
  PROVE  Inv' /\ Chains' = Chains
<1>1. head[e] \in Nodes
  BY HeadIsFirst DEF Emit
<1>2. Call(e, head[e], {}) \in Dispatches
  BY <1>1, CallTyped
<1>3. calls \in Seq(Dispatches)
  BY DEF Inv, TypeOK, Dispatches
<1>4. calls' \in Seq(Dispatches)
  BY <1>2, <1>3 DEF Emit
<1> QED BY <1>4, CallsStep DEF Emit, Dispatches

LEMMA StopStep ==
  ASSUME Inv, StopHooks
  PROVE  Inv' /\ Chains' = Chains
  BY PopTyped, CallsStep DEF StopHooks, Dispatches

LEMMA AdvanceStep ==
  ASSUME Inv, Advance
  PROVE  Inv' /\ Chains' = Chains
<1>1. PICK n \in Follow(Top.at) :
        IF n = NULL THEN Pop
        ELSE calls' = [calls EXCEPT ![Len(calls)] = Call(Top.ev, n, Top.seen)]
  BY DEF Advance
<1>2. calls # <<>> /\ UNCHANGED <<made, st, fn, mem, head>>
  BY DEF Advance
<1>3. n \in Nodes \cup {NULL}
  <2>1. Top.at \in Nodes
    BY <1>2, TopTyped
  <2> QED BY <2>1 DEF Follow, Inv, TypeOK
<1>4. calls' \in Seq(Dispatches)
  <2>1. CASE n = NULL
    BY <1>1, <1>2, <2>1, PopTyped
  <2>2. CASE n # NULL
    <3>1. Call(Top.ev, n, Top.seen) \in Dispatches
      BY <1>2, <1>3, <2>2, TopTyped, CallTyped
    <3> QED BY <1>1, <1>2, <2>2, <3>1, ReplaceTyped
  <2> QED BY <2>1, <2>2
<1> QED BY <1>2, <1>4, CallsStep DEF Dispatches

LEMMA InvStep == Inv /\ [Next]_vars => Inv'
<1> SUFFICES ASSUME Inv, [Next]_vars PROVE Inv'
  OBVIOUS
<1>1. ASSUME NEW e \in Events, NEW h \in Hooks, Connect(e, h) PROVE Inv'
  BY <1>1, ConnectStep
<1>2. ASSUME NEW e \in Events, NEW h \in Hooks \cup {AnyHook}, Disconnect(e, h) PROVE Inv'
  BY <1>2, DisconnectStep
<1>3. ASSUME NEW e \in Events, Emit(e) PROVE Inv'
  BY <1>3, EmitStep
<1>4. CASE StopHooks
  BY <1>4, StopStep
<1>5. CASE Advance
  BY <1>5, AdvanceStep
<1>6. CASE UNCHANGED vars
  <2>1. calls' \in Seq(Dispatches)
    BY <1>6 DEF Inv, TypeOK, vars, Dispatches
  <2> QED BY <1>6, <2>1, CallsStep DEF vars, Dispatches
<1> QED BY <1>1, <1>2, <1>3, <1>4, <1>5, <1>6 DEF Next

LEMMA AlwaysInv == Spec => []Inv
  BY InvInit, InvStep, PTL DEF Spec

(* Every variable keeps its type through any connects, disconnects and      *)
(* dispatches (xmpp.c:131-147, 581-662).                                    *)
THEOREM TypeCorrect == Spec => []TypeOK
<1>1. Inv => TypeOK
  BY DEF Inv
<1> QED BY <1>1, AlwaysInv, PTL

(* However connects, disconnects and dispatches are nested, also when hooks *)
(* disconnect what is being called, every list is well formed, what is live *)
(* is on exactly one list and nothing freed is on any (xmpp.c:581-662).     *)
THEOREM HooksAreOwned == Spec => []HooksOwned
<1>1. Inv => HooksOwned
  <2> SUFFICES ASSUME Inv PROVE HooksOwned
    OBVIOUS
  <2>1. \A e \in Events : WellFormed(mem, head[e])
    BY InvGives, NodesFinite, LinkedWellFormed
  <2>2. \A n \in Nodes : (st[n] = "live") = (\E e \in Events : n \in Listed(e))
    BY ListedIs DEF Inv, Owned
  <2>3. \A e1, e2 \in Events : e1 # e2 => Listed(e1) \cap Listed(e2) = {}
    BY ListedIs DEF Inv, ListInv, Apart
  <2> QED BY <2>1, <2>2, <2>3 DEF HooksOwned
<1> QED BY <1>1, AlwaysInv, PTL
-----------------------------------------------------------------------------
(* The refinement.  While no hook that is being called is disconnected,     *)
(* every dispatch is at a node of its list.                                 *)
CallsOn == \A i \in DOMAIN calls : calls[i].at \in Of(Chains[calls[i].ev])

LEMMA DispatchTyped ==
  ASSUME Inv, NEW i \in DOMAIN calls
  PROVE  calls[i] \in Dispatches /\ calls[i].ev \in Events /\ calls[i].at \in Nodes
<1>1. calls \in Seq(Dispatches)
  BY DEF Inv, TypeOK, Dispatches
<1>2. calls[i] \in Dispatches
  BY <1>1
<1> QED BY <1>2 DEF Dispatches

(* The node after n on its list is the least of those beyond n.             *)
LEMMA NextIsLeast ==
  ASSUME Inv, NEW e \in Events, NEW n \in Of(Chains[e])
  PROVE  LET next == mem.next[n]
             later == {x \in Of(Chains[e]) : x > n}
         IN  /\ Follow(n) = {next}
             /\ next = NULL => later = {}
             /\ next # NULL => next \in later /\ \A x \in later : next <= x
<1> DEFINE c == Chains[e]
           next == mem.next[n]
           L == Len(c)
<1>1. /\ L \in Nat /\ DOMAIN c = 1..L /\ Ascending(c)
      /\ \A i \in 1..L : /\ c[i] \in Nodes /\ c[i] # NULL /\ c[i] \in Of(c)
                         /\ mem.next[c[i]] = IF i = L THEN NULL ELSE c[i + 1]
      /\ \A x \in Of(c) : st[x] = "live"
  BY InvGives
<1>2. Follow(n) = {next}
  BY <1>1 DEF Follow
<1> HIDE DEF c, L
<1>3. PICK i \in 1..L : n = c[i]
  BY <1>1 DEF Of, c
<1>4. next = IF i = L THEN NULL ELSE c[i + 1]
  BY <1>1, <1>3
<1>5. \A j \in 1..L : c[j] \in Nat
  BY <1>1, NodesFinite
<1>6. \A j \in 1..L : j <= i => ~(c[j] > n)
  <2> TAKE j \in 1..L
  <2>1. CASE j = i
    BY <1>3, <1>5, <2>1
  <2>2. CASE j < i
    <3>1. c[j] < c[i]
      BY <1>1, <2>2 DEF Ascending
    <3> QED BY <1>3, <1>5, <3>1
  <2> QED BY <1>1, <2>1, <2>2
<1>7. CASE i = L
  <2>1. \A j \in 1..L : j <= i
    BY <1>1, <1>7
  <2>2. \A x \in Of(c) : ~(x > n)
    BY <1>1, <1>6, <2>1 DEF Of
  <2> QED BY <1>2, <1>4, <1>7, <2>2 DEF c
<1>8. CASE i # L
  <2>1. i + 1 \in 1..L /\ i < i + 1
    BY <1>1, <1>8
  <2>2. next = c[i + 1] /\ next # NULL /\ next \in Of(c) /\ next > n
    <3>1. c[i] < c[i + 1]
      BY <1>1, <2>1 DEF Ascending
    <3> QED BY <1>1, <1>3, <1>4, <1>5, <1>8, <2>1, <3>1
  <2>3. \A j \in 1..L : c[j] > n => next <= c[j]
    <3> TAKE j \in 1..L
    <3> HAVE c[j] > n
    <3>1. ~(j <= i)
      BY <1>6
    <3>2. j = i + 1 \/ i + 1 < j
      BY <1>1, <3>1
    <3>3. i + 1 < j => c[i + 1] < c[j]
      BY <1>1, <2>1 DEF Ascending
    <3> QED BY <1>5, <2>1, <2>2, <3>2, <3>3
  <2>4. \A x \in Of(c) : x > n => next <= x
    BY <1>1, <2>3 DEF Of
  <2> QED BY <1>2, <2>2, <2>4 DEF c
<1> QED BY <1>7, <1>8

LEMMA CallsKept ==
  ASSUME Inv, CallsOn, calls' = calls,
         \A i \in DOMAIN calls : calls[i].at \in Of(Chains'[calls[i].ev])
  PROVE  CallsOn'
  BY DEF CallsOn

LEMMA CallsOnStep == ~SelfDisconnect /\ Inv /\ CallsOn /\ [Next]_vars => CallsOn'
<1> SUFFICES ASSUME ~SelfDisconnect, Inv, CallsOn, [Next]_vars PROVE CallsOn'
  OBVIOUS
<1>c. calls \in Seq(Dispatches)
  BY DEF Inv, TypeOK, Dispatches
<1>1. ASSUME NEW e \in Events, NEW h \in Hooks, Connect(e, h) PROVE CallsOn'
  <2>1. \A k \in Events : Of(Chains[k]) \subseteq Of(Chains'[k])
    BY <1>1, ConnectStep
  <2>2. calls' = calls
    BY <1>1 DEF Connect
  <2> QED BY <2>1, <2>2, DispatchTyped DEF CallsOn
<1>2. ASSUME NEW e \in Events, NEW h \in Hooks \cup {AnyHook}, Disconnect(e, h)
      PROVE  CallsOn'
  <2>1. /\ \A k \in Events : k # e => Chains'[k] = Chains[k]
        /\ Of(Chains'[e]) = Of(Chains[e]) \ Matching(e, h)
    BY <1>2, DisconnectStep
  <2>2. calls' = calls /\ \A n \in Matching(e, h) : ~Calling(n)
    BY <1>2 DEF Disconnect
  <2>3. \A i \in DOMAIN calls : calls[i].at \notin Matching(e, h)
    BY <2>2 DEF Calling
  <2>4. ASSUME NEW i \in DOMAIN calls PROVE calls[i].at \in Of(Chains'[calls[i].ev])
    <3>1. calls[i].ev \in Events /\ calls[i].at \in Of(Chains[calls[i].ev])
      BY DispatchTyped DEF CallsOn
    <3> QED BY <2>1, <2>3, <3>1
  <2> QED BY <2>2, <2>4, CallsKept
<1>3. ASSUME NEW e \in Events, Emit(e) PROVE CallsOn'
  <2>1. Chains' = Chains /\ head[e] \in Of(Chains[e]) /\ head[e] \in Nodes
    BY <1>3, EmitStep, HeadIsFirst DEF Emit
  <2> DEFINE d == Call(e, head[e], {})
  <2>2. d \in Dispatches /\ d.ev = e /\ d.at = head[e] /\ calls' = Append(calls, d)
    BY <1>3, <2>1, CallTyped DEF Emit
  <2> HIDE DEF d
  <2>3. \A i \in DOMAIN calls' : (i \in DOMAIN calls /\ calls'[i] = calls[i]) \/ calls'[i] = d
    BY <1>c, <2>2
  <2> QED BY <2>1, <2>2, <2>3 DEF CallsOn
<1>4. ASSUME calls # <<>>, Pop, Chains' = Chains PROVE CallsOn'
  BY <1>4, PopTyped DEF CallsOn
<1>5. CASE StopHooks
  BY <1>4, <1>5, StopStep DEF StopHooks
<1>6. CASE Advance
  <2>1. PICK n \in Follow(Top.at) :
          IF n = NULL THEN Pop
          ELSE calls' = [calls EXCEPT ![Len(calls)] = Call(Top.ev, n, Top.seen)]
    BY <1>6 DEF Advance
  <2>2. /\ calls # <<>> /\ Chains' = Chains
        /\ Top.ev \in Events /\ Top.seen \in SUBSET Nodes
        /\ Top.at \in Of(Chains[Top.ev])
    BY <1>6, AdvanceStep, TopTyped DEF Advance, CallsOn, Top
  <2>3. CASE n = NULL
    BY <1>4, <2>1, <2>2, <2>3
  <2>4. CASE n # NULL
    <3>1. n \in Of(Chains[Top.ev]) /\ n \in Nodes
      BY <2>1, <2>2, <2>4, NextIsLeast, InvGives
    <3> DEFINE d == Call(Top.ev, n, Top.seen)
    <3>2. d \in Dispatches /\ d.ev = Top.ev /\ d.at = n
      BY <2>2, <3>1, CallTyped
    <3>3. calls' = [calls EXCEPT ![Len(calls)] = d]
      BY <2>1, <2>4
    <3> HIDE DEF d
    <3>4. /\ DOMAIN calls' = DOMAIN calls
          /\ \A i \in DOMAIN calls : calls'[i] = IF i = Len(calls) THEN d ELSE calls[i]
      BY <2>2, <3>2, <3>3, ReplaceTyped
    <3> QED BY <2>2, <3>1, <3>2, <3>4 DEF CallsOn
  <2> QED BY <2>3, <2>4
<1>7. CASE UNCHANGED vars
  <2>1. Chains' = Chains /\ calls' = calls
    BY <1>7 DEF vars, Chains
  <2> QED BY <2>1 DEF CallsOn
<1> QED BY <1>1, <1>2, <1>3, <1>5, <1>6, <1>7 DEF Next

(* The hooks that HookOrder sees.                                           *)
Registered == [e \in Events |-> Listed(e)]

LEMMA RegisteredIs ==
  /\ Registered = [e \in Events |-> Of(Chains[e])]
  /\ Registered' = [e \in Events |-> Of(Chains'[e])]
<1>1. Registered = [e \in Events |-> Of(Chains[e])]
  BY ListedIs DEF Registered
<1>2. \A e \in Events : Listed(e)' = Of(Chains'[e])
  BY DEF Listed, Of, ToSet, Chains
<1> QED BY <1>1, <1>2 DEF Registered

LEMMA ConnectRefines ==
  ASSUME Inv, NEW e \in Events, NEW h \in Hooks, Connect(e, h)
  PROVE  Order!Connect(e, h)
<1>1. /\ Of(Chains'[e]) = Of(Chains[e]) \cup {made + 1}
      /\ \A k \in Events : k # e => Chains'[k] = Chains[k]
  BY ConnectStep
<1>2. Registered' = [Registered EXCEPT ![e] = @ \cup {made + 1}]
  BY <1>1, RegisteredIs
<1> QED BY <1>2 DEF Connect, Order!Connect, Registered

LEMMA DisconnectRefines ==
  ASSUME Inv, NEW e \in Events, NEW h \in Hooks \cup {AnyHook}, Disconnect(e, h)
  PROVE  Order!Disconnect(e, h)
<1>1. /\ Of(Chains'[e]) = Of(Chains[e]) \ Matching(e, h)
      /\ \A k \in Events : k # e => Chains'[k] = Chains[k]
  BY DisconnectStep
<1>2. Order!Matching(e, h) = Matching(e, h)
  BY DEF Order!Matching, Matching, Listed
<1>3. Registered' = [Registered EXCEPT ![e] = @ \ Matching(e, h)]
  BY <1>1, RegisteredIs
<1> QED BY <1>2, <1>3 DEF Disconnect, Order!Disconnect, Registered

LEMMA Unregistered == ASSUME Chains' = Chains PROVE Registered' = Registered
  BY RegisteredIs

LEMMA EmitRefines ==
  ASSUME Inv, NEW e \in Events, Emit(e)
  PROVE  Order!Emit(e)
<1>1. /\ head[e] \in Of(Chains[e]) /\ head[e] \in Nodes
      /\ \A n \in Of(Chains[e]) : head[e] <= n
  BY HeadIsFirst DEF Emit
<1>2. Order!Least(Registered[e], head[e])
  BY <1>1, RegisteredIs DEF Order!Least
<1>3. calls' = Append(calls, Order!Dispatch(e, head[e], {}))
  BY DEF Emit, Call, Order!Dispatch
<1>4. Registered' = Registered
  BY EmitStep, Unregistered
<1> QED BY <1>1, <1>2, <1>3, <1>4 DEF Emit, Order!Emit, Registered, Order!Regs, Nodes

LEMMA StopRefines ==
  ASSUME Inv, StopHooks
  PROVE  Order!StopHooks
<1>1. Registered' = Registered
  BY StopStep, Unregistered
<1> QED BY <1>1 DEF StopHooks, Order!StopHooks, Pop, Order!Pop, Registered

LEMMA AdvanceRefines ==
  ASSUME Inv, CallsOn, Advance
  PROVE  Order!NextHook \/ Order!LastHook
<1>1. PICK n \in Follow(Top.at) :
        IF n = NULL THEN Pop
        ELSE calls' = [calls EXCEPT ![Len(calls)] = Call(Top.ev, n, Top.seen)]
  BY DEF Advance
<1>2. /\ calls # <<>> /\ UNCHANGED <<made, fn>>
      /\ Top.ev \in Events /\ Top.at \in Of(Chains[Top.ev])
  BY TopTyped DEF Advance, CallsOn, Top
<1>3. Registered' = Registered
  BY AdvanceStep, Unregistered
<1>4. Order!Top = Top /\ Order!Later = {x \in Of(Chains[Top.ev]) : x > Top.at}
  <2>1. Order!Top = Top
    BY DEF Order!Top, Top
  <2>2. Order!Later = {x \in Registered[Top.ev] : x > Top.at}
    BY <2>1 DEF Order!Later, Registered
  <2> QED BY <1>2, <2>1, <2>2, RegisteredIs
<1>5. CASE n = NULL
  <2>1. Order!Later = {}
    BY <1>1, <1>2, <1>4, <1>5, NextIsLeast
  <2>2. Order!Pop
    BY <1>1, <1>5 DEF Pop, Order!Pop
  <2> QED BY <1>2, <1>3, <2>1, <2>2 DEF Order!LastHook, Registered
<1>6. CASE n # NULL
  <2>1. n \in Order!Later /\ \A x \in Order!Later : n <= x
    BY <1>1, <1>2, <1>4, <1>6, NextIsLeast
  <2>2. Order!Least(Order!Later, n)
    BY <2>1 DEF Order!Least
  <2>3. n \in Order!Regs
    BY <1>2, <1>4, <2>1, InvGives DEF Order!Regs, Nodes
  <2>4. calls' = [calls EXCEPT ![Len(calls)] =
                    Order!Dispatch(Order!Top.ev, n, Order!Top.seen)]
    BY <1>1, <1>4, <1>6 DEF Call, Order!Dispatch
  <2> QED BY <1>2, <1>3, <2>2, <2>3, <2>4 DEF Order!NextHook, Registered
<1> QED BY <1>5, <1>6

LEMMA InitRefines == Init => Order!Init
<1> SUFFICES ASSUME Init PROVE Order!Init
  OBVIOUS
<1>1. Inv
  BY InvInit
<1>2. \A e \in Events : Of(Chains[e]) = {}
  <2> TAKE e \in Events
  <2>1. head[e] = NULL
    BY DEF Init
  <2>2. /\ Len(Chains[e]) \in Nat /\ DOMAIN Chains[e] = 1..Len(Chains[e])
        /\ head[e] = IF Len(Chains[e]) = 0 THEN NULL ELSE Chains[e][1]
        /\ \A i \in 1..Len(Chains[e]) : Chains[e][i] # NULL
    BY <1>1, InvGives
  <2>3. DOMAIN Chains[e] = {}
    BY <2>1, <2>2
  <2> QED BY <2>3 DEF Of
<1>3. Registered = [e \in Events |-> {}]
  BY <1>2, RegisteredIs
<1> QED BY <1>3 DEF Init, Order!Init, Registered, Order!Regs, Nodes

LEMMA StepRefines ==
  Inv /\ CallsOn /\ [Next]_vars => [Order!Next]_Order!orderVars
<1> SUFFICES ASSUME Inv, CallsOn, [Next]_vars PROVE [Order!Next]_Order!orderVars
  OBVIOUS
<1>1. ASSUME NEW e \in Events, NEW h \in Hooks, Connect(e, h) PROVE Order!Next
  BY <1>1, ConnectRefines DEF Order!Next
<1>2. ASSUME NEW e \in Events, NEW h \in Hooks \cup {AnyHook}, Disconnect(e, h)
      PROVE  Order!Next
  BY <1>2, DisconnectRefines DEF Order!Next
<1>3. ASSUME NEW e \in Events, Emit(e) PROVE Order!Next
  BY <1>3, EmitRefines DEF Order!Next
<1>4. CASE StopHooks
  BY <1>4, StopRefines DEF Order!Next
<1>5. CASE Advance
  BY <1>5, AdvanceRefines DEF Order!Next
<1>6. CASE UNCHANGED vars
  <2>1. Registered' = Registered
    <3>1. Chains' = Chains
      BY <1>6 DEF vars, Chains
    <3> QED BY <3>1, Unregistered
  <2> QED BY <1>6, <2>1 DEF vars, Order!orderVars, Registered
<1> QED BY <1>1, <1>2, <1>3, <1>4, <1>5, <1>6 DEF Next

(* Hooks are called as HookOrder says - in the order in which they were     *)
(* connected, none passed over and none twice - as long as no hook is       *)
(* disconnected while it is being called, after which its node is gone      *)
(* (xmpp.c:131-147).                                                        *)
THEOREM HooksInOrder == ~SelfDisconnect => (Spec => ImplementsHookOrder)
<1> SUFFICES ASSUME ~SelfDisconnect PROVE Spec => ImplementsHookOrder
  OBVIOUS
<1>1. Init => CallsOn
  BY DEF Init, CallsOn
<1>2. Inv /\ CallsOn /\ [Next]_vars => CallsOn'
  BY CallsOnStep
<1>3. Spec => [](Inv /\ CallsOn)
  BY <1>1, <1>2, AlwaysInv, PTL DEF Spec
<1> QED BY <1>3, InitRefines, StepRefines, PTL DEF Spec, ImplementsHookOrder, Order!Spec
-----------------------------------------------------------------------------
(* What HookOrder promises, of any of its behaviours.  A step touches the   *)
(* dispatch on top of the stack or the sets of hooks, never both, which is  *)
(* how the proofs are split.                                                *)
VARIABLE hooks
H == INSTANCE HookOrder

(* Taking the last dispatch off the stack leaves the others as they were.   *)
LEMMA AbstractPop ==
  ASSUME H!TypeOK, calls # <<>>, H!Pop
  PROVE  /\ calls' \in Seq(H!Calls)
         /\ DOMAIN calls' \subseteq DOMAIN calls
         /\ \A i \in DOMAIN calls' : calls'[i] = calls[i]
  BY DEF H!TypeOK, H!Pop

(* Replacing the last dispatch leaves the others as they were.              *)
LEMMA AbstractReplace ==
  ASSUME H!TypeOK, calls # <<>>, NEW c \in H!Calls,
         calls' = [calls EXCEPT ![Len(calls)] = c]
  PROVE  /\ calls' \in Seq(H!Calls)
         /\ DOMAIN calls' = DOMAIN calls
         /\ \A i \in DOMAIN calls : i # Len(calls) => calls'[i] = calls[i]
         /\ calls'[Len(calls)] = c
  BY DEF H!TypeOK

(* The dispatch on top is one of the dispatches.                            *)
LEMMA AbstractTop ==
  ASSUME H!TypeOK, calls # <<>>
  PROVE  Len(calls) \in DOMAIN calls /\ H!Top \in H!Calls
  BY DEF H!TypeOK, H!Top

(* What a dispatch records when it moves to hook n.                         *)
LEMMA AbstractDispatch ==
  ASSUME NEW e \in Events, NEW n \in H!Regs, NEW seen \in SUBSET H!Regs
  PROVE  /\ H!Dispatch(e, n, seen) \in H!Calls
         /\ H!Dispatch(e, n, seen).ev = e
         /\ H!Dispatch(e, n, seen).at = n
         /\ H!Dispatch(e, n, seen).seen = seen \cup {n}
  BY DEF H!Dispatch, H!Calls

LEMMA AbstractTypeStep == H!TypeOK /\ [H!Next]_(H!orderVars) => H!TypeOK'
<1> SUFFICES ASSUME H!TypeOK, [H!Next]_(H!orderVars) PROVE H!TypeOK'
  OBVIOUS
<1>1. ASSUME NEW e \in Events, NEW h \in Hooks, H!Connect(e, h) PROVE H!TypeOK'
  <2>1. made + 1 \in H!Regs /\ made' \in 0..MaxRegs
    BY <1>1, RegAssumption DEF H!Connect, H!TypeOK, H!Regs
  <2> QED BY <1>1, <2>1 DEF H!Connect, H!TypeOK
<1>2. ASSUME NEW e \in Events, NEW h \in Hooks \cup {AnyHook}, H!Disconnect(e, h)
      PROVE H!TypeOK'
  BY <1>2 DEF H!Disconnect, H!TypeOK
<1>3. ASSUME NEW e \in Events, H!Emit(e) PROVE H!TypeOK'
  <2>1. PICK n \in H!Regs : calls' = Append(calls, H!Dispatch(e, n, {}))
    BY <1>3 DEF H!Emit
  <2>2. H!Dispatch(e, n, {}) \in H!Calls
    BY AbstractDispatch
  <2> QED BY <1>3, <2>1, <2>2 DEF H!Emit, H!TypeOK
<1>4. CASE H!NextHook
  <2>1. PICK n \in H!Regs :
          calls' = [calls EXCEPT ![Len(calls)] = H!Dispatch(H!Top.ev, n, H!Top.seen)]
    BY <1>4 DEF H!NextHook
  <2>2. H!Top.ev \in Events /\ H!Top.seen \in SUBSET H!Regs
    BY <1>4, AbstractTop DEF H!NextHook, H!Calls
  <2>3. H!Dispatch(H!Top.ev, n, H!Top.seen) \in H!Calls
    BY <2>2, AbstractDispatch
  <2>4. calls' \in Seq(H!Calls)
    BY <1>4, <2>1, <2>3, AbstractReplace DEF H!NextHook
  <2> QED BY <1>4, <2>4 DEF H!NextHook, H!TypeOK
<1>5. CASE H!StopHooks
  BY <1>5, AbstractPop DEF H!StopHooks, H!TypeOK
<1>6. CASE H!LastHook
  BY <1>6, AbstractPop DEF H!LastHook, H!TypeOK
<1>7. CASE UNCHANGED H!orderVars
  BY <1>7 DEF H!orderVars, H!TypeOK
<1> QED BY <1>1, <1>2, <1>3, <1>4, <1>5, <1>6, <1>7 DEF H!Next

LEMMA AbstractTypeInit == H!Init => H!TypeOK
  BY RegAssumption DEF H!Init, H!TypeOK, H!Regs

(* Every variable keeps its type, however deep events are raised inside one *)
(* another (_ta_xmpp_client_call_event_hooks, event_connect, _disconnect).  *)
THEOREM HookOrderTyped == H!Spec => []H!TypeOK
  BY AbstractTypeInit, AbstractTypeStep, PTL DEF H!Spec
-----------------------------------------------------------------------------
(* A dispatch c passed over no hook of hs and has not run ahead of itself.  *)
Fair(c, hs, m) ==
  /\ \A n \in hs : n < c.at => n \in c.seen
  /\ c.at \in c.seen /\ c.at <= m
  /\ \A n \in c.seen : n <= c.at

LEMMA AbstractInvIsFair ==
  ASSUME H!TypeOK
  PROVE  H!IInv <=> /\ H!MadeOnly
                  /\ \A i \in DOMAIN calls :
                       Fair(calls[i], hooks[calls[i].ev], made)
  BY DEF H!IInv, H!NonePassedOver, H!SeenBehind, Fair

(* A dispatch that starts with the least hook, or moves to the least of     *)
(* those after the one it is at, passes over none.                          *)
LEMMA StartIsFair ==
  ASSUME NEW e \in Events, NEW hs \in SUBSET H!Regs, NEW n \in H!Regs, H!Least(hs, n),
         NEW m \in Nat, n <= m
  PROVE  Fair(H!Dispatch(e, n, {}), hs, m)
  BY AbstractDispatch DEF H!Least, Fair, H!Regs

LEMMA MoveIsFair ==
  ASSUME NEW c \in H!Calls, NEW hs \in SUBSET H!Regs, NEW n \in H!Regs, NEW m \in Nat,
         H!Least({k \in hs : k > c.at}, n), n <= m, Fair(c, hs, m)
  PROVE  Fair(H!Dispatch(c.ev, n, c.seen), hs, m)
<1>1. c.ev \in Events /\ c.seen \in SUBSET H!Regs /\ c.at \in H!Regs
  BY DEF H!Calls
<1>2. n \in Nat /\ n > c.at /\ \A k \in hs : k > c.at => n <= k
  BY <1>1 DEF H!Least, H!Regs
<1>3. ASSUME NEW k \in hs, k < n PROVE k \in c.seen \cup {n}
  <2>1. k \in Nat /\ c.at \in Nat /\ k <= c.at
    BY <1>1, <1>2, <1>3 DEF H!Regs
  <2>2. k = c.at \/ k < c.at
    BY <2>1
  <2> QED BY <2>2 DEF Fair
<1>4. ASSUME NEW k \in c.seen \cup {n} PROVE k <= n
  BY <1>1, <1>2, <1>4 DEF Fair, H!Regs
<1> QED BY <1>1, <1>3, <1>4, AbstractDispatch DEF Fair

LEMMA AbstractInvInit == H!Init => H!IInv
  BY DEF H!Init, H!IInv, H!NonePassedOver, H!SeenBehind, H!MadeOnly

LEMMA AbstractInvStep == H!TypeOK /\ H!IInv /\ [H!Next]_(H!orderVars) => H!IInv'
<1> SUFFICES ASSUME H!TypeOK, H!IInv, [H!Next]_(H!orderVars) PROVE H!IInv'
  OBVIOUS
<1>t. H!TypeOK'
  BY AbstractTypeStep
<1>f. /\ H!MadeOnly
      /\ \A i \in DOMAIN calls : Fair(calls[i], hooks[calls[i].ev], made)
  BY AbstractInvIsFair
<1>g. SUFFICES /\ H!MadeOnly'
               /\ \A i \in DOMAIN calls' :
                    Fair(calls'[i], hooks'[calls'[i].ev], made')
  BY <1>t DEF H!IInv, H!NonePassedOver, H!SeenBehind, Fair
<1>c. \A i \in DOMAIN calls : calls[i] \in H!Calls
  BY DEF H!TypeOK
<1>1. ASSUME NEW e \in Events, NEW h \in Hooks, H!Connect(e, h)
      PROVE  /\ H!MadeOnly'
             /\ \A i \in DOMAIN calls' :
                  Fair(calls'[i], hooks'[calls'[i].ev], made')
  <2>1. /\ made \in Nat /\ made' = made + 1 /\ calls' = calls
        /\ hooks' = [hooks EXCEPT ![e] = @ \cup {made + 1}]
        /\ hooks \in [Events -> SUBSET H!Regs]
    BY <1>1 DEF H!Connect, H!TypeOK
  <2>2. H!MadeOnly'
    BY <1>f, <2>1 DEF H!MadeOnly, H!Regs
  <2>3. ASSUME NEW i \in DOMAIN calls
        PROVE  Fair(calls[i], hooks'[calls[i].ev], made')
    <3>1. calls[i].at \in Nat /\ calls[i].ev \in Events
      BY <1>c DEF H!Calls, H!Regs
    <3>2. Fair(calls[i], hooks[calls[i].ev], made)
      BY <1>f
    <3>3. calls[i].at <= made
      BY <3>2 DEF Fair
    <3>4. \A n \in hooks'[calls[i].ev] :
            n \in hooks[calls[i].ev] \/ n = made + 1
      BY <2>1, <3>1
    <3>5. ~(made + 1 < calls[i].at) /\ calls[i].at <= made'
      BY <2>1, <3>1, <3>3
    <3> QED BY <3>2, <3>4, <3>5 DEF Fair
  <2> QED BY <2>1, <2>2, <2>3
<1>2. ASSUME NEW e \in Events, NEW h \in Hooks \cup {AnyHook}, H!Disconnect(e, h)
      PROVE  /\ H!MadeOnly'
             /\ \A i \in DOMAIN calls' :
                  Fair(calls'[i], hooks'[calls'[i].ev], made')
  <2>1. /\ made' = made /\ calls' = calls
        /\ \A e2 \in Events : hooks'[e2] \subseteq hooks[e2]
    BY <1>2 DEF H!Disconnect, H!TypeOK
  <2>2. \A i \in DOMAIN calls : calls[i].ev \in Events
    BY <1>c DEF H!Calls
  <2> QED BY <1>f, <2>1, <2>2 DEF H!MadeOnly, Fair
<1>3. ASSUME NEW e \in Events, H!Emit(e)
      PROVE  /\ H!MadeOnly'
             /\ \A i \in DOMAIN calls' :
                  Fair(calls'[i], hooks'[calls'[i].ev], made')
  <2>1. PICK n \in H!Regs : /\ H!Least(hooks[e], n)
                          /\ calls' = Append(calls, H!Dispatch(e, n, {}))
    BY <1>3 DEF H!Emit
  <2>2. made' = made /\ hooks' = hooks /\ made \in Nat /\ hooks[e] \in SUBSET H!Regs
    BY <1>3 DEF H!Emit, H!TypeOK
  <2>3. n <= made
    BY <1>f, <2>1 DEF H!MadeOnly, H!Least
  <2>4. Fair(H!Dispatch(e, n, {}), hooks[e], made)
    BY <2>1, <2>2, <2>3, StartIsFair
  <2>5. H!Dispatch(e, n, {}).ev = e
    BY AbstractDispatch
  <2>6. \A i \in DOMAIN calls' : \/ i \in DOMAIN calls /\ calls'[i] = calls[i]
                                 \/ calls'[i] = H!Dispatch(e, n, {})
    BY <2>1 DEF H!TypeOK
  <2> QED BY <1>f, <2>2, <2>4, <2>5, <2>6 DEF H!MadeOnly
<1>4. ASSUME H!NextHook
      PROVE  /\ H!MadeOnly'
             /\ \A i \in DOMAIN calls' :
                  Fair(calls'[i], hooks'[calls'[i].ev], made')
  <2> DEFINE hs == hooks[H!Top.ev]
  <2>1. PICK n \in H!Regs :
          /\ H!Least(H!Later, n)
          /\ calls' = [calls EXCEPT ![Len(calls)] = H!Dispatch(H!Top.ev, n, H!Top.seen)]
    BY <1>4 DEF H!NextHook
  <2>2. H!Top \in H!Calls /\ Len(calls) \in DOMAIN calls /\ calls # <<>>
    BY <1>4, AbstractTop DEF H!NextHook
  <2>3. H!Top.ev \in Events /\ H!Top.seen \in SUBSET H!Regs
    BY <2>2 DEF H!Calls
  <2>4. made' = made /\ hooks' = hooks /\ made \in Nat /\ hs \in SUBSET H!Regs
    BY <1>4, <2>3 DEF H!NextHook, H!TypeOK
  <2>5. Fair(H!Top, hs, made)
    BY <1>f, <2>2 DEF H!Top
  <2>6. n <= made
    BY <1>f, <2>1, <2>3 DEF H!MadeOnly, H!Least, H!Later
  <2>7. H!Least({k \in hs : k > H!Top.at}, n)
    BY <2>1 DEF H!Later
  <2> HIDE DEF hs
  <2>8. Fair(H!Dispatch(H!Top.ev, n, H!Top.seen), hs, made)
    BY <2>2, <2>4, <2>5, <2>6, <2>7, MoveIsFair
  <2>9. /\ H!Dispatch(H!Top.ev, n, H!Top.seen) \in H!Calls
        /\ H!Dispatch(H!Top.ev, n, H!Top.seen).ev = H!Top.ev
    BY <2>3, AbstractDispatch
  <2>10. /\ DOMAIN calls' = DOMAIN calls
         /\ \A i \in DOMAIN calls : i # Len(calls) => calls'[i] = calls[i]
         /\ calls'[Len(calls)] = H!Dispatch(H!Top.ev, n, H!Top.seen)
    BY <2>1, <2>2, <2>9, AbstractReplace
  <2> QED BY <1>f, <2>4, <2>8, <2>9, <2>10 DEF H!MadeOnly, hs
<1>5. ASSUME H!StopHooks \/ H!LastHook
      PROVE  /\ H!MadeOnly'
             /\ \A i \in DOMAIN calls' :
                  Fair(calls'[i], hooks'[calls'[i].ev], made')
  <2>1. calls # <<>> /\ H!Pop /\ made' = made /\ hooks' = hooks
    BY <1>5 DEF H!StopHooks, H!LastHook
  <2>2. /\ DOMAIN calls' \subseteq DOMAIN calls
        /\ \A i \in DOMAIN calls' : calls'[i] = calls[i]
    BY <2>1, AbstractPop
  <2> QED BY <1>f, <2>1, <2>2 DEF H!MadeOnly
<1>6. CASE UNCHANGED H!orderVars
  BY <1>6, <1>f DEF H!orderVars, H!MadeOnly
<1> QED BY <1>1, <1>2, <1>3, <1>4, <1>5, <1>6 DEF H!Next

(* A dispatch never passes over a hook that is connected, whatever the      *)
(* hooks it calls connect, disconnect and raise: "executes all hooks added  *)
(* to the list" (xmpp.c:131-147).                                           *)
THEOREM NoHookPassedOver == H!Spec => [](H!NonePassedOver /\ H!IInv)
<1>1. H!TypeOK /\ H!IInv => H!NonePassedOver
  BY DEF H!IInv
<1> QED BY <1>1, AbstractTypeInit, AbstractInvInit, AbstractTypeStep, AbstractInvStep, PTL
           DEF H!Spec
-----------------------------------------------------------------------------
(* A dispatch never calls a hook twice (xmpp.c:141): it only moves forward, *)
(* and what it has called lies behind it.                                   *)
THEOREM NoHookCalledTwice == H!Spec => H!CalledOnce
<1> DEFINE Ahead == \A i \in DOMAIN calls \cap DOMAIN calls' :
                     calls'[i].at = calls[i].at \/ calls'[i].at \notin calls[i].seen
<1>1. ASSUME H!TypeOK, H!IInv, [H!Next]_(H!orderVars) PROVE [Ahead]_(H!orderVars)
  <2>1. ASSUME NEW i \in DOMAIN calls \cap DOMAIN calls',
               calls'[i] # calls[i]
        PROVE  calls'[i].at \notin calls[i].seen
    <3>1. CASE H!NextHook
      <4>1. PICK n \in H!Regs :
              /\ H!Least(H!Later, n)
              /\ calls' =
                   [calls EXCEPT ![Len(calls)] = H!Dispatch(H!Top.ev, n, H!Top.seen)]
        BY <3>1 DEF H!NextHook
      <4>2. H!Top \in H!Calls /\ Len(calls) \in DOMAIN calls /\ calls # <<>>
        BY <1>1, <3>1, AbstractTop DEF H!NextHook
      <4>3. H!Dispatch(H!Top.ev, n, H!Top.seen) \in H!Calls
            /\ H!Dispatch(H!Top.ev, n, H!Top.seen).at = n
        BY <4>2, AbstractDispatch DEF H!Calls
      <4>4. i = Len(calls) /\ calls'[i].at = n /\ calls[i] = H!Top
        BY <1>1, <2>1, <4>1, <4>2, <4>3, AbstractReplace DEF H!Top
      <4>5. n > H!Top.at /\ n \in Nat /\ H!Top.at \in Nat
        BY <4>1, <4>2 DEF H!Least, H!Later, H!Calls, H!Regs
      <4>6. \A k \in H!Top.seen : k <= H!Top.at
        BY <1>1, <4>2, <4>4 DEF H!IInv, H!SeenBehind
      <4>7. n \notin H!Top.seen
        BY <4>5, <4>6
      <4> QED BY <4>4, <4>7
    <3>2. CASE H!StopHooks \/ H!LastHook
      BY <1>1, <2>1, <3>2, AbstractPop DEF H!StopHooks, H!LastHook
    <3>3. ASSUME NEW e \in Events, H!Emit(e) PROVE FALSE
      BY <1>1, <2>1, <3>3 DEF H!Emit, H!TypeOK
    <3>4. ASSUME calls' = calls PROVE FALSE
      BY <2>1, <3>4
    <3> QED BY <1>1, <3>1, <3>2, <3>3, <3>4
            DEF H!Next, H!Connect, H!Disconnect, H!orderVars
  <2> QED BY <2>1
<1>2. H!Spec => []H!TypeOK
  BY HookOrderTyped
<1>3. H!Spec => []H!IInv
  BY NoHookPassedOver, PTL
<1>4. H!CalledOnce <=> [][Ahead]_(H!orderVars)
  BY DEF H!CalledOnce
<1> QED BY <1>1, <1>2, <1>3, <1>4, PTL DEF H!Spec
=============================================================================
