---------------------------- MODULE TaListProofs -----------------------------
(***************************************************************************)
(* Proofs about TaList for any lists, data, positions and number of nodes: *)
(* the lists stay well formed and apart, and their data change as SeqList  *)
(* says.  TaListOpsProofs says what one operation does to one list; here   *)
(* that becomes what a step does to all of them.                           *)
(***************************************************************************)
EXTENDS TaList, TaListOpsProofs

(* The nodes of the lists, and what is inductive about them: each list is   *)
(* linked both ways and no two share a node.                                *)
Chains == [l \in Lists |-> Chain(mem, head[l])]

Shape(m, h, cs) ==
  /\ m \in Memory(Nodes, Pointers)
  /\ h \in [Lists -> Nodes \cup {NULL}]
  /\ \A l \in Lists : Linked(m, h[l], cs[l])
  /\ \A k, l \in Lists : k # l => Of(cs[k]) \cap Of(cs[l]) = {}
ListInv == Shape(mem, head, Chains)

LEMMA NodesFinite == IsFiniteSet(Nodes) /\ NULL \notin Nodes /\ Cardinality(Nodes) = MaxLen
  BY BoundAssumption, FS_Interval DEF Nodes, NULL

LEMMA PointersTyped == NULL \in Pointers
  BY DEF Pointers

LEMMA ChainsAre ==
  ASSUME NEW m, NEW h, NEW cs, Shape(m, h, cs), NEW l \in Lists
  PROVE  Chain(m, h[l]) = cs[l]
  BY NodesFinite, ChainIs DEF Shape

LEMMA InvMeans ==
  ASSUME ListInv
  PROVE  /\ mem \in Memory(Nodes, Pointers) /\ head \in [Lists -> Nodes \cup {NULL}]
         /\ \A l \in Lists :
              /\ Linked(mem, head[l], Chain(mem, head[l]))
              /\ Chain(mem, head[l]) \in Seq(Nodes)
              /\ Listed(l) = Of(Chain(mem, head[l])) /\ Listed(l) \subseteq Nodes
         /\ \A k, l \in Lists : k # l => Listed(k) \cap Listed(l) = {}
<1>1. /\ mem \in Memory(Nodes, Pointers) /\ head \in [Lists -> Nodes \cup {NULL}]
      /\ \A l \in Lists : Linked(mem, head[l], Chain(mem, head[l]))
      /\ \A k, l \in Lists :
           k # l => Of(Chain(mem, head[k])) \cap Of(Chain(mem, head[l])) = {}
  BY DEF ListInv, Shape, Chains
<1>2. ASSUME NEW l \in Lists
      PROVE  /\ Chain(mem, head[l]) \in Seq(Nodes)
             /\ Listed(l) = Of(Chain(mem, head[l])) /\ Listed(l) \subseteq Nodes
  <2>1. /\ Chain(mem, head[l]) \in Seq(Nodes)
        /\ DOMAIN Chain(mem, head[l]) = 1..Len(Chain(mem, head[l]))
        /\ \A i \in 1..Len(Chain(mem, head[l])) : Chain(mem, head[l])[i] \in Nodes
    BY <1>1, NodesFinite, LinkedIs
  <2> QED BY <2>1 DEF Listed, Of
<1> QED BY <1>1, <1>2

LEMMA InvGives ==
  ASSUME NEW m, NEW h, NEW cs, Shape(m, h, cs)
  PROVE  Shape(m, h, [l \in Lists |-> Chain(m, h[l])])
<1> DEFINE ds == [l \in Lists |-> Chain(m, h[l])]
<1>1. \A l \in Lists : ds[l] = cs[l]
  BY ChainsAre
<1> HIDE DEF ds
<1>2. Shape(m, h, ds)
  BY <1>1 DEF Shape
<1> QED BY <1>2 DEF ds

(* An operation on list l that touches its nodes and the nodes in S, which  *)
(* are on no list, leaves the other lists as they are.                      *)
LEMMA OneChanges ==
  ASSUME ListInv, NEW l \in Lists, NEW r, NEW c, NEW S \in SUBSET Unused,
         Makes(Nodes, Pointers, mem, r, c, Listed(l) \cup S),
         Of(c) \subseteq Listed(l) \cup S,
         Returns(l, r)
  PROVE  /\ ListInv'
         /\ Chain(mem', head'[l]) = c
         /\ \A k \in Lists : k # l => Chain(mem', head'[k]) = Chain(mem, head[k])
<1> DEFINE cs == [k \in Lists |-> IF k = l THEN c ELSE Chain(mem, head[k])]
<1>1. /\ mem' \in Memory(Nodes, Pointers) /\ Linked(mem', r.head, c)
      /\ SameLinks(mem, mem', Nodes \ (Listed(l) \cup S))
      /\ head' = [head EXCEPT ![l] = r.head]
  BY DEF Makes, Returns
<1>2. r.head \in Nodes \cup {NULL}
  <2>1. /\ r.head = IF Len(c) = 0 THEN NULL ELSE c[1]
        /\ Len(c) \in Nat /\ \A i \in 1..Len(c) : c[i] \in Nodes
    BY <1>1, NodesFinite, LinkedIs
  <2>2. Len(c) # 0 => 1 \in 1..Len(c)
    BY <2>1
  <2> QED BY <2>1, <2>2
<1>3. head' \in [Lists -> Nodes \cup {NULL}]
  BY <1>1, <1>2, InvMeans
<1>4. ASSUME NEW k \in Lists, k # l
      PROVE  Linked(mem', head'[k], cs[k]) /\ Of(cs[k]) \cap Of(c) = {}
  <2>1. /\ Linked(mem, head[k], Chain(mem, head[k])) /\ Listed(k) = Of(Chain(mem, head[k]))
        /\ Listed(k) \cap Listed(l) = {} /\ Listed(k) \subseteq Nodes
        /\ Listed(k) \cap Unused = {}
    BY <1>4, InvMeans DEF Unused
  <2>2. SameLinks(mem, mem', Of(Chain(mem, head[k])))
    BY <1>1, <2>1 DEF SameLinks
  <2>3. Linked(mem', head[k], Chain(mem, head[k]))
    BY <1>1, <2>1, <2>2, InvMeans, LinkedElsewhere
  <2>4. head'[k] = head[k] /\ cs[k] = Chain(mem, head[k])
    BY <1>1, <1>4, InvMeans
  <2> QED BY <2>1, <2>3, <2>4
<1>5. Linked(mem', head'[l], cs[l]) /\ cs[l] = c
  BY <1>1, InvMeans
<1>6. \A j, k \in Lists : j # k => Of(cs[j]) \cap Of(cs[k]) = {}
  <2>1. ASSUME NEW j \in Lists, NEW k \in Lists, j # k, j # l, k # l
        PROVE  Of(cs[j]) \cap Of(cs[k]) = {}
    BY <2>1, InvMeans
  <2> QED BY <1>4, <1>5, <2>1
<1>7. Shape(mem', head', cs)
  <2> HIDE DEF cs
  <2> QED BY <1>1, <1>3, <1>4, <1>5, <1>6 DEF Shape
<1>8. Shape(mem', head', [k \in Lists |-> Chain(mem', head'[k])])
  <2> HIDE DEF cs
  <2> QED BY <1>7, InvGives
<1>9. \A k \in Lists : Chain(mem', head'[k]) = cs[k]
  <2> HIDE DEF cs
  <2> QED BY <1>7, ChainsAre
<1> QED BY <1>8, <1>9 DEF ListInv, Chains
-----------------------------------------------------------------------------
LEMMA LinkedNone == ASSUME NEW m PROVE Linked(m, NULL, <<>>)
  BY DEF Linked, Once

LEMMA OfNone == Of(<<>>) = {}
  BY DEF Of

LEMMA InvInit == Init => ListInv
<1> SUFFICES ASSUME Init PROVE ListInv
  OBVIOUS
<1> DEFINE cs == [l \in Lists |-> <<>>]
<1>1. mem \in Memory(Nodes, Pointers) /\ head \in [Lists -> Nodes \cup {NULL}]
  BY PointersTyped DEF Init, Memory, Cleared
<1>2. \A l \in Lists : head[l] = NULL /\ cs[l] = <<>>
  BY DEF Init
<1>3. Shape(mem, head, cs)
  <2> HIDE DEF cs
  <2> QED BY <1>1, <1>2, LinkedNone, OfNone DEF Shape
<1>4. Shape(mem, head, [l \in Lists |-> Chain(mem, head[l])])
  <2> HIDE DEF cs
  <2> QED BY <1>3, InvGives
<1> QED BY <1>4 DEF ListInv, Chains

(* Freeing the nodes that left a list disturbs no node of the list.         *)
LEMMA ReleaseIs ==
  ASSUME ListInv, NEW l \in Lists, NEW r, NEW c,
         Makes(Nodes, Pointers, mem, r, c, Listed(l)),
         Of(c) \subseteq Listed(l), r.mem.data = mem.data
  PROVE  LET f == Release(l, r) IN
         /\ Makes(Nodes, Pointers, mem, f, c, Listed(l))
         /\ \A n \in Nodes \ (Listed(l) \ Of(c)) : f.mem.data[n] = mem.data[n]
<1> DEFINE gone == Listed(l) \ Of(c)
           Clear(g) == [n \in Nodes |-> IF n \in gone THEN NULL ELSE g[n]]
           w == [next |-> Clear(r.mem.next), prev |-> Clear(r.mem.prev),
                 data |-> Clear(r.mem.data)]
           f == Release(l, r)
<1>1. r.mem \in Memory(Nodes, Pointers) /\ Linked(r.mem, r.head, c)
      /\ SameLinks(mem, r.mem, Nodes \ Listed(l))
  BY DEF Makes
<1>2. Chain(r.mem, r.head) = c
  BY <1>1, NodesFinite, ChainIs
<1>3. f = List(w, r.head)
  BY <1>2, Zenon DEF Release, Of
<1> HIDE DEF gone
<1>4. /\ w \in Memory(Nodes, Pointers)
      /\ \A n \in Nodes \ gone : /\ w.next[n] = r.mem.next[n] /\ w.prev[n] = r.mem.prev[n]
                                 /\ w.data[n] = r.mem.data[n]
  BY <1>1, PointersTyped DEF Memory
<1> HIDE DEF w, f
<1>5. c \in Seq(Nodes) /\ Of(c) \subseteq Nodes
  <2>1. c \in Seq(Nodes) /\ DOMAIN c = 1..Len(c) /\ \A i \in 1..Len(c) : c[i] \in Nodes
    BY <1>1, NodesFinite, LinkedIs
  <2> QED BY <2>1 DEF Of
<1>6. Linked(w, r.head, c)
  <2>1. SameLinks(r.mem, w, Of(c))
    BY <1>4, <1>5 DEF SameLinks, gone
  <2> QED BY <1>1, <1>4, <2>1, LinkedElsewhere
<1>7. SameLinks(mem, w, Nodes \ Listed(l))
  BY <1>1, <1>4 DEF SameLinks, gone
<1>8. Makes(Nodes, Pointers, mem, f, c, Listed(l))
  BY <1>3, <1>4, <1>6, <1>7 DEF Makes, List
<1>9. \A n \in Nodes \ gone : f.mem.data[n] = mem.data[n]
  BY <1>3, <1>4 DEF List
<1> QED BY <1>8, <1>9 DEF gone, f

(* What each step makes of the nodes of a list: the nodes of the others     *)
(* stay, and so do the data of every node that is listed.                   *)
DataKept(S) == \A n \in S : mem'.data[n] = mem.data[n]

OthersStay(l) ==
  /\ \A k \in Lists : k # l => Chain(mem', head'[k]) = Chain(mem, head[k])
  /\ DataKept(UNION {Listed(k) : k \in Lists \ {l}})

Keeps(l) == /\ Chain(mem', head'[l]) = Chain(mem, head[l])
            /\ DataKept(Listed(l))

LEMMA FreshIs ==
  ASSUME Unused # {}
  PROVE  Fresh \in Unused /\ Fresh \in Nodes /\ \A l \in Lists : Fresh \notin Listed(l)
  BY Zenon DEF Fresh, Unused

LEMMA UnchangedStep ==
  ASSUME ListInv, UNCHANGED vars
  PROVE  ListInv' /\ \A l \in Lists : OthersStay(l) /\ Keeps(l)
<1>1. mem' = mem /\ head' = head
  BY DEF vars
<1>2. ListInv'
  BY <1>1 DEF ListInv, Chains
<1> QED BY <1>1, <1>2 DEF OthersStay, Keeps, DataKept

(* A node put on list l at place i, with data d.                            *)
Inserts(l, i, d) ==
  LET c == Chain(mem, head[l]) IN
  /\ Unused # {}
  /\ i \in 1..Len(c) + 1
  /\ Chain(mem', head'[l]) = With(c, i, Fresh)
  /\ mem'.data[Fresh] = d
  /\ DataKept(Listed(l))

LEMMA InsertsIs ==
  ASSUME ListInv, NEW l \in Lists, NEW r, NEW d \in Pointers, Unused # {},
         NEW i \in 1..Len(Chain(mem, head[l])) + 1,
         Makes(Nodes, Pointers, mem, r, With(Chain(mem, head[l]), i, Fresh),
               Of(Chain(mem, head[l])) \cup {Fresh}),
         Stores(mem, r.mem, Fresh, d),
         Returns(l, r)
  PROVE  ListInv' /\ OthersStay(l) /\ Inserts(l, i, d)
<1> DEFINE c == Chain(mem, head[l])
<1>1. /\ mem \in Memory(Nodes, Pointers) /\ c \in Seq(Nodes) /\ Listed(l) = Of(c)
      /\ \A k \in Lists : Listed(k) \subseteq Nodes
  BY InvMeans
<1>2. Fresh \in Unused /\ Fresh \in Nodes /\ \A k \in Lists : Fresh \notin Listed(k)
  BY FreshIs
<1>3. Of(With(c, i, Fresh)) = Of(c) \cup {Fresh}
  BY <1>1, <1>2, WithIs
<1>4. {Fresh} \in SUBSET Unused
  BY <1>2
<1>5. /\ ListInv'
      /\ Chain(mem', head'[l]) = With(c, i, Fresh)
      /\ \A k \in Lists : k # l => Chain(mem', head'[k]) = Chain(mem, head[k])
  <2> HIDE DEF c
  <2>1. /\ Makes(Nodes, Pointers, mem, r, With(c, i, Fresh), Listed(l) \cup {Fresh})
        /\ Of(With(c, i, Fresh)) \subseteq Listed(l) \cup {Fresh}
    BY <1>1, <1>3 DEF c
  <2> QED BY <1>4, <2>1, OneChanges
<1>6. mem'.data[Fresh] = d /\ \A n \in Nodes \ {Fresh} : mem'.data[n] = mem.data[n]
  BY <1>1, <1>2 DEF Returns, Memory, Stores
<1>7. \A k \in Lists : DataKept(Listed(k))
  BY <1>1, <1>2, <1>6 DEF DataKept
<1> QED BY <1>5, <1>6, <1>7 DEF OthersStay, Inserts, DataKept

LEMMA AppendStep ==
  ASSUME ListInv, NEW l \in Lists, NEW d \in Pointers, AppendData(l, d)
  PROVE  /\ ListInv' /\ OthersStay(l)
         /\ IF d = NULL THEN Keeps(l) ELSE Inserts(l, Len(Chain(mem, head[l])) + 1, d)
<1> DEFINE c == Chain(mem, head[l])
           r == AppendNode(mem, head[l], Fresh, d)
<1>1. /\ mem \in Memory(Nodes, Pointers) /\ Linked(mem, head[l], c) /\ Listed(l) = Of(c)
      /\ head \in [Lists -> Nodes \cup {NULL}] /\ c \in Seq(Nodes)
  BY InvMeans
<1>2. Unused # {} /\ Returns(l, r)
  BY DEF AppendData
<1>3. Fresh \in Nodes \ Of(c)
  BY <1>1, <1>2, FreshIs
<1>4. CASE d = NULL
  <2>1. r = List(mem, head[l])
    BY <1>4 DEF AppendNode
  <2>2. mem' = mem /\ head' = [head EXCEPT ![l] = head[l]]
    <3> HIDE DEF r
    <3> QED BY <1>2, <2>1 DEF Returns, List
  <2>3. UNCHANGED vars
    BY <1>1, <2>2 DEF vars
  <2> QED BY <1>4, <2>3, UnchangedStep
<1>5. CASE d # NULL
  <2>1. /\ Makes(Nodes, Pointers, mem, r, With(c, Len(c) + 1, Fresh), Of(c) \cup {Fresh})
        /\ Stores(mem, r.mem, Fresh, d)
    <3> HIDE DEF c
    <3>1. IsFiniteSet(Nodes) /\ NULL \notin Nodes
      BY NodesFinite
    <3> QED BY <1>1, <1>3, <1>5, <3>1, AppendNodeIs, ZenonT(30)
  <2>2. Len(c) + 1 \in 1..Len(c) + 1
    BY <1>1, LenProperties
  <2> HIDE DEF r
  <2> QED BY <1>2, <1>5, <2>1, <2>2, InsertsIs
<1> QED BY <1>4, <1>5

LEMMA InsertStep ==
  ASSUME ListInv, NEW l \in Lists, NEW d \in Pointers, NEW pos \in Positions,
         InsertData(l, d, pos)
  PROVE  LET L == Len(Chain(mem, head[l]))
             i == Place(L, pos)
         IN  /\ ListInv' /\ OthersStay(l) /\ Unused # {}
             /\ IF d = NULL /\ L # 0 /\ i = L + 1 THEN Keeps(l) ELSE Inserts(l, i, d)
<1> DEFINE c == Chain(mem, head[l])
           L == Len(c)
           i == Place(L, pos)
           r == InsertNode(mem, head[l], Fresh, d, pos)
<1> SUFFICES /\ ListInv' /\ OthersStay(l) /\ Unused # {}
             /\ IF d = NULL /\ L # 0 /\ i = L + 1 THEN Keeps(l) ELSE Inserts(l, i, d)
  OBVIOUS
<1>1. /\ mem \in Memory(Nodes, Pointers) /\ Linked(mem, head[l], c) /\ Listed(l) = Of(c)
      /\ head \in [Lists -> Nodes \cup {NULL}]
  BY InvMeans
<1>2. Unused # {} /\ Returns(l, r)
  BY DEF InsertData
<1>3. Fresh \in Nodes \ Of(c) /\ pos \in Int
  BY <1>1, <1>2, FreshIs, PositionsAssumption
<1>4. IF d = NULL /\ L # 0 /\ i = L + 1 THEN r = List(mem, head[l])
      ELSE /\ i \in 1..L + 1
           /\ Makes(Nodes, Pointers, mem, r, With(c, i, Fresh), Of(c) \cup {Fresh})
           /\ Stores(mem, r.mem, Fresh, d)
  <2> HIDE DEF c
  <2>1. IsFiniteSet(Nodes) /\ NULL \notin Nodes
    BY NodesFinite
  <2> QED BY <1>1, <1>3, <2>1, InsertNodeIs, ZenonT(30)
<1>5. CASE d = NULL /\ L # 0 /\ i = L + 1
  <2>1. mem' = mem /\ head' = [head EXCEPT ![l] = head[l]]
    <3>1. r = List(mem, head[l])
      BY <1>4, <1>5
    <3> HIDE DEF r
    <3> QED BY <1>2, <3>1 DEF Returns, List
  <2>2. UNCHANGED vars
    BY <1>1, <2>1 DEF vars
  <2>3. ListInv' /\ OthersStay(l) /\ Keeps(l)
    BY <2>2, UnchangedStep
  <2> HIDE DEF i, L
  <2> QED BY <1>2, <1>5, <2>3
<1>6. CASE ~(d = NULL /\ L # 0 /\ i = L + 1)
  <2>1. /\ i \in 1..L + 1
        /\ Makes(Nodes, Pointers, mem, r, With(c, i, Fresh), Of(c) \cup {Fresh})
        /\ Stores(mem, r.mem, Fresh, d)
    BY <1>4, <1>6
  <2>2. ListInv' /\ OthersStay(l) /\ Inserts(l, i, d)
    <3> HIDE DEF r, i
    <3> QED BY <1>2, <2>1, InsertsIs
  <2> HIDE DEF i, L
  <2> QED BY <1>2, <1>6, <2>2
<1> QED BY <1>5, <1>6

(* The i-th node taken off list l and freed.                                *)
Removes(l, i) ==
  LET c == Chain(mem, head[l]) IN
  /\ i \in 1..Len(c)
  /\ Chain(mem', head'[l]) = Without(c, i)
  /\ DataKept(Listed(l) \ {c[i]})

(* A step that makes c of list l, with nodes it had already.                *)
LEMMA ReleaseStep ==
  ASSUME ListInv, NEW l \in Lists, NEW r, NEW c,
         Makes(Nodes, Pointers, mem, r, c, Listed(l)),
         Of(c) \subseteq Listed(l), r.mem.data = mem.data,
         Returns(l, Release(l, r))
  PROVE  /\ ListInv' /\ OthersStay(l) /\ Chain(mem', head'[l]) = c
         /\ DataKept(Of(c))
<1> DEFINE f == Release(l, r)
<1>1. /\ Makes(Nodes, Pointers, mem, f, c, Listed(l))
      /\ \A n \in Nodes \ (Listed(l) \ Of(c)) : f.mem.data[n] = mem.data[n]
  BY ReleaseIs
<1> HIDE DEF f
<1>2. {} \in SUBSET Unused /\ Listed(l) \cup {} = Listed(l)
  OBVIOUS
<1>3. Returns(l, f)
  BY DEF f
<1>4. /\ ListInv' /\ Chain(mem', head'[l]) = c
      /\ \A k \in Lists : k # l => Chain(mem', head'[k]) = Chain(mem, head[k])
  <2>1. Makes(Nodes, Pointers, mem, f, c, Listed(l) \cup {}) /\ Of(c) \subseteq Listed(l) \cup {}
    BY <1>1, <1>2
  <2> QED BY <1>2, <1>3, <2>1, OneChanges
<1>5. mem' = f.mem
  BY <1>3 DEF Returns
<1>6. \A k \in Lists \ {l} : Listed(k) \subseteq Nodes \ (Listed(l) \ Of(c))
  BY InvMeans
<1>7. Of(c) \subseteq Nodes \ (Listed(l) \ Of(c))
  BY InvMeans
<1> QED BY <1>1, <1>4, <1>5, <1>6, <1>7 DEF OthersStay, DataKept

LEMMA RemovesIs ==
  ASSUME ListInv, NEW l \in Lists, NEW r, NEW i \in 1..Len(Chain(mem, head[l])),
         Makes(Nodes, Pointers, mem, r, Without(Chain(mem, head[l]), i),
               Of(Chain(mem, head[l]))),
         r.mem.data = mem.data, Returns(l, Release(l, r))
  PROVE  ListInv' /\ OthersStay(l) /\ Removes(l, i)
<1> DEFINE c == Chain(mem, head[l])
           s == Without(c, i)
<1>1. Linked(mem, head[l], c) /\ c \in Seq(Nodes) /\ Listed(l) = Of(c)
  BY InvMeans
<1>2. Once(c)
  BY <1>1 DEF Linked
<1>3. Of(s) = Of(c) \ {c[i]}
  <2> HIDE DEF c
  <2>1. i \in 1..Len(c)
    BY DEF c
  <2> QED BY <1>1, <1>2, <2>1, WithoutIs
<1> HIDE DEF s
<1>4. /\ ListInv' /\ OthersStay(l) /\ Chain(mem', head'[l]) = s
      /\ DataKept(Of(s))
  <2>1. Makes(Nodes, Pointers, mem, r, s, Listed(l)) /\ Of(s) \subseteq Listed(l)
    BY <1>1, <1>3 DEF s
  <2> QED BY <2>1, ReleaseStep
<1> QED BY <1>1, <1>3, <1>4 DEF Removes, s

LEMMA StaysIs ==
  ASSUME ListInv, NEW l \in Lists, Returns(l, Release(l, List(mem, head[l])))
  PROVE  ListInv' /\ OthersStay(l) /\ Keeps(l)
<1> DEFINE c == Chain(mem, head[l])
           r == List(mem, head[l])
<1>1. /\ mem \in Memory(Nodes, Pointers) /\ Linked(mem, head[l], c) /\ Listed(l) = Of(c)
  BY InvMeans
<1>2. Makes(Nodes, Pointers, mem, r, c, Listed(l)) /\ r.mem.data = mem.data
  BY <1>1 DEF Makes, List, SameLinks
<1> HIDE DEF c, r
<1>3. /\ ListInv' /\ OthersStay(l) /\ Chain(mem', head'[l]) = c
      /\ DataKept(Of(c))
  BY <1>1, <1>2, ReleaseStep DEF r
<1> QED BY <1>1, <1>3 DEF Keeps, c

LEMMA RemoveStep ==
  ASSUME ListInv, NEW l \in Lists, NEW d, RemoveItem(l, d)
  PROVE  LET c == Chain(mem, head[l]) IN
         /\ ListInv' /\ OthersStay(l)
         /\ \/ Keeps(l)
            \/ \E i \in 1..Len(c) : FirstHeld(mem, c, d, i) /\ Removes(l, i)
<1> DEFINE c == Chain(mem, head[l])
           r == RemoveData(mem, head[l], d)
<1>1. /\ mem \in Memory(Nodes, Pointers) /\ Linked(mem, head[l], c)
      /\ Returns(l, Release(l, r))
  BY InvMeans DEF RemoveItem
<1>2. \/ r = List(mem, head[l])
      \/ \E i \in 1..Len(c) : /\ FirstHeld(mem, c, d, i)
                              /\ Makes(Nodes, Pointers, mem, r, Without(c, i), Of(c))
                              /\ r.mem.data = mem.data
  <2> HIDE DEF c
  <2>1. IsFiniteSet(Nodes) /\ NULL \notin Nodes
    BY NodesFinite
  <2>2. FirstGone(Nodes, Pointers, mem, head[l], c, d)
    BY <1>1, <2>1, RemoveDataIs
  <2> QED BY <2>2 DEF FirstGone
<1> HIDE DEF r
<1>3. CASE r = List(mem, head[l])
  BY <1>1, <1>3, StaysIs
<1>4. CASE \E i \in 1..Len(c) : /\ FirstHeld(mem, c, d, i)
                                /\ Makes(Nodes, Pointers, mem, r, Without(c, i), Of(c))
                                /\ r.mem.data = mem.data
  <2>1. PICK i \in 1..Len(c) : /\ FirstHeld(mem, c, d, i)
                               /\ Makes(Nodes, Pointers, mem, r, Without(c, i), Of(c))
                               /\ r.mem.data = mem.data
    BY <1>4
  <2>2. ListInv' /\ OthersStay(l) /\ Removes(l, i)
    BY <1>1, <2>1, RemovesIs
  <2> QED BY <2>1, <2>2
<1> QED BY <1>2, <1>3, <1>4

LEMMA PopStep ==
  ASSUME ListInv, NEW l \in Lists, PopItem(l)
  PROVE  /\ ListInv' /\ OthersStay(l)
         /\ Keeps(l) \/ Removes(l, Len(Chain(mem, head[l])))
<1> DEFINE c == Chain(mem, head[l])
           r == PopNode(mem, head[l])
<1>1. /\ mem \in Memory(Nodes, Pointers) /\ Linked(mem, head[l], c)
      /\ Returns(l, Release(l, r))
  BY InvMeans DEF PopItem
<1>2. CASE head[l] = NULL
  <2>1. r = List(mem, head[l])
    BY <1>2 DEF PopNode
  <2> HIDE DEF r
  <2> QED BY <1>1, <2>1, StaysIs
<1>3. CASE head[l] # NULL
  <2>1. Makes(Nodes, Pointers, mem, r, Without(c, Len(c)), Of(c)) /\ r.mem.data = mem.data
    <3> HIDE DEF c
    <3>1. IsFiniteSet(Nodes) /\ NULL \notin Nodes
      BY NodesFinite
    <3> QED BY <1>1, <1>3, <3>1, PopNodeIs
  <2>2. Len(c) \in 1..Len(c)
    <3> HIDE DEF c
    <3>1. Len(c) \in Nat /\ Len(c) # 0
      BY <1>1, <1>3, NodesFinite, LinkedIs
    <3> QED BY <3>1
  <2> HIDE DEF r
  <2>3. ListInv' /\ OthersStay(l) /\ Removes(l, Len(c))
    BY <1>1, <2>1, <2>2, RemovesIs
  <2> QED BY <2>3
<1> QED BY <1>2, <1>3

LEMMA ReverseStep ==
  ASSUME ListInv, NEW l \in Lists, ReverseItems(l)
  PROVE  /\ ListInv' /\ OthersStay(l)
         /\ Chain(mem', head'[l]) = Backwards(Chain(mem, head[l]))
         /\ DataKept(Listed(l))
<1> DEFINE c == Chain(mem, head[l])
           r == ReverseList(mem, head[l])
<1>1. /\ mem \in Memory(Nodes, Pointers) /\ Linked(mem, head[l], c) /\ Listed(l) = Of(c)
      /\ Returns(l, r) /\ c \in Seq(Nodes)
  BY InvMeans DEF ReverseItems
<1>2. Makes(Nodes, Pointers, mem, r, Backwards(c), Of(c)) /\ r.mem.data = mem.data
  <2> HIDE DEF c
  <2>1. IsFiniteSet(Nodes) /\ NULL \notin Nodes
    BY NodesFinite
  <2> QED BY <1>1, <2>1, ReverseListIs
<1>3. Of(Backwards(c)) = Of(c)
  BY <1>1, BackwardsIs
<1> HIDE DEF r, c
<1>4. /\ ListInv' /\ Chain(mem', head'[l]) = Backwards(c)
      /\ \A k \in Lists : k # l => Chain(mem', head'[k]) = Chain(mem, head[k])
  <2>1. /\ Makes(Nodes, Pointers, mem, r, Backwards(c), Listed(l) \cup {})
        /\ Of(Backwards(c)) \subseteq Listed(l) \cup {}
        /\ {} \in SUBSET Unused
    BY <1>1, <1>2, <1>3
  <2> QED BY <1>1, <2>1, OneChanges
<1>5. mem'.data = mem.data
  BY <1>1, <1>2 DEF Returns
<1> QED BY <1>1, <1>4, <1>5 DEF OthersStay, DataKept, c

LEMMA ExtendStep ==
  ASSUME ListInv, NEW l \in Lists, NEW other \in Lists, Extend(l, other)
  PROVE  /\ ListInv'
         /\ Chain(mem', head'[l]) = Joined(Chain(mem, head[l]), Chain(mem, head[other]))
         /\ Chain(mem', head'[other]) = <<>>
         /\ \A k \in Lists \ {l, other} : Chain(mem', head'[k]) = Chain(mem, head[k])
         /\ mem'.data = mem.data
<1> DEFINE c == Chain(mem, head[l])
           d == Chain(mem, head[other])
           r == ExtendList(mem, head[l], head[other])
           cs == [k \in Lists |-> IF k = l THEN Joined(c, d)
                                  ELSE IF k = other THEN <<>> ELSE Chain(mem, head[k])]
<1>1. /\ mem \in Memory(Nodes, Pointers) /\ head \in [Lists -> Nodes \cup {NULL}]
      /\ Linked(mem, head[l], c) /\ Listed(l) = Of(c) /\ c \in Seq(Nodes)
      /\ Linked(mem, head[other], d) /\ Listed(other) = Of(d) /\ d \in Seq(Nodes)
      /\ l # other
  BY InvMeans DEF Extend
<1>2. Of(c) \cap Of(d) = {}
  BY <1>1, InvMeans
<1>3. Makes(Nodes, Pointers, mem, r, Joined(c, d), Of(c) \cup Of(d)) /\ r.mem.data = mem.data
  <2> HIDE DEF c, d
  <2>1. IsFiniteSet(Nodes) /\ NULL \notin Nodes
    BY NodesFinite
  <2> QED BY <1>1, <1>2, <2>1, ExtendListIs
<1>4. mem' = r.mem /\ head' = [head EXCEPT ![l] = r.head, ![other] = NULL]
  BY DEF Extend
<1>5. Of(Joined(c, d)) = Of(c) \cup Of(d)
  <2> HIDE DEF c, d
  <2>1. c \in Seq(Nodes) /\ d \in Seq(Nodes)
    BY <1>1
  <2> QED BY <2>1, JoinedIs
<1> HIDE DEF r
<1>6. /\ mem' \in Memory(Nodes, Pointers) /\ Linked(mem', r.head, Joined(c, d))
      /\ SameLinks(mem, mem', Nodes \ (Of(c) \cup Of(d)))
  BY <1>3, <1>4 DEF Makes
<1>7. r.head \in Nodes \cup {NULL}
  <2> DEFINE s == Joined(c, d)
  <2> HIDE DEF s
  <2>1. Linked(mem', r.head, s)
    BY <1>6 DEF s
  <2>2. /\ r.head = IF Len(s) = 0 THEN NULL ELSE s[1]
        /\ Len(s) \in Nat /\ \A i \in 1..Len(s) : s[i] \in Nodes
    BY <1>6, <2>1, NodesFinite, LinkedIs
  <2>3. Len(s) # 0 => 1 \in 1..Len(s)
    BY <2>2
  <2> QED BY <2>2, <2>3
<1>8. /\ head' \in [Lists -> Nodes \cup {NULL}]
      /\ head'[l] = r.head /\ head'[other] = NULL
      /\ \A k \in Lists \ {l, other} : head'[k] = head[k]
  BY <1>1, <1>4, <1>7
<1>9. ASSUME NEW k \in Lists \ {l, other}
      PROVE  Linked(mem', head'[k], cs[k]) /\ Of(cs[k]) \cap (Of(c) \cup Of(d)) = {}
  <2>1. /\ Linked(mem, head[k], Chain(mem, head[k])) /\ Listed(k) = Of(Chain(mem, head[k]))
        /\ Listed(k) \cap Listed(l) = {} /\ Listed(k) \cap Listed(other) = {}
        /\ Listed(k) \subseteq Nodes
    BY InvMeans
  <2>2. SameLinks(mem, mem', Of(Chain(mem, head[k])))
    BY <1>1, <1>6, <2>1 DEF SameLinks
  <2>3. Linked(mem', head[k], Chain(mem, head[k]))
    BY <1>1, <1>6, <2>1, <2>2, LinkedElsewhere
  <2>4. head'[k] = head[k] /\ cs[k] = Chain(mem, head[k])
    BY <1>8
  <2> QED BY <1>1, <2>1, <2>3, <2>4
<1>10. /\ Linked(mem', head'[l], cs[l]) /\ cs[l] = Joined(c, d)
       /\ Linked(mem', head'[other], cs[other]) /\ cs[other] = <<>>
  <2>1. cs[l] = Joined(c, d) /\ cs[other] = <<>>
    BY <1>1
  <2> HIDE DEF cs
  <2> QED BY <1>6, <1>8, <2>1, LinkedNone
<1>11. \A j, k \in Lists : j # k => Of(cs[j]) \cap Of(cs[k]) = {}
  <2>1. ASSUME NEW j \in Lists \ {l, other}, NEW k \in Lists \ {l, other}, j # k
        PROVE  Of(cs[j]) \cap Of(cs[k]) = {}
    BY <2>1, InvMeans
  <2> HIDE DEF cs
  <2>2. Of(cs[l]) = Of(c) \cup Of(d) /\ Of(cs[other]) = {}
    BY <1>5, <1>10, OfNone
  <2> QED BY <1>9, <2>1, <2>2
<1> HIDE DEF cs
<1>12. Shape(mem', head', cs)
  BY <1>6, <1>8, <1>9, <1>10, <1>11 DEF Shape
<1>13. ListInv'
  BY <1>12, InvGives DEF ListInv, Chains
<1>14. \A k \in Lists : Chain(mem', head'[k]) = cs[k]
  BY <1>12, ChainsAre
<1>15. \A k \in Lists \ {l, other} : Chain(mem', head'[k]) = Chain(mem, head[k])
  BY <1>14 DEF cs
<1> QED BY <1>3, <1>4, <1>10, <1>13, <1>14, <1>15

LEMMA InvStep == ListInv /\ [Next]_vars => ListInv'
<1> SUFFICES ASSUME ListInv, [Next]_vars PROVE ListInv'
  OBVIOUS
<1>1. ASSUME NEW l \in Lists, NEW d \in Pointers, AppendData(l, d) PROVE ListInv'
  BY <1>1, AppendStep
<1>2. ASSUME NEW l \in Lists, NEW d \in Pointers, RemoveItem(l, d) PROVE ListInv'
  BY <1>2, RemoveStep
<1>3. ASSUME NEW l \in Lists, NEW d \in Pointers, NEW pos \in Positions, InsertData(l, d, pos)
      PROVE  ListInv'
  BY <1>3, InsertStep
<1>4. ASSUME NEW l \in Lists, PopItem(l) PROVE ListInv'
  BY <1>4, PopStep
<1>5. ASSUME NEW l \in Lists, ReverseItems(l) PROVE ListInv'
  BY <1>5, ReverseStep
<1>6. ASSUME NEW l \in Lists, NEW other \in Lists, Extend(l, other) PROVE ListInv'
  BY <1>6, ExtendStep
<1>7. CASE UNCHANGED vars
  BY <1>7, UnchangedStep DEF ListInv, Chains, vars
<1> QED BY <1>1, <1>2, <1>3, <1>4, <1>5, <1>6, <1>7 DEF Next

LEMMA InvImplies == ListInv => ListsWellFormed
  BY InvMeans, NodesFinite, LinkedWellFormed DEF ListsWellFormed

(* Whatever sequence of appends, insertions, removals, pops, extensions and *)
(* reversals made them, the lists of a program have no cycle, prev undoes   *)
(* next on every node, nothing comes before the first, and no node is on    *)
(* two of them: what every loop of list.c relies on (list.c:48-255).        *)
THEOREM ListsAreWellFormed == Spec => []ListsWellFormed
  BY InvInit, InvStep, InvImplies, PTL DEF Spec
-----------------------------------------------------------------------------
(* The data of a list as a sequence, and what the operations make of it.    *)
Values(c, f) == [i \in DOMAIN c |-> f[c[i]]]

HasValues(v, c, f) ==
  /\ Len(v) = Len(c) /\ DOMAIN v = 1..Len(c)
  /\ \A i \in 1..Len(c) : v[i] = f[c[i]]

LEMMA ValuesIs ==
  ASSUME NEW N, NEW c \in Seq(N), NEW f
  PROVE  HasValues(Values(c, f), c, f) /\ Values(c, f) \in Seq({f[n] : n \in N})
<1> DEFINE L == Len(c)
           D == {f[n] : n \in N}
<1>1. L \in Nat /\ DOMAIN c = 1..L /\ \A i \in 1..L : c[i] \in N
  BY LenProperties
<1> HIDE DEF L
<1>2. Values(c, f) = [i \in 1..L |-> f[c[i]]]
  BY <1>1 DEF Values
<1>3. \A i \in 1..L : f[c[i]] \in D
  BY <1>1
<1> HIDE DEF D
<1>4. Values(c, f) \in Seq(D)
  BY <1>1, <1>2, <1>3, IsASeq
<1>5. Len(Values(c, f)) = L
  BY <1>1, <1>2, <1>4, LenProperties
<1> QED BY <1>2, <1>4, <1>5 DEF HasValues, L, D

LEMMA ValuesTyped ==
  ASSUME NEW N, NEW D, NEW c \in Seq(N), NEW f \in [N -> D]
  PROVE  Values(c, f) \in Seq(D)
<1>1. Values(c, f) \in Seq({f[n] : n \in N})
  BY ValuesIs
<1>2. {f[n] : n \in N} \subseteq D
  OBVIOUS
<1> QED BY <1>1, <1>2, SeqMonotonic

LEMMA ValuesWith ==
  ASSUME NEW N, NEW c \in Seq(N), NEW f, NEW g,
         NEW n \in N, NEW i \in 1..Len(c) + 1, \A x \in Of(c) : g[x] = f[x]
  PROVE  Values(With(c, i, n), g) = With(Values(c, f), i, g[n])
<1> DEFINE s == With(c, i, n)
           v == Values(c, f)
           L == Len(c)
<1>1. /\ L \in Nat /\ DOMAIN c = 1..L /\ i \in Nat
  BY LenProperties
<1>2. DOMAIN s = 1..L + 1 /\ s \in Seq(N) /\ Len(s) = L + 1
  BY WithIs
<1>3. \A j \in 1..L + 1 : s[j] = IF j < i THEN c[j] ELSE IF j = i THEN n ELSE c[j - 1]
  BY DEF With
<1>4. Len(v) = L /\ \A j \in 1..L : v[j] = f[c[j]]
  <2>1. HasValues(v, c, f)
    BY ValuesIs
  <2> HIDE DEF v
  <2> QED BY <2>1 DEF HasValues
<1>5. With(v, i, g[n]) = [j \in 1..L + 1 |-> IF j < i THEN v[j]
                                            ELSE IF j = i THEN g[n] ELSE v[j - 1]]
  BY <1>4 DEF With
<1>6. Values(s, g) = [j \in 1..L + 1 |-> g[s[j]]]
  BY <1>2 DEF Values
<1>7. i \in 1..L + 1
  OBVIOUS
<1>8. \A j \in 1..L : g[c[j]] = f[c[j]]
  BY <1>1 DEF Of
<1> HIDE DEF s, v, L
<1>9. ASSUME NEW j \in 1..L + 1
      PROVE  g[s[j]] = IF j < i THEN v[j] ELSE IF j = i THEN g[n] ELSE v[j - 1]
  <2>1. (j < i => j \in 1..L) /\ (j > i => j - 1 \in 1..L)
    BY <1>1, <1>7
  <2>2. CASE j < i
    BY <1>3, <1>4, <1>8, <2>1, <2>2
  <2>3. CASE j = i
    BY <1>1, <1>3, <2>3
  <2>4. CASE j > i
    BY <1>1, <1>3, <1>4, <1>8, <2>1, <2>4
  <2> QED BY <1>1, <2>2, <2>3, <2>4
<1> QED BY <1>5, <1>6, <1>9 DEF s, v

LEMMA ValuesWithout ==
  ASSUME NEW N, NEW c \in Seq(N), NEW f, NEW g,
         NEW i \in 1..Len(c), Once(c), \A x \in Of(c) \ {c[i]} : g[x] = f[x]
  PROVE  Values(Without(c, i), g) = Without(Values(c, f), i)
<1> DEFINE s == Without(c, i)
           v == Values(c, f)
           L == Len(c)
<1>1. /\ L \in Nat /\ DOMAIN c = 1..L /\ i \in Nat
  BY LenProperties
<1>2. DOMAIN s = 1..L - 1
  BY WithoutIs
<1>3. \A j \in 1..L - 1 : s[j] = IF j < i THEN c[j] ELSE c[j + 1]
  BY DEF Without
<1>4. Len(v) = L /\ \A j \in 1..L : v[j] = f[c[j]]
  <2>1. HasValues(v, c, f)
    BY ValuesIs
  <2> HIDE DEF v
  <2> QED BY <2>1 DEF HasValues
<1>5. Without(v, i) = [j \in 1..L - 1 |-> IF j < i THEN v[j] ELSE v[j + 1]]
  BY <1>4 DEF Without
<1>6. Values(s, g) = [j \in 1..L - 1 |-> g[s[j]]]
  BY <1>2 DEF Values
<1>7. i \in 1..L
  OBVIOUS
<1> HIDE DEF s, v, L
<1>8. \A j \in 1..L : j # i => g[c[j]] = f[c[j]]
  BY <1>1, <1>7 DEF Of, Once
<1>9. ASSUME NEW j \in 1..L - 1
      PROVE  g[s[j]] = IF j < i THEN v[j] ELSE v[j + 1]
  <2>1. j \in 1..L /\ j + 1 \in 1..L /\ (j < i \/ j >= i) /\ (j >= i => j + 1 # i)
    BY <1>1, <1>7
  <2>2. CASE j < i
    BY <1>1, <1>3, <1>4, <1>8, <2>1, <2>2
  <2>3. CASE ~(j < i)
    BY <1>1, <1>3, <1>4, <1>8, <2>1, <2>3
  <2> QED BY <2>2, <2>3
<1> QED BY <1>5, <1>6, <1>9 DEF s, v

LEMMA ValuesJoined ==
  ASSUME NEW N, NEW c \in Seq(N), NEW d \in Seq(N), NEW f
  PROVE  Values(Joined(c, d), f) = Joined(Values(c, f), Values(d, f))
<1> DEFINE s == Joined(c, d)
           v == Values(c, f)
           w == Values(d, f)
           L == Len(c)
           M == Len(d)
<1>1. L \in Nat /\ M \in Nat
  BY LenProperties
<1>2. DOMAIN s = 1..L + M
  BY JoinedIs
<1>3. \A j \in 1..L + M : s[j] = IF j <= L THEN c[j] ELSE d[j - L]
  BY DEF Joined
<1>4. /\ Len(v) = L /\ \A j \in 1..L : v[j] = f[c[j]]
      /\ Len(w) = M /\ \A j \in 1..M : w[j] = f[d[j]]
  <2>1. HasValues(v, c, f) /\ HasValues(w, d, f)
    BY ValuesIs
  <2> HIDE DEF v, w
  <2> QED BY <2>1 DEF HasValues
<1>5. Joined(v, w) = [j \in 1..L + M |-> IF j <= L THEN v[j] ELSE w[j - L]]
  BY <1>4 DEF Joined
<1>6. Values(s, f) = [j \in 1..L + M |-> f[s[j]]]
  BY <1>2 DEF Values
<1> HIDE DEF s, v, w, L, M
<1>7. ASSUME NEW j \in 1..L + M
      PROVE  f[s[j]] = IF j <= L THEN v[j] ELSE w[j - L]
  <2>1. (j <= L => j \in 1..L) /\ (~(j <= L) => j - L \in 1..M)
    BY <1>1
  <2> QED BY <1>3, <1>4, <2>1
<1> QED BY <1>5, <1>6, <1>7 DEF s, v, w

LEMMA ValuesBackwards ==
  ASSUME NEW N, NEW c \in Seq(N), NEW f
  PROVE  Values(Backwards(c), f) = Backwards(Values(c, f))
<1> DEFINE s == Backwards(c)
           v == Values(c, f)
           L == Len(c)
<1>1. L \in Nat
  BY LenProperties
<1>2. DOMAIN s = 1..L
  BY BackwardsIs
<1>3. \A j \in 1..L : s[j] = c[L + 1 - j]
  BY DEF Backwards
<1>4. Len(v) = L /\ \A j \in 1..L : v[j] = f[c[j]]
  <2>1. HasValues(v, c, f)
    BY ValuesIs
  <2> HIDE DEF v
  <2> QED BY <2>1 DEF HasValues
<1>5. Backwards(v) = [j \in 1..L |-> v[L + 1 - j]]
  BY <1>4 DEF Backwards
<1>6. Values(s, f) = [j \in 1..L |-> f[s[j]]]
  BY <1>2 DEF Values
<1> HIDE DEF s, v, L
<1>7. ASSUME NEW j \in 1..L PROVE f[s[j]] = v[L + 1 - j]
  <2>1. L + 1 - j \in 1..L
    BY <1>1
  <2> QED BY <1>3, <1>4, <2>1
<1> QED BY <1>5, <1>6, <1>7 DEF s, v
-----------------------------------------------------------------------------
(* The same operations as the concatenations SeqList writes.                *)
LEMMA SameSeq ==
  ASSUME NEW S, NEW s \in Seq(S), NEW t \in Seq(S), NEW n, Len(s) = n, Len(t) = n,
         \A i \in 1..n : s[i] = t[i]
  PROVE  s = t
  BY SeqEqual

LEMMA WithIsConcat ==
  ASSUME NEW S, NEW s \in Seq(S), NEW i \in 1..Len(s) + 1, NEW d \in S
  PROVE  With(s, i, d) = SubSeq(s, 1, i - 1) \o <<d>> \o SubSeq(s, i, Len(s))
<1> DEFINE L == Len(s)
           a == SubSeq(s, 1, i - 1)
           b == SubSeq(s, i, L)
           one == <<d>>
           w == With(s, i, d)
<1>1. L \in Nat /\ i \in 1..L + 1 /\ \A j \in 1..L : s[j] \in S
  BY LenProperties
<1>2. w \in Seq(S) /\ Len(w) = L + 1
      /\ \A j \in 1..L + 1 : w[j] = IF j < i THEN s[j] ELSE IF j = i THEN d ELSE s[j - 1]
  BY WithIs DEF With
<1> HIDE DEF L, w
<1>3. a \in Seq(S) /\ Len(a) = i - 1 /\ \A j \in 1..i - 1 : a[j] = s[j]
  <2>1. 1 \in Int /\ i - 1 \in Int /\ \A j \in 1..i - 1 : s[j] \in S
    BY <1>1
  <2>2. /\ a \in Seq(S)
        /\ Len(a) = IF 1 <= i - 1 THEN i - 1 - 1 + 1 ELSE 0
        /\ \A j \in 1..i - 1 - 1 + 1 : a[j] = s[1 + j - 1]
    <3> HIDE DEF a
    <3> QED BY <2>1, SubSeqProperties DEF a
  <2> HIDE DEF a
  <2> QED BY <1>1, <2>2
<1>4. b \in Seq(S) /\ Len(b) = L + 1 - i /\ \A j \in 1..L + 1 - i : b[j] = s[i + j - 1]
  <2>1. i \in Int /\ L \in Int /\ \A j \in i..L : s[j] \in S
    BY <1>1
  <2>2. /\ b \in Seq(S)
        /\ Len(b) = IF i <= L THEN L - i + 1 ELSE 0
        /\ \A j \in 1..L - i + 1 : b[j] = s[i + j - 1]
    <3> HIDE DEF b
    <3> QED BY <2>1, SubSeqProperties DEF b
  <2> HIDE DEF b
  <2> QED BY <1>1, <2>2
<1>5. one \in Seq(S) /\ Len(one) = 1 /\ one[1] = d
  OBVIOUS
<1> HIDE DEF a, b, one
<1>6. /\ a \o one \in Seq(S) /\ Len(a \o one) = i
      /\ \A j \in 1..i : (a \o one)[j] = IF j < i THEN s[j] ELSE d
  <2>1. /\ a \o one \in Seq(S) /\ Len(a \o one) = Len(a) + Len(one)
        /\ \A j \in 1..Len(a) + Len(one) :
             (a \o one)[j] = IF j <= Len(a) THEN a[j] ELSE one[j - Len(a)]
    BY <1>3, <1>5, ConcatProperties
  <2>2. Len(a) + Len(one) = i
    BY <1>1, <1>3, <1>5
  <2>3. ASSUME NEW j \in 1..i PROVE (a \o one)[j] = IF j < i THEN s[j] ELSE d
    <3>1. (j < i => j <= Len(a) /\ j \in 1..i - 1)
          /\ (~(j < i) => ~(j <= Len(a)) /\ j - Len(a) = 1)
      BY <1>1, <1>3
    <3> QED BY <1>3, <1>5, <2>1, <2>2, <3>1
  <2> QED BY <2>1, <2>2, <2>3
<1> DEFINE ao == a \o one
           t == ao \o b
<1> HIDE DEF ao
<1>7. /\ t \in Seq(S) /\ Len(t) = L + 1
      /\ \A j \in 1..L + 1 : t[j] = IF j < i THEN s[j] ELSE IF j = i THEN d ELSE s[j - 1]
  <2>1. /\ t \in Seq(S) /\ Len(t) = Len(ao) + Len(b)
        /\ \A j \in 1..Len(ao) + Len(b) : t[j] = IF j <= Len(ao) THEN ao[j] ELSE b[j - Len(ao)]
    <3>1. ao \in Seq(S) /\ b \in Seq(S)
      BY <1>4, <1>6 DEF ao
    <3> QED BY <3>1, ConcatProperties
  <2>2. Len(ao) = i /\ Len(ao) + Len(b) = L + 1
    BY <1>1, <1>4, <1>6 DEF ao
  <2> HIDE DEF t
  <2>3. ASSUME NEW j \in 1..L + 1
        PROVE  t[j] = IF j < i THEN s[j] ELSE IF j = i THEN d ELSE s[j - 1]
    <3>1. CASE j <= i
      <4>1. j \in 1..i /\ t[j] = ao[j]
        BY <1>1, <2>1, <2>2, <3>1
      <4> QED BY <1>6, <3>1, <4>1 DEF ao
    <3>2. CASE ~(j <= i)
      <4>1. j - i \in 1..L + 1 - i /\ i + (j - i) - 1 = j - 1 /\ ~(j < i) /\ j # i
        BY <1>1, <3>2
      <4>2. t[j] = b[j - i]
        BY <2>1, <2>2, <3>2
      <4>3. b[j - i] = s[i + (j - i) - 1]
        BY <1>4, <4>1
      <4> QED BY <4>1, <4>2, <4>3
    <3> QED BY <3>1, <3>2
  <2> QED BY <2>1, <2>2, <2>3
<1>8. w = t
  <2> HIDE DEF t
  <2> QED BY <1>1, <1>2, <1>7, SameSeq
<1> QED BY <1>8 DEF w, ao, a, b, one, L

LEMMA WithLast ==
  ASSUME NEW S, NEW s \in Seq(S), NEW d \in S
  PROVE  With(s, Len(s) + 1, d) = Append(s, d)
<1> DEFINE L == Len(s)
<1>1. L \in Nat /\ L + 1 \in 1..L + 1
  BY LenProperties
<1>2. /\ Append(s, d) \in Seq(S) /\ Len(Append(s, d)) = L + 1
      /\ \A i \in 1..L : Append(s, d)[i] = s[i]
      /\ Append(s, d)[L + 1] = d
  BY AppendProperties
<1>3. /\ With(s, L + 1, d) \in Seq(S) /\ Len(With(s, L + 1, d)) = L + 1
      /\ \A j \in 1..L + 1 : With(s, L + 1, d)[j] =
            IF j < L + 1 THEN s[j] ELSE IF j = L + 1 THEN d ELSE s[j - 1]
  BY <1>1, WithIs DEF With
<1> HIDE DEF L
<1>4. \A j \in 1..L + 1 : With(s, L + 1, d)[j] = Append(s, d)[j]
  BY <1>1, <1>2, <1>3
<1>5. With(s, L + 1, d) = Append(s, d)
  BY <1>2, <1>3, <1>4, SameSeq
<1> QED BY <1>5 DEF L

LEMMA SubSeqTo ==
  ASSUME NEW S, NEW s \in Seq(S), NEW n \in Nat, n <= Len(s)
  PROVE  /\ SubSeq(s, 1, n) \in Seq(S) /\ Len(SubSeq(s, 1, n)) = n
         /\ \A j \in 1..n : SubSeq(s, 1, n)[j] = s[j]
<1> DEFINE a == SubSeq(s, 1, n)
<1>1. \A j \in 1..n : s[j] \in S
  BY LenProperties
<1>2. /\ a \in Seq(S) /\ Len(a) = IF 1 <= n THEN n - 1 + 1 ELSE 0
      /\ \A j \in 1..n - 1 + 1 : a[j] = s[1 + j - 1]
  <2> HIDE DEF a
  <2> QED BY <1>1, SubSeqProperties DEF a
<1> HIDE DEF a
<1>3. a \in Seq(S) /\ Len(a) = n /\ \A j \in 1..n : a[j] = s[j]
  BY <1>2
<1> QED BY <1>3 DEF a

LEMMA WithoutValues ==
  ASSUME NEW S, NEW s \in Seq(S), NEW i \in 1..Len(s)
  PROVE  /\ Without(s, i) \in Seq(S) /\ Len(Without(s, i)) = Len(s) - 1
         /\ \A j \in 1..Len(s) - 1 : Without(s, i)[j] = IF j < i THEN s[j] ELSE s[j + 1]
<1> DEFINE L == Len(s)
           w == Without(s, i)
<1>1. L \in Nat /\ L - 1 \in Nat /\ i \in 1..L /\ \A j \in 1..L : s[j] \in S
  BY LenProperties
<1>2. w = [j \in 1..L - 1 |-> IF j < i THEN s[j] ELSE s[j + 1]]
  BY DEF Without
<1> HIDE DEF L, w
<1>3. \A j \in 1..L - 1 : (IF j < i THEN s[j] ELSE s[j + 1]) \in S
  BY <1>1
<1>4. w \in Seq(S) /\ Len(w) = L - 1
  BY <1>1, <1>2, <1>3, IsASeq, LenProperties
<1>5. \A j \in 1..L - 1 : w[j] = IF j < i THEN s[j] ELSE s[j + 1]
  BY <1>2
<1> QED BY <1>4, <1>5 DEF L, w

LEMMA WithoutLast ==
  ASSUME NEW S, NEW s \in Seq(S), s # <<>>
  PROVE  Without(s, Len(s)) = SubSeq(s, 1, Len(s) - 1)
<1> DEFINE L == Len(s)
           w == Without(s, L)
           a == SubSeq(s, 1, L - 1)
<1>1. L \in Nat /\ L # 0
  BY EmptySeq, LenProperties
<1>2. L \in 1..L /\ L - 1 \in Nat /\ L - 1 <= L
  <2> HIDE DEF L
  <2> QED BY <1>1
<1>3. /\ w \in Seq(S) /\ Len(w) = L - 1
      /\ \A j \in 1..L - 1 : w[j] = IF j < L THEN s[j] ELSE s[j + 1]
  BY <1>2, WithoutValues
<1>4. a \in Seq(S) /\ Len(a) = L - 1 /\ \A j \in 1..L - 1 : a[j] = s[j]
  BY <1>2, SubSeqTo
<1> HIDE DEF w, a, L
<1>5. \A j \in 1..L - 1 : w[j] = a[j]
  BY <1>1, <1>3, <1>4
<1>6. w = a
  BY <1>3, <1>4, <1>5, SameSeq
<1> QED BY <1>6 DEF w, a, L

LEMMA WithoutIsConcat ==
  ASSUME NEW S, NEW s \in Seq(S), NEW i \in 1..Len(s)
  PROVE  Without(s, i) = SubSeq(s, 1, i - 1) \o SubSeq(s, i + 1, Len(s))
<1> DEFINE L == Len(s)
           a == SubSeq(s, 1, i - 1)
           b == SubSeq(s, i + 1, L)
           w == Without(s, i)
           t == a \o b
<1>1. L \in Nat /\ i \in 1..L /\ \A j \in 1..L : s[j] \in S
  BY LenProperties
<1>2. /\ w \in Seq(S) /\ Len(w) = L - 1
      /\ \A j \in 1..L - 1 : w[j] = IF j < i THEN s[j] ELSE s[j + 1]
  BY WithoutValues
<1> HIDE DEF L, w
<1>3. a \in Seq(S) /\ Len(a) = i - 1 /\ \A j \in 1..i - 1 : a[j] = s[j]
  <2>1. i - 1 \in Nat /\ i - 1 <= Len(s)
    BY <1>1 DEF L
  <2> HIDE DEF a
  <2> QED BY <2>1, SubSeqTo DEF a
<1>4. b \in Seq(S) /\ Len(b) = L - i /\ \A j \in 1..L - i : b[j] = s[i + j]
  <2>1. i + 1 \in Int /\ L \in Int /\ \A j \in i + 1..L : s[j] \in S
    BY <1>1
  <2>2. /\ b \in Seq(S)
        /\ Len(b) = IF i + 1 <= L THEN L - (i + 1) + 1 ELSE 0
        /\ \A j \in 1..L - (i + 1) + 1 : b[j] = s[i + 1 + j - 1]
    <3> HIDE DEF b
    <3> QED BY <2>1, SubSeqProperties DEF b
  <2> HIDE DEF b
  <2>3. L - (i + 1) + 1 = L - i /\ \A j \in 1..L - i : i + 1 + j - 1 = i + j
    BY <1>1
  <2> QED BY <1>1, <2>2, <2>3
<1> HIDE DEF a, b
<1>5. /\ t \in Seq(S) /\ Len(t) = Len(a) + Len(b)
      /\ \A j \in 1..Len(a) + Len(b) : t[j] = IF j <= Len(a) THEN a[j] ELSE b[j - Len(a)]
  BY <1>3, <1>4, ConcatProperties
<1> HIDE DEF t
<1>6. Len(a) + Len(b) = L - 1
  BY <1>1, <1>3, <1>4
<1>7. ASSUME NEW j \in 1..L - 1 PROVE w[j] = t[j]
  <2>1. CASE j < i
    <3>1. j <= Len(a) /\ j \in 1..i - 1
      BY <1>1, <1>3, <2>1
    <3> QED BY <1>2, <1>3, <1>5, <1>6, <2>1, <3>1
  <2>2. CASE ~(j < i)
    <3>1. ~(j <= Len(a)) /\ j - Len(a) \in 1..L - i /\ i + (j - Len(a)) = j + 1
      BY <1>1, <1>3, <2>2
    <3>2. b[j - Len(a)] = s[j + 1]
      BY <1>4, <3>1
    <3> QED BY <1>2, <1>5, <1>6, <2>2, <3>1, <3>2
  <2> QED BY <2>1, <2>2
<1>8. w = t
  BY <1>2, <1>5, <1>6, <1>7, SameSeq
<1> QED BY <1>8 DEF w, t, a, b, L

LEMMA JoinedIsConcat ==
  ASSUME NEW S, NEW s \in Seq(S), NEW t \in Seq(S)
  PROVE  Joined(s, t) = s \o t
<1> DEFINE n == Len(s) + Len(t)
           w == Joined(s, t)
           u == s \o t
<1>1. w \in Seq(S) /\ Len(w) = n
      /\ \A j \in 1..n : w[j] = IF j <= Len(s) THEN s[j] ELSE t[j - Len(s)]
  BY JoinedIs DEF Joined
<1>2. u \in Seq(S) /\ Len(u) = n
      /\ \A j \in 1..n : u[j] = IF j <= Len(s) THEN s[j] ELSE t[j - Len(s)]
  BY ConcatProperties
<1> HIDE DEF w, u, n
<1>3. \A j \in 1..n : w[j] = u[j]
  BY <1>1, <1>2
<1>4. w = u
  BY <1>1, <1>2, <1>3, SameSeq
<1> QED BY <1>4 DEF w, u
-----------------------------------------------------------------------------
(* The data of every list, and that as many nodes hold them.                *)
Stored == [l \in Lists |-> Contents(l)]

LEMMA ContentsAre ==
  ASSUME ListInv, NEW l \in Lists
  PROVE  LET c == Chain(mem, head[l]) IN
         /\ Contents(l) = Values(c, mem.data)
         /\ Contents(l) \in Seq(Pointers)
         /\ Len(Contents(l)) = Len(c) /\ DOMAIN Contents(l) = 1..Len(c)
         /\ \A i \in 1..Len(c) : Contents(l)[i] = mem.data[c[i]]
         /\ Contents(l) = <<>> <=> Len(c) = 0
<1> DEFINE c == Chain(mem, head[l])
<1>1. c \in Seq(Nodes) /\ mem.data \in [Nodes -> Pointers]
  BY InvMeans DEF Memory
<1>2. Contents(l) = Values(c, mem.data)
  BY DEF Contents, Values
<1> HIDE DEF c
<1>3. Contents(l) \in Seq(Pointers)
  <2>1. \A f \in [Nodes -> Pointers] : Values(c, f) \in Seq(Pointers)
    BY <1>1, ValuesTyped
  <2> QED BY <1>1, <1>2, <2>1
<1>4. HasValues(Contents(l), c, mem.data)
  BY <1>1, <1>2, ValuesIs
<1>5. Contents(l) = <<>> <=> Len(Contents(l)) = 0
  BY <1>3, EmptySeq
<1> QED BY <1>2, <1>3, <1>4, <1>5 DEF HasValues, c

LEMMA ItemsFewer ==
  ASSUME ListInv, Unused # {}
  PROVE  Cardinality(Seqs!Items) < MaxLen
<1> DEFINE items == Seqs!Items
           node == [it \in items |-> Chain(mem, head[it[1]])[it[2]]]
           taken == Nodes \ {Fresh}
<1>1. Fresh \in Nodes /\ \A l \in Lists : Fresh \notin Listed(l)
  BY FreshIs
<1>2. IsFiniteSet(taken) /\ Cardinality(taken) = MaxLen - 1
  BY <1>1, NodesFinite, FS_RemoveElement
<1>3. items = UNION {{l} \X DOMAIN Contents(l) : l \in Lists}
  BY DEF Seqs!Items
<1>4. ASSUME NEW it \in items
      PROVE  /\ it = <<it[1], it[2]>> /\ it[1] \in Lists
             /\ it[2] \in DOMAIN Chain(mem, head[it[1]])
  <2>1. PICK l \in Lists : it \in {l} \X DOMAIN Contents(l)
    BY <1>3
  <2>2. it = <<it[1], it[2]>> /\ it[1] = l /\ it[2] \in DOMAIN Contents(l)
    BY <2>1
  <2>3. DOMAIN Contents(l) = DOMAIN Chain(mem, head[l])
    BY DEF Contents
  <2> QED BY <2>2, <2>3
<1> HIDE DEF items
<1>5. \A it \in items : Chain(mem, head[it[1]])[it[2]] \in Listed(it[1])
  BY <1>4 DEF Listed
<1>6. \A it \in items : node[it] \in taken
  BY <1>1, <1>4, <1>5, InvMeans
<1>7. ASSUME NEW x \in items, NEW y \in items, node[x] = node[y] PROVE x = y
  <2>1. Chain(mem, head[x[1]])[x[2]] = Chain(mem, head[y[1]])[y[2]]
    BY <1>7
  <2>2. x[1] = y[1]
    BY <1>4, <1>5, <2>1, InvMeans
  <2>3. Once(Chain(mem, head[x[1]]))
    BY <1>4, InvMeans DEF Linked
  <2>4. x[2] = y[2]
    BY <1>4, <2>1, <2>2, <2>3 DEF Once
  <2> QED BY <1>4, <2>2, <2>4
<1>8. node \in Injection(items, taken)
  BY <1>6, <1>7 DEF Injection, IsInjective
<1>9. IsFiniteSet(items) /\ Cardinality(items) <= Cardinality(taken)
  BY <1>2, <1>8, FS_Injection
<1>10. Cardinality(items) \in Nat
  BY <1>9, FS_CardinalityType
<1> HIDE DEF taken
<1> QED BY <1>2, <1>9, <1>10, BoundAssumption DEF items

(* Data kept and nodes kept are contents kept.                              *)
LEMMA ContentsKept ==
  ASSUME ListInv, ListInv', NEW k \in Lists,
         Chain(mem', head'[k]) = Chain(mem, head[k]), DataKept(Listed(k))
  PROVE  Contents(k)' = Contents(k)
<1> DEFINE c == Chain(mem, head[k])
<1>1. Contents(k)' = [i \in DOMAIN c |-> mem'.data[c[i]]]
  BY DEF Contents
<1>2. Contents(k) = [i \in DOMAIN c |-> mem.data[c[i]]]
  BY DEF Contents
<1>3. \A i \in DOMAIN c : mem'.data[c[i]] = mem.data[c[i]]
  BY DEF DataKept, Listed
<1> HIDE DEF c
<1> QED BY <1>1, <1>2, <1>3

LEMMA OthersKept ==
  ASSUME ListInv, ListInv', NEW l \in Lists, OthersStay(l)
  PROVE  \A k \in Lists : k # l => Contents(k)' = Contents(k)
<1> SUFFICES ASSUME NEW k \in Lists, k # l PROVE Contents(k)' = Contents(k)
  OBVIOUS
<1>1. Chain(mem', head'[k]) = Chain(mem, head[k]) /\ DataKept(Listed(k))
  BY DEF OthersStay, DataKept
<1> QED BY <1>1, ContentsKept

LEMMA KeepsStutters ==
  ASSUME ListInv, ListInv', NEW l \in Lists, OthersStay(l), Keeps(l)
  PROVE  Stored' = Stored
<1>1. Contents(l)' = Contents(l)
  BY ContentsKept DEF Keeps
<1> QED BY <1>1, OthersKept DEF Stored

LEMMA BecomesIs ==
  ASSUME ListInv, ListInv', NEW l \in Lists, OthersStay(l), NEW s, Contents(l)' = s
  PROVE  Seqs!Becomes(l, s)
<1>1. \A k \in Lists : Contents(k)' = IF k = l THEN s ELSE Contents(k)
  BY OthersKept
<1>2. Stored' = [k \in Lists |-> IF k = l THEN s ELSE Contents(k)]
  BY <1>1, Zenon DEF Stored
<1>3. [Stored EXCEPT ![l] = s] = [k \in Lists |-> IF k = l THEN s ELSE Contents(k)]
  BY Zenon DEF Stored
<1> QED BY <1>2, <1>3 DEF Seqs!Becomes, Stored

LEMMA GrowsIs ==
  ASSUME ListInv, ListInv', Unused # {}, NEW l \in Lists, OthersStay(l),
         NEW s, Contents(l)' = s
  PROVE  Seqs!Grows(l, s)
<1>1. Cardinality(Seqs!Items) < MaxLen
  BY ItemsFewer
<1>2. Seqs!Becomes(l, s)
  BY BecomesIs
<1>3. Seqs!Cardinality(Seqs!Items) = Cardinality(Seqs!Items)
  BY Zenon DEF Seqs!Cardinality, Cardinality
<1> QED BY <1>1, <1>2, <1>3 DEF Seqs!Grows

LEMMA InsertsContents ==
  ASSUME ListInv, ListInv', NEW l \in Lists, NEW i, NEW d \in Pointers, Inserts(l, i, d)
  PROVE  /\ i \in 1..Len(Contents(l)) + 1
         /\ Contents(l)' = With(Contents(l), i, d)
<1> DEFINE c == Chain(mem, head[l])
<1>1. /\ Unused # {} /\ i \in 1..Len(c) + 1
      /\ Chain(mem', head'[l]) = With(c, i, Fresh)
      /\ mem'.data[Fresh] = d
      /\ DataKept(Listed(l))
  BY DEF Inserts
<1>2. Contents(l) = Values(c, mem.data) /\ Len(Contents(l)) = Len(c)
  BY ContentsAre
<1>3. Contents(l)' = Values(With(c, i, Fresh), mem'.data)
  BY <1>1 DEF Contents, Values
<1>4. c \in Seq(Nodes) /\ Listed(l) = Of(c)
  BY InvMeans
<1>5. Fresh \in Nodes
  BY <1>1, FreshIs
<1> HIDE DEF c
<1>6. \A x \in Of(c) : mem'.data[x] = mem.data[x]
  BY <1>1, <1>4 DEF DataKept
<1>7. Values(With(c, i, Fresh), mem'.data) = With(Values(c, mem.data), i, mem'.data[Fresh])
  BY <1>1, <1>4, <1>5, <1>6, ValuesWith
<1> QED BY <1>1, <1>2, <1>3, <1>7

LEMMA RemovesContents ==
  ASSUME ListInv, ListInv', NEW l \in Lists, NEW i, Removes(l, i)
  PROVE  /\ i \in 1..Len(Contents(l))
         /\ Contents(l)' = Without(Contents(l), i)
<1> DEFINE c == Chain(mem, head[l])
<1>1. /\ i \in 1..Len(c)
      /\ Chain(mem', head'[l]) = Without(c, i)
      /\ DataKept(Listed(l) \ {c[i]})
  BY DEF Removes
<1>2. Contents(l) = Values(c, mem.data) /\ Len(Contents(l)) = Len(c)
  BY ContentsAre
<1>3. Contents(l)' = Values(Without(c, i), mem'.data)
  BY <1>1 DEF Contents, Values
<1>4. c \in Seq(Nodes) /\ Listed(l) = Of(c) /\ Once(c)
  BY InvMeans DEF Linked
<1> HIDE DEF c
<1>5. \A x \in Of(c) \ {c[i]} : mem'.data[x] = mem.data[x]
  BY <1>1, <1>4 DEF DataKept
<1>6. Values(Without(c, i), mem'.data) = Without(Values(c, mem.data), i)
  BY <1>1, <1>4, <1>5, ValuesWithout
<1> QED BY <1>1, <1>2, <1>3, <1>6

LEMMA PointersSame == Seqs!Pointers = Pointers /\ Seqs!NULL = NULL
  BY DEF Seqs!Pointers, Pointers, Seqs!NULL, NULL

LEMMA StoredAt == ASSUME NEW l \in Lists PROVE Stored[l] = Contents(l)
  BY DEF Stored

LEMMA AppendRefines ==
  ASSUME ListInv, ListInv', NEW l \in Lists, NEW d \in Pointers, AppendData(l, d)
  PROVE  Stored' = Stored \/ Seqs!AppendData(l, d)
<1>1. /\ OthersStay(l)
      /\ IF d = NULL THEN Keeps(l) ELSE Inserts(l, Len(Chain(mem, head[l])) + 1, d)
  BY AppendStep
<1>2. CASE d = NULL
  BY <1>1, <1>2, KeepsStutters
<1>3. CASE d # NULL
  <2>1. Inserts(l, Len(Chain(mem, head[l])) + 1, d) /\ Unused # {}
    BY <1>1, <1>3 DEF Inserts
  <2>2. Contents(l) \in Seq(Pointers) /\ Len(Contents(l)) = Len(Chain(mem, head[l]))
    BY ContentsAre
  <2>3. Contents(l)' = With(Contents(l), Len(Contents(l)) + 1, d)
    BY <2>1, <2>2, InsertsContents
  <2>4. Contents(l)' = Append(Contents(l), d)
    BY <2>2, <2>3, WithLast
  <2>5. Seqs!Grows(l, Append(Contents(l), d))
    BY <1>1, <2>1, <2>4, GrowsIs
  <2>6. Seqs!Grows(l, Append(Stored[l], d)) /\ d # Seqs!NULL
    BY <1>3, <2>5, StoredAt, PointersSame
  <2> QED BY <2>6 DEF Seqs!AppendData, Stored
<1> QED BY <1>2, <1>3

LEMMA InsertRefines ==
  ASSUME ListInv, ListInv', NEW l \in Lists, NEW d \in Pointers, NEW pos \in Positions,
         InsertData(l, d, pos)
  PROVE  Stored' = Stored \/ Seqs!InsertData(l, d, pos)
<1> DEFINE s == Contents(l)
           L == Len(s)
           i == Place(L, pos)
<1>1. /\ s \in Seq(Pointers) /\ L = Len(Chain(mem, head[l])) /\ L \in Nat
      /\ s = <<>> <=> L = 0
  BY ContentsAre, LenProperties
<1>2. /\ OthersStay(l) /\ Unused # {}
      /\ IF d = NULL /\ L # 0 /\ i = L + 1 THEN Keeps(l) ELSE Inserts(l, i, d)
  BY <1>1, InsertStep
<1>3. CASE d = NULL /\ L # 0 /\ i = L + 1
  BY <1>2, <1>3, KeepsStutters
<1>4. CASE ~(d = NULL /\ L # 0 /\ i = L + 1)
  <2>1. i \in 1..L + 1 /\ Contents(l)' = With(s, i, d)
    <3>1. Inserts(l, i, d)
      BY <1>2, <1>4
    <3> HIDE DEF i
    <3> QED BY <3>1, InsertsContents
  <2>2. Seqs!Grows(l, With(s, i, d))
    BY <1>2, <2>1, GrowsIs
  <2>3. With(s, i, d) = SubSeq(s, 1, i - 1) \o <<d>> \o SubSeq(s, i, L)
    <3> HIDE DEF i, s
    <3>1. i \in 1..Len(s) + 1
      BY <2>1
    <3> QED BY <1>1, <3>1, WithIsConcat
  <2>4. Stored[l] = s /\ pos \in Int
    BY StoredAt, PositionsAssumption
  <2>5. CASE s = <<>>
    <3>1. i = 1 /\ Len(s) = 0
      BY <1>1, <2>5 DEF Place
    <3>2. With(s, i, d) = Append(s, d)
      <4> HIDE DEF i, s
      <4>1. With(s, Len(s) + 1, d) = Append(s, d)
        BY <1>1, WithLast
      <4>2. Len(s) + 1 = i
        BY <3>1
      <4> QED BY <4>1, <4>2
    <3>3. Append(s, d) = <<d>>
      BY <2>5
    <3>4. Seqs!Grows(l, <<d>>)
      BY <2>2, <3>2, <3>3
    <3> HIDE DEF s
    <3> QED BY <2>4, <2>5, <3>4 DEF Seqs!InsertData, Stored
  <2>6. CASE s # <<>> /\ pos \in 0..L - 1
    <3>1. i = pos + 1 /\ i - 1 = pos
      BY <1>1, <2>4, <2>6 DEF Place
    <3>2. With(s, i, d) = SubSeq(s, 1, pos) \o <<d>> \o SubSeq(s, pos + 1, Len(s))
      BY <2>3, <3>1
    <3>3. Seqs!Grows(l, SubSeq(s, 1, pos) \o <<d>> \o SubSeq(s, pos + 1, Len(s)))
      BY <2>2, <3>2
    <3> HIDE DEF s
    <3> QED BY <2>4, <2>6, <3>3, Zenon DEF Seqs!InsertData, Stored
  <2>7. CASE s # <<>> /\ pos \notin 0..L - 1
    <3>1. i = L + 1 /\ d # NULL
      BY <1>1, <1>4, <2>7 DEF Place
    <3>2. With(s, i, d) = Append(s, d)
      <4> HIDE DEF i, s
      <4>1. With(s, Len(s) + 1, d) = Append(s, d)
        BY <1>1, WithLast
      <4> QED BY <3>1, <4>1
    <3>3. Seqs!Grows(l, Append(s, d)) /\ d # Seqs!NULL
      BY <2>2, <3>1, <3>2, PointersSame
    <3> HIDE DEF s
    <3>4. Seqs!AppendData(l, d)
      BY <2>4, <3>3 DEF Seqs!AppendData, Stored
    <3> QED BY <2>4, <2>7, <3>4, Zenon DEF Seqs!InsertData, Stored
  <2> QED BY <2>5, <2>6, <2>7
<1> QED BY <1>3, <1>4

LEMMA RemoveRefines ==
  ASSUME ListInv, ListInv', NEW l \in Lists, NEW d \in Pointers, RemoveItem(l, d)
  PROVE  Stored' = Stored \/ Seqs!RemoveItem(l, d)
<1> DEFINE c == Chain(mem, head[l])
           s == Contents(l)
<1>1. OthersStay(l) /\ \/ Keeps(l)
                       \/ \E i \in 1..Len(c) : FirstHeld(mem, c, d, i) /\ Removes(l, i)
  BY RemoveStep
<1>2. CASE Keeps(l)
  BY <1>1, <1>2, KeepsStutters
<1>3. CASE \E i \in 1..Len(c) : FirstHeld(mem, c, d, i) /\ Removes(l, i)
  <2>1. PICK i \in 1..Len(c) : FirstHeld(mem, c, d, i) /\ Removes(l, i)
    BY <1>3
  <2>2. /\ s \in Seq(Pointers) /\ Len(s) = Len(c) /\ DOMAIN s = 1..Len(c) /\ Len(c) \in Nat
        /\ \A j \in 1..Len(c) : s[j] = mem.data[c[j]]
    BY ContentsAre, LenProperties
  <2>3. i \in 1..Len(s) /\ Contents(l)' = Without(s, i)
    BY <2>1, RemovesContents
  <2> HIDE DEF s
  <2>4. Without(s, i) = SubSeq(s, 1, i - 1) \o SubSeq(s, i + 1, Len(s))
    BY <2>2, <2>3, WithoutIsConcat
  <2> HIDE DEF c
  <2>5. s[i] = d /\ \A j \in 1..i - 1 : s[j] # d
    BY <2>1, <2>2 DEF FirstHeld
  <2>6. Seqs!Becomes(l, SubSeq(s, 1, i - 1) \o SubSeq(s, i + 1, Len(s)))
    BY <1>1, <2>3, <2>4, BecomesIs
  <2>7. Stored[l] = s /\ i \in DOMAIN s
    BY <2>2, <2>3, StoredAt DEF s
  <2> QED BY <2>5, <2>6, <2>7, Zenon DEF Seqs!RemoveItem, Stored
<1> QED BY <1>1, <1>2, <1>3

LEMMA PopRefines ==
  ASSUME ListInv, ListInv', NEW l \in Lists, PopItem(l)
  PROVE  Stored' = Stored \/ Seqs!PopItem(l)
<1> DEFINE s == Contents(l)
<1>1. /\ OthersStay(l) /\ Len(s) = Len(Chain(mem, head[l])) /\ s \in Seq(Pointers)
      /\ Keeps(l) \/ Removes(l, Len(s))
  BY PopStep, ContentsAre
<1>2. CASE Keeps(l)
  BY <1>1, <1>2, KeepsStutters
<1>3. CASE Removes(l, Len(s))
  <2>1. Len(s) \in 1..Len(s) /\ Contents(l)' = Without(s, Len(s))
    BY <1>3, RemovesContents
  <2> HIDE DEF s
  <2>2. s # <<>>
    BY <1>1, <2>1
  <2>3. Without(s, Len(s)) = SubSeq(s, 1, Len(s) - 1)
    BY <1>1, <2>2, WithoutLast
  <2>4. Seqs!Becomes(l, SubSeq(s, 1, Len(s) - 1))
    BY <1>1, <2>1, <2>3, BecomesIs
  <2>5. Stored[l] = s
    BY StoredAt DEF s
  <2> QED BY <2>2, <2>4, <2>5, Zenon DEF Seqs!PopItem, Stored
<1> QED BY <1>1, <1>2, <1>3

LEMMA ReverseRefines ==
  ASSUME ListInv, ListInv', NEW l \in Lists, ReverseItems(l)
  PROVE  Seqs!ReverseItems(l)
<1> DEFINE c == Chain(mem, head[l])
           s == Contents(l)
<1>1. /\ OthersStay(l) /\ Chain(mem', head'[l]) = Backwards(c) /\ DataKept(Listed(l))
  BY ReverseStep
<1>2. /\ s = Values(c, mem.data) /\ Len(s) = Len(c) /\ DOMAIN s = 1..Len(s)
      /\ c \in Seq(Nodes) /\ Listed(l) = Of(c) /\ mem \in Memory(Nodes, Pointers)
  BY ContentsAre, InvMeans
<1>3. Contents(l)' = Values(Backwards(c), mem'.data)
  BY <1>1 DEF Contents, Values
<1> HIDE DEF c, s
<1>4. Values(Backwards(c), mem'.data) = Values(Backwards(c), mem.data)
  <2>1. DOMAIN Backwards(c) = 1..Len(c) /\ Of(Backwards(c)) = Of(c)
    BY <1>2, BackwardsIs
  <2>2. \A i \in DOMAIN Backwards(c) : mem'.data[Backwards(c)[i]] = mem.data[Backwards(c)[i]]
    BY <1>1, <1>2, <2>1 DEF DataKept, Of
  <2> QED BY <2>2 DEF Values
<1>5. Contents(l)' = Backwards(s)
  BY <1>2, <1>3, <1>4, ValuesBackwards
<1>6. Backwards(s) = [i \in DOMAIN s |-> s[Len(s) + 1 - i]]
  BY <1>2 DEF Backwards
<1>7. Seqs!Becomes(l, [i \in DOMAIN s |-> s[Len(s) + 1 - i]])
  BY <1>1, <1>5, <1>6, BecomesIs
<1>8. Stored[l] = s
  BY StoredAt DEF s
<1> QED BY <1>7, <1>8 DEF Seqs!ReverseItems, Stored

LEMMA ExtendRefines ==
  ASSUME ListInv, ListInv', NEW l \in Lists, NEW other \in Lists, Extend(l, other)
  PROVE  Seqs!Extend(l, other)
<1> DEFINE c == Chain(mem, head[l])
           d == Chain(mem, head[other])
           s == Contents(l)
           t == Contents(other)
<1>1. /\ Chain(mem', head'[l]) = Joined(c, d) /\ Chain(mem', head'[other]) = <<>>
      /\ \A k \in Lists \ {l, other} : Chain(mem', head'[k]) = Chain(mem, head[k])
      /\ mem'.data = mem.data /\ l # other
  BY ExtendStep DEF Extend
<1>2. /\ s = Values(c, mem.data) /\ s \in Seq(Pointers) /\ c \in Seq(Nodes)
      /\ t = Values(d, mem.data) /\ t \in Seq(Pointers) /\ d \in Seq(Nodes)
  BY ContentsAre, InvMeans
<1>3. \A k \in Lists \ {l, other} : Contents(k)' = Contents(k)
  BY <1>1, ContentsKept DEF DataKept
<1>4. Contents(l)' = Values(Joined(c, d), mem.data)
  BY <1>1 DEF Contents, Values
<1>5. Contents(other)' = <<>>
  <2>1. Contents(other)' = [i \in DOMAIN <<>> |-> mem'.data[<<>>[i]]]
    BY <1>1 DEF Contents
  <2> QED BY <2>1
<1> HIDE DEF c, d, s, t
<1>6. Contents(l)' = s \o t
  <2>1. Values(Joined(c, d), mem.data) = Joined(s, t)
    BY <1>2, ValuesJoined
  <2>2. Joined(s, t) = s \o t
    BY <1>2, JoinedIsConcat
  <2> QED BY <1>4, <2>1, <2>2
<1>7. Stored[l] = s /\ Stored[other] = t
  BY StoredAt DEF s, t
<1>8. \A k \in Lists :
        Contents(k)' = IF k = other THEN <<>> ELSE IF k = l THEN s \o t ELSE Contents(k)
  BY <1>1, <1>3, <1>5, <1>6
<1>9. Stored' = [k \in Lists |-> IF k = other THEN <<>>
                                 ELSE IF k = l THEN s \o t ELSE Contents(k)]
  BY <1>8, Zenon DEF Stored
<1>10. [Stored EXCEPT ![l] = @ \o Stored[other], ![other] = <<>>]
         = [k \in Lists |-> IF k = other THEN <<>>
                            ELSE IF k = l THEN s \o t ELSE Contents(k)]
  <2> DEFINE joined == s \o t
  <2>1. [Stored EXCEPT ![l] = @ \o Stored[other], ![other] = <<>>]
          = [Stored EXCEPT ![l] = joined, ![other] = <<>>]
    BY <1>7
  <2> HIDE DEF joined
  <2>2. [Stored EXCEPT ![l] = joined, ![other] = <<>>]
          = [k \in Lists |-> IF k = other THEN <<>>
                             ELSE IF k = l THEN joined ELSE Contents(k)]
    BY DEF Stored
  <2> QED BY <2>1, <2>2 DEF joined
<1> QED BY <1>1, <1>9, <1>10 DEF Seqs!Extend, Stored

LEMMA StepRefines == ListInv /\ ListInv' /\ [Next]_vars => [Seqs!Next]_Stored
<1> SUFFICES ASSUME ListInv, ListInv', [Next]_vars PROVE Stored' = Stored \/ Seqs!Next
  OBVIOUS
<1>1. ASSUME NEW l \in Lists, NEW d \in Pointers, AppendData(l, d)
      PROVE  Stored' = Stored \/ Seqs!Next
  BY <1>1, AppendRefines, PointersSame DEF Seqs!Next
<1>2. ASSUME NEW l \in Lists, NEW d \in Pointers, RemoveItem(l, d)
      PROVE  Stored' = Stored \/ Seqs!Next
  BY <1>2, RemoveRefines, PointersSame DEF Seqs!Next
<1>3. ASSUME NEW l \in Lists, NEW d \in Pointers, NEW pos \in Positions, InsertData(l, d, pos)
      PROVE  Stored' = Stored \/ Seqs!Next
  BY <1>3, InsertRefines, PointersSame DEF Seqs!Next
<1>4. ASSUME NEW l \in Lists, PopItem(l) PROVE Stored' = Stored \/ Seqs!Next
  BY <1>4, PopRefines DEF Seqs!Next
<1>5. ASSUME NEW l \in Lists, ReverseItems(l) PROVE Seqs!Next
  BY <1>5, ReverseRefines DEF Seqs!Next
<1>6. ASSUME NEW l \in Lists, NEW other \in Lists, Extend(l, other) PROVE Seqs!Next
  BY <1>6, ExtendRefines DEF Seqs!Next
<1>7. CASE UNCHANGED vars
  BY <1>7 DEF vars, Stored, Contents
<1> QED BY <1>1, <1>2, <1>3, <1>4, <1>5, <1>6, <1>7 DEF Next

LEMMA InitRefines == Init /\ ListInv => Seqs!Init
<1> SUFFICES ASSUME Init, ListInv PROVE Seqs!Init
  OBVIOUS
<1>1. ASSUME NEW l \in Lists PROVE Contents(l) = <<>>
  <2>1. Linked(mem, NULL, <<>>) /\ head[l] = NULL /\ mem \in Memory(Nodes, Pointers)
    BY LinkedNone, InvMeans DEF Init
  <2>2. Chain(mem, head[l]) = <<>>
    BY <2>1, NodesFinite, ChainIs
  <2>3. Contents(l) = [i \in DOMAIN <<>> |-> mem.data[<<>>[i]]]
    BY <2>2 DEF Contents
  <2> QED BY <2>3
<1> QED BY <1>1, Zenon DEF Seqs!Init

(* After any sequence of operations each list holds the data the operations *)
(* put there, in their order: an append adds at the end unless it is given  *)
(* NULL, an insertion puts its data before the one at its position, a       *)
(* removal takes the first that is equal, a pop the last, and extending and *)
(* reversing lose and add nothing (list.c:26-255).                          *)
THEOREM ListsImplemented == Spec => ImplementsSeqList
<1>1. Spec => []ListInv
  BY InvInit, InvStep, PTL DEF Spec
<1>2. Init /\ ListInv => Seqs!Init
  BY InitRefines
<1>3. ListInv /\ ListInv' /\ [Next]_vars => [Seqs!Next]_Stored
  BY StepRefines
<1> QED BY <1>1, <1>2, <1>3, PTL DEF Spec, ImplementsSeqList, Seqs!Spec, Stored
=============================================================================
