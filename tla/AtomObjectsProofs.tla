-------------------------- MODULE AtomObjectsProofs --------------------------
(***************************************************************************)
(* Proofs about AtomObjects, for any number of objects and references.     *)
(***************************************************************************)
EXTENDS AtomObjects, FiniteSetTheorems, SequenceTheorems, TLAPS

(* What a field may hold is below its holder.                               *)
LEMMA FieldFacts ==
  ASSUME NEW k \in Kinds, NEW f \in DOMAIN Fields(k)
  PROVE  /\ f \in Lists \cup Scalars
         /\ Fields(k)[f] \in Kinds
         /\ Rank(Fields(k)[f]) < Rank(k)
<1> USE DEF Fields, FieldTable, Lists, Scalars, Kinds, Rank, Ranks
<1>1. CASE k = "in_reply_to"
  BY <1>1 DEF InReplyTo
<1>2. CASE k \in {"link", "content", "category"}
  BY <1>2 DEF Link, Content, Category
<1>3. CASE k = "person"
  BY <1>3 DEF Person
<1>4. CASE k = "entry"
  BY <1>4 DEF Entry
<1>5. CASE k = "feed"
  BY <1>5 DEF Feed
<1>6. CASE k \in {"iri", "simple_element"}
  BY <1>6 DEF Leaf
<1> QED BY <1>1, <1>2, <1>3, <1>4, <1>5, <1>6 DEF Kinds

LEMMA RankBounds == \A k \in Kinds : Rank(k) \in 0..3
BY DEF Rank, Ranks, Kinds

LEMMA DroppedType ==
  ASSUME NEW k \in Kinds
  PROVE  Dropped(k) \subseteq Lists \cup Scalars
BY FieldFacts DEF Dropped

LEMMA TakenType ==
  ASSUME NEW k \in Kinds, NEW f \in Taken(k)
  PROVE  f \in DOMAIN Fields(k) /\ f \in Scalars /\ f \notin Lists /\ <<k, f>> \notin UnsoundLists
BY DEF Taken, Fields, FieldTable, InReplyTo, Link, Person, Category, Scalars, Lists, UnsoundLists

-----------------------------------------------------------------------------
(* Every variable keeps its type, whatever callers misuse.  A live object   *)
(* has a count to decrement.                                                *)
LivePositive == \A o \in Objects : Live(o) => count[o] > 0
TypeInv == TypeOK /\ LivePositive

LEMMA TypeInit == Init => TypeInv
<1> SUFFICES ASSUME Init PROVE TypeInv
  OBVIOUS
<1>1. kind \in [Objects -> Kinds] BY DEF Init, Kinds
<1>2. IsFiniteSet(refs) BY FS_EmptySet DEF Init
<1>3. stack \in Seq(Calls) BY DEF Init
<1>4. LivePositive BY DEF Init, LivePositive, Live
<1> QED BY <1>1, <1>2, <1>3, <1>4 DEF Init, TypeInv, TypeOK

LEMMA PtrType ==
  ASSUME NEW o \in Objects, NEW v \in Objects, NEW f \in Lists \cup Scalars,
         NEW n \in 1..MaxItems \cup {1}
  PROVE  Ptr(o, f, n, v) \in Pointers
BY DEF Ptr, Pointers

LEMMA NewCallType ==
  ASSUME TypeOK, NEW v \in Objects, NEW calls \in Seq(Calls)
  PROVE  LET c == [obj |-> v, fields |-> Dropped(kind[v]), frees |-> TRUE]
         IN  c \in Calls /\ Append(calls, c) \in Seq(Calls)
<1> kind[v] \in Kinds BY DEF TypeOK
<1> QED BY DroppedType DEF Calls

LEMMA CallersType ==
  ASSUME TypeOK, stack # <<>>
  PROVE  /\ Callers \in Seq(Calls) /\ Top \in Calls
         /\ Len(stack) \in Nat \ {0} /\ Len(Callers) = Len(stack) - 1
         /\ DOMAIN stack = 1..Len(stack) /\ Top = stack[Len(stack)]
         /\ \A i \in 1..Len(Callers) : Callers[i] = stack[i]
<1> DEFINE k == Len(stack) - 1
<1>1. stack \in Seq(Calls) /\ k \in Nat /\ Len(stack) \in Nat \ {0} /\ DOMAIN stack = 1..Len(stack)
  BY EmptySeq DEF TypeOK
<1>2. \A i \in 1..Len(stack) : stack[i] \in Calls
  BY <1>1, ElementOfSeq
<1>3. Callers = SubSeq(stack, 1, k)
  BY DEF Callers
<1>4. Top \in Calls
  BY <1>1, <1>2 DEF Top
<1> HIDE DEF k
<1>5. /\ SubSeq(stack, 1, k) \in Seq(Calls)
      /\ Len(SubSeq(stack, 1, k)) = IF 1 <= k THEN k - 1 + 1 ELSE 0
      /\ \A i \in 1..(k - 1 + 1) : SubSeq(stack, 1, k)[i] = stack[1 + i - 1]
  BY <1>1, <1>2, SubSeqProperties DEF k
<1>6. /\ Callers \in Seq(Calls) /\ Len(Callers) = k
      /\ \A i \in 1..k : Callers[i] = stack[i]
  BY <1>1, <1>3, <1>5
<1> QED BY <1>1, <1>4, <1>6 DEF k, Top

(* ta_object_unref keeps the types of what it changes.                      *)
LEMMA DropType ==
  ASSUME TypeInv, NEW v \in Objects, NEW calls \in Seq(Calls), Drop(v, calls)
  PROVE  /\ count' \in [Objects -> Nat]
         /\ life' \in [Objects -> {"unused", "live", "dying", "freed"}]
         /\ stack' \in Seq(Calls)
         /\ fault' \in BOOLEAN
         /\ LivePositive'
<1> DEFINE c == [obj |-> v, fields |-> Dropped(kind[v]), frees |-> TRUE]
<1>t. /\ count \in [Objects -> Nat] /\ fault \in BOOLEAN
      /\ life \in [Objects -> {"unused", "live", "dying", "freed"}]
      /\ Append(calls, c) \in Seq(Calls)
      /\ \A o \in Objects : life[o] = "live" => count[o] > 0
  BY NewCallType DEF TypeInv, TypeOK, LivePositive, Live
<1> HIDE DEF c
<1>1. CASE life[v] # "live"
  BY <1>1, <1>t DEF Drop, LivePositive, Live
<1>2. CASE life[v] = "live" /\ count[v] = 1
  <2>1. /\ count' = [count EXCEPT ![v] = 0] /\ life' = [life EXCEPT ![v] = "dying"]
        /\ stack' = Append(calls, c) /\ fault' = fault
    BY <1>2, <1>t DEF Drop, Live, c
  <2> QED BY <2>1, <1>2, <1>t DEF LivePositive, Live
<1>3. CASE life[v] = "live" /\ count[v] # 1
  BY <1>3, <1>t DEF Drop, LivePositive, Live
<1> QED BY <1>1, <1>2, <1>3

LEMMA MadeType ==
  ASSUME TypeInv, NEW o \in Objects, NEW k \in Kinds, Made(o, k)
  PROVE  /\ kind' \in [Objects -> Kinds]
         /\ life' \in [Objects -> {"unused", "live", "dying", "freed"}]
         /\ text' \in [Objects -> {"none", "set", "freed"}]
         /\ bad' \subseteq Objects \X Lists
         /\ UNCHANGED <<stack, pending, fault>>
<1>1. kind' \in [Objects -> Kinds] BY DEF TypeInv, TypeOK, Made
<1>2. life' \in [Objects -> {"unused", "live", "dying", "freed"}]
  <2>1. life' = [life EXCEPT ![o] = "live"] /\ life \in [Objects -> {"unused", "live", "dying", "freed"}]
    BY DEF TypeInv, TypeOK, Made
  <2> QED BY <2>1
<1>3. text' \in [Objects -> {"none", "set", "freed"}]
  <2>1. text \in [Objects -> {"none", "set", "freed"}] BY DEF TypeInv, TypeOK
  <2>2. text' = [text EXCEPT ![o] = "set"] \/ text' = [text EXCEPT ![o] = "none"] BY DEF Made
  <2> QED BY <2>1, <2>2
<1>4. bad' \subseteq Objects \X Lists
  <2>1. PICK lists \in SUBSET Lists : bad' = bad \cup {<<o, f>> : f \in lists}
    BY DEF Made, Uninitialised
  <2> QED BY <2>1 DEF TypeInv, TypeOK
<1> QED BY <1>1, <1>2, <1>3, <1>4 DEF Made

(* Removing pointers, and adding one, keeps refs what it is.                *)
LEMMA RefsType ==
  ASSUME TypeOK, NEW S, NEW r \in Pointers, NEW T,
         T = refs \cup {r} \/ T = refs \ S
  PROVE  T \subseteq Pointers /\ IsFiniteSet(T)
<1>1. CASE T = refs \cup {r}
  BY <1>1, FS_AddElement DEF TypeOK
<1>2. CASE T = refs \ S
  BY <1>2, FS_Subset DEF TypeOK
<1> QED BY <1>1, <1>2

LEMMA ReplacedType ==
  ASSUME TypeInv, NEW o \in Objects, NEW f \in Scalars, NEW v \in Objects \cup {None},
         Replaced(o, f, v)
  PROVE  /\ count' \in [Objects -> Nat]
         /\ life' \in [Objects -> {"unused", "live", "dying", "freed"}]
         /\ refs' \subseteq Pointers /\ IsFiniteSet(refs')
         /\ stack' \in Seq(Calls)
         /\ pending' \in Pointers \cup {None}
         /\ fault' \in BOOLEAN
         /\ LivePositive'
<1>1. pending' \in Pointers \cup {None}
  BY PtrType DEF Replaced
<1>2. CASE UNCHANGED <<refs, count, life, stack, fault>>
  BY <1>1, <1>2 DEF TypeInv, TypeOK, LivePositive, Live
<1>3. ASSUME NEW r \in Held(o, f), refs' = refs \ {r}, Drop(r.to, <<>>)
      PROVE  /\ count' \in [Objects -> Nat]
             /\ life' \in [Objects -> {"unused", "live", "dying", "freed"}]
             /\ refs' \subseteq Pointers /\ IsFiniteSet(refs')
             /\ stack' \in Seq(Calls)
             /\ fault' \in BOOLEAN
             /\ LivePositive'
  <2>1. r \in Pointers /\ r.to \in Objects /\ <<>> \in Seq(Calls)
    BY DEF Held, TypeInv, TypeOK, Pointers
  <2>2. refs' \subseteq Pointers /\ IsFiniteSet(refs')
    BY <1>3, <2>1, RefsType DEF TypeInv
  <2> QED BY <1>3, <2>1, <2>2, DropType
<1> QED BY <1>1, <1>2, <1>3 DEF Replaced

LEMMA TypeNext == TypeInv /\ [Next]_vars => TypeInv'
<1> SUFFICES ASSUME TypeInv, [Next]_vars PROVE TypeInv'
  OBVIOUS
<1>t. TypeOK BY DEF TypeInv
<1>1. ASSUME NEW o \in Objects, NEW k \in Kinds, New(o, k) PROVE TypeInv'
  <2>1. Made(o, k) /\ count' = [count EXCEPT ![o] = 1] /\ mine' = [mine EXCEPT ![o] = 1]
        /\ refs' = refs
    BY <1>1 DEF New
  <2>2. count' \in [Objects -> Nat] /\ mine' \in [Objects -> Nat]
    BY <2>1, <1>t DEF TypeOK
  <2>3. LivePositive'
    BY <2>1, <1>t DEF TypeInv, TypeOK, LivePositive, Live, Made
  <2> QED BY <2>1, <2>2, <2>3, <1>t, MadeType DEF TypeInv, TypeOK
<1>2. ASSUME NEW o \in Objects, NEW k \in Kinds, NEW v \in Objects, NewWith(o, k, v)
      PROVE TypeInv'
  <2>1. Made(o, k) BY <1>2 DEF NewWith
  <2>2. v # o /\ mine[v] \in Nat \ {0} /\ count[v] \in Nat \ {0}
    BY <1>2, <1>t DEF NewWith, Made, TypeOK, TypeInv, LivePositive, Live
  <2>3. count' \in [Objects -> Nat] /\ mine' \in [Objects -> Nat]
    <3>1. count \in [Objects -> Nat] /\ mine \in [Objects -> Nat]
      BY <1>t DEF TypeOK
    <3>2. CASE k = "link"
      <4>1. count' = [count EXCEPT ![o] = 1, ![v] = @] /\ mine' = [mine EXCEPT ![o] = 1, ![v] = @ - 1]
        BY <1>2, <3>2 DEF NewWith
      <4> QED BY <4>1, <3>1, <2>2
    <3>3. CASE k # "link"
      <4>1. count' = [count EXCEPT ![o] = 1, ![v] = @ + 1] /\ mine' = [mine EXCEPT ![o] = 1, ![v] = @]
        BY <1>2, <3>3 DEF NewWith
      <4> QED BY <4>1, <3>1, <2>2
    <3> QED BY <3>2, <3>3
  <2>4. LivePositive'
    BY <1>2, <2>1, <2>2, <1>t DEF TypeInv, TypeOK, LivePositive, Live, Made, NewWith
  <2>5. refs' \subseteq Pointers /\ IsFiniteSet(refs')
    <3>1. PICK f \in Taken(k) : refs' = refs \cup {Ptr(o, f, 1, v)}
      BY <1>2 DEF NewWith
    <3>2. Ptr(o, f, 1, v) \in Pointers
      BY TakenType, PtrType
    <3> QED BY <3>1, <3>2, <1>t, RefsType
  <2> QED BY <2>1, <2>3, <2>4, <2>5, <1>t, MadeType DEF TypeInv, TypeOK
<1>3. ASSUME NEW o \in Objects, Ref(o) PROVE TypeInv'
  BY <1>3, <1>t DEF TypeInv, TypeOK, LivePositive, Live, Ref
<1>4. ASSUME NEW o \in Objects, Unref(o) PROVE TypeInv'
  <2>1. Drop(o, <<>>) /\ <<>> \in Seq(Calls) BY <1>4 DEF Unref
  <2>2. mine' \in [Objects -> Nat] BY <1>4, <1>t DEF Unref, TypeOK
  <2> QED BY <1>4, <2>1, <2>2, <1>t, DropType DEF Unref, TypeInv, TypeOK
<1>5. ASSUME NEW o \in Objects, ToIks(o) PROVE TypeInv'
  BY <1>5, <1>t DEF ToIks, TypeInv, TypeOK, LivePositive, Live
<1>6. ASSUME NEW o \in Objects, NEW f \in Scalars, NEW v \in Objects \cup {None}, SetField(o, f, v)
      PROVE TypeInv'
  <2>1. Replaced(o, f, v) BY <1>6 DEF SetField
  <2>2. text' \in [Objects -> {"none", "set", "freed"}]
    <3>1. text \in [Objects -> {"none", "set", "freed"}] BY <1>t DEF TypeOK
    <3>2. text' = [text EXCEPT ![o] = "none"] \/ text' = text BY <1>6 DEF SetField
    <3> QED BY <3>1, <3>2
  <2> QED BY <1>6, <2>1, <2>2, <1>t, ReplacedType DEF SetField, TypeInv, TypeOK
<1>7. ASSUME NEW o \in Objects, NEW given \in BOOLEAN, SetContent(o, given) PROVE TypeInv'
  <2>1. text' \in [Objects -> {"none", "set", "freed"}]
    <3>1. text \in [Objects -> {"none", "set", "freed"}] BY <1>t DEF TypeOK
    <3>2. \E t \in {"set", "freed", text[o]} : text' = [text EXCEPT ![o] = t] BY <1>7 DEF SetContent
    <3> QED BY <3>1, <3>2
  <2>2. CASE Replaced(o, "src", None)
    BY <1>7, <2>1, <2>2, <1>t, ReplacedType DEF SetContent, TypeInv, TypeOK, Scalars
  <2>3. CASE UNCHANGED <<refs, count, life, stack, pending>> /\ fault' \in BOOLEAN
    BY <1>7, <2>1, <2>3, <1>t DEF SetContent, TypeInv, TypeOK, LivePositive, Live
  <2> QED BY <1>7, <2>2, <2>3, <1>t DEF SetContent, TypeOK
<1>8. ASSUME NEW o \in Objects, NEW v \in Objects, NEW f \in Lists, NEW n \in 1..MaxItems,
             Add(o, f, n, v)
      PROVE TypeInv'
  <2>1. refs' \subseteq Pointers /\ IsFiniteSet(refs')
    BY <1>8, <1>t, PtrType, RefsType DEF Add
  <2>2. count' \in [Objects -> Nat] /\ LivePositive' /\ fault' \in BOOLEAN
    BY <1>8, <1>t DEF Add, TypeInv, TypeOK, LivePositive, Live
  <2> QED BY <1>8, <2>1, <2>2, <1>t DEF Add, TypeInv, TypeOK
<1>9. ASSUME NEW o \in Objects, NEW f \in Lists, Del(o, f) PROVE TypeInv'
  <2>1. PICK p : p \in Pointers \/ refs = {}
    BY <1>t DEF TypeOK
  <2>2. fault' \in BOOLEAN /\ stack' \in Seq(Calls)
    <3>1. <<[obj |-> o, fields |-> {f}, frees |-> FALSE]>> \in Seq(Calls)
      BY DEF Calls
    <3>2. CASE DelSimple(o)
      BY <3>2, <1>t DEF DelSimple, TypeOK
    <3>3. CASE DelList(o, f)
      BY <3>1, <3>3 DEF DelList
    <3> QED BY <3>2, <3>3, <1>9 DEF Del
  <2>3. refs' \subseteq refs /\ refs' \subseteq Pointers /\ IsFiniteSet(refs')
    <3>1. refs' \subseteq refs
      BY <1>9 DEF Del, DelSimple, DelList
    <3> QED BY <3>1, <1>t, FS_Subset DEF TypeOK
  <2>4. text' \in [Objects -> {"none", "set", "freed"}]
    BY <1>9, <1>t DEF Del, DelSimple, DelList, TypeOK
  <2>5. bad' \subseteq Objects \X Lists
    BY <1>9, <1>t DEF Del, DelSimple, DelList, TypeOK
  <2> QED BY <1>9, <2>2, <2>3, <2>4, <2>5, <1>t DEF Del, TypeInv, TypeOK, LivePositive, Live
<1>10. CASE DropNext
  <2>1. PICK r \in Due : refs' = refs \ {r} /\ Drop(r.to, stack)
    BY <1>10 DEF DropNext
  <2>2. r \in Pointers /\ r.to \in Objects /\ stack \in Seq(Calls)
    BY <1>t DEF Due, TypeOK, Pointers
  <2>3. refs' \subseteq Pointers /\ IsFiniteSet(refs')
    BY <2>1, <2>2, <1>t, RefsType
  <2> QED BY <1>10, <2>1, <2>2, <2>3, <1>t, DropType DEF DropNext, TypeInv, TypeOK
<1>11. CASE Finish
  <2>1. stack' \in Seq(Calls) /\ Top \in Calls /\ Top.obj \in Objects
    BY <1>11, <1>t, CallersType DEF Finish, Calls
  <2>2. life' \in [Objects -> {"unused", "live", "dying", "freed"}] /\ LivePositive'
    BY <1>11, <2>1, <1>t DEF Finish, TypeInv, TypeOK, LivePositive, Live
  <2> QED BY <1>11, <2>1, <2>2, <1>t DEF Finish, TypeInv, TypeOK
<1>12. CASE Store
  <2>1. pending \in Pointers /\ pending.to \in Objects
    BY <1>12, <1>t DEF Store, TypeOK, Pointers
  <2>2. refs' \subseteq Pointers /\ IsFiniteSet(refs')
    BY <1>12, <2>1, <1>t, RefsType DEF Store, TypeOK
  <2>3. count' \in [Objects -> Nat] /\ LivePositive' /\ fault' \in BOOLEAN
    <3> USE DEF TypeInv, TypeOK, LivePositive, Live
    <3>1. CASE Live(pending.to)
      <4>1. /\ count' = [count EXCEPT ![pending.to] = count[pending.to] + 1]
            /\ life' = life /\ fault' = fault
        BY <1>12, <3>1 DEF Store
      <4> QED BY <4>1, <2>1, <1>t
    <3>2. CASE ~Live(pending.to)
      BY <1>12, <2>1, <1>t, <3>2 DEF Store
    <3> QED BY <3>1, <3>2
  <2> QED BY <1>12, <2>1, <2>2, <2>3, <1>t DEF Store, TypeInv, TypeOK
<1>13. CASE UNCHANGED vars
  BY <1>13, <1>t DEF vars, TypeInv, TypeOK, LivePositive, Live
<1> QED
  BY <1>1, <1>2, <1>3, <1>4, <1>5, <1>6, <1>7, <1>8, <1>9, <1>10, <1>11, <1>12, <1>13
  DEF Next, Step, Call

(* TypeOK, whatever callers misuse.                                         *)
THEOREM TypeCorrect == Spec => []TypeOK
<1>1. Spec => []TypeInv
  BY TypeInit, TypeNext, PTL DEF Spec
<1>2. TypeInv => TypeOK
  BY DEF TypeInv
<1> QED BY <1>1, <1>2, PTL

-----------------------------------------------------------------------------
(* What the safety theorems assume of callers: of the lists that leak they  *)
(* may use the links of entries, and they misuse nothing.                   *)
Careful == OpenLists \subseteq {<<"entry", "links">>} /\ Misuse = {}

(* How many pointers to an object there are once one is gone, or added.     *)
LEMMA ToFinite ==
  ASSUME TypeOK, NEW o
  PROVE  IsFiniteSet(To(o)) /\ Cardinality(To(o)) \in Nat
<1>1. IsFiniteSet(To(o)) BY FS_Subset DEF To, TypeOK
<1> QED BY <1>1, FS_CardinalityType

LEMMA ToDrop ==
  ASSUME TypeOK, NEW r \in refs, refs' = refs \ {r}, NEW o
  PROVE  /\ Cardinality(To(o)) \in Nat
         /\ r.to = o => Cardinality(To(o)) > 0
         /\ Cardinality(To(o)') = IF r.to = o THEN Cardinality(To(o)) - 1 ELSE Cardinality(To(o))
         /\ Cardinality(To(o)') = 0 => To(o)' = {}
<1>1. IsFiniteSet(To(o)) /\ Cardinality(To(o)) \in Nat
  BY ToFinite
<1>2. CASE r.to = o
  <2>1. r \in To(o) /\ To(o)' = To(o) \ {r}
    BY <1>2 DEF To
  <2>2. IsFiniteSet(To(o)') /\ Cardinality(To(o)') = Cardinality(To(o)) - 1
    BY <1>1, <2>1, FS_RemoveElement
  <2>3. Cardinality(To(o)) # 0
    BY <1>1, <2>1, FS_EmptySet
  <2> QED BY <1>1, <1>2, <2>2, <2>3, FS_EmptySet
<1>3. CASE r.to # o
  <2>1. To(o)' = To(o)
    BY <1>3 DEF To
  <2> QED BY <1>1, <1>3, <2>1, FS_EmptySet
<1> QED BY <1>2, <1>3

LEMMA ToAdd ==
  ASSUME TypeOK, NEW r, r \notin refs, refs' = refs \cup {r}, NEW o
  PROVE  /\ Cardinality(To(o)) \in Nat
         /\ Cardinality(To(o)') = IF r.to = o THEN Cardinality(To(o)) + 1 ELSE Cardinality(To(o))
<1>1. IsFiniteSet(To(o)) /\ Cardinality(To(o)) \in Nat
  BY ToFinite
<1>2. CASE r.to = o
  <2>1. r \notin To(o) /\ To(o)' = To(o) \cup {r}
    BY <1>2 DEF To
  <2> QED BY <1>1, <1>2, <2>1, FS_AddElement
<1>3. CASE r.to # o
  <2>1. To(o)' = To(o)
    BY <1>3 DEF To
  <2> QED BY <1>1, <1>3, <2>1
<1> QED BY <1>2, <1>3

LEMMA RankOfNat == TypeOK => \A o \in Objects : RankOf(o) \in Nat
BY RankBounds DEF TypeOK, RankOf

(* What an object holds has a lower rank.                                   *)
LEMMA PtrDescends ==
  ASSUME TypeOK, NEW r \in Pointers, PtrTyped(r)
  PROVE  RankOf(r.to) < RankOf(r.by) /\ r.to # r.by
<1>1. kind[r.by] \in Kinds /\ RankOf(r.by) \in Nat /\ RankOf(r.to) \in Nat
  BY RankOfNat DEF TypeOK, Pointers
<1>2. RankOf(r.to) < RankOf(r.by)
  BY <1>1, FieldFacts DEF PtrTyped, RankOf
<1> QED BY <1>1, <1>2

(* Dropping one of the references to an object, below every call in         *)
(* progress, keeps all but what concerns the value a setter has pending.    *)
LEMMA DropKeeps ==
  ASSUME TypeInv, IInv, NEW v \in Objects, Live(v), Drop(v, stack), kind' = kind,
         stack # <<>> => RankOf(v) < RankOf(Top.obj),
         \/ \E r \in refs : r.to = v /\ refs' = refs \ {r} /\ mine' = mine
         \/ refs' = refs /\ mine[v] > 0 /\ mine' = [mine EXCEPT ![v] = @ - 1]
  PROVE  /\ NoFault' /\ RefsTyped' /\ RefsLive' /\ Counted' /\ StackOrdered' /\ DyingOnStack'
         /\ \A o \in Objects : life'[o] # life[o] => o = v /\ count[v] = 1
         /\ \A i \in DOMAIN stack' : \/ i \in DOMAIN stack /\ stack'[i] = stack[i]
                                    \/ stack'[i].obj = v
<1> DEFINE c == [obj |-> v, fields |-> Dropped(kind[v]), frees |-> TRUE]
<1>t. /\ count \in [Objects -> Nat] /\ mine \in [Objects -> Nat] /\ stack \in Seq(Calls)
      /\ life \in [Objects -> {"unused", "live", "dying", "freed"}]
      /\ refs \subseteq Pointers /\ kind \in [Objects -> Kinds] /\ TypeOK
  BY DEF TypeInv, TypeOK
<1>r. refs' \subseteq refs
  OBVIOUS
<1>d. /\ fault' = fault /\ count' = [count EXCEPT ![v] = count[v] - 1]
      /\ count[v] # 1 => life' = life /\ stack' = stack
      /\ count[v] = 1 => life' = [life EXCEPT ![v] = "dying"] /\ stack' = Append(stack, c)
  BY DEF Drop
<1>n. \A o \in Objects : Cardinality(To(o)) \in Nat
  BY <1>t, ToFinite
<1>1. \A o \in Objects :
        /\ mine'[o] \in Nat /\ Cardinality(To(o)') \in Nat
        /\ mine'[o] + Cardinality(To(o)')
           = mine[o] + Cardinality(To(o)) - (IF o = v THEN 1 ELSE 0)
        /\ Cardinality(To(o)') = 0 => To(o)' = {}
        /\ o # v => mine'[o] = mine[o]
  <2> TAKE o \in Objects
  <2>1. CASE \E r \in refs : r.to = v /\ refs' = refs \ {r} /\ mine' = mine
    BY <2>1, <1>t, <1>n, ToDrop
  <2>2. CASE refs' = refs /\ mine[v] > 0 /\ mine' = [mine EXCEPT ![v] = @ - 1]
    <3>1. To(o)' = To(o)
      BY <2>2 DEF To
    <3>2. Cardinality(To(o)') = Cardinality(To(o)) /\ (Cardinality(To(o)') = 0 => To(o)' = {})
      BY <3>1, <1>t, ToFinite, FS_EmptySet
    <3>3. mine[o] \in Nat /\ mine[v] \in Nat /\ mine'[o] = mine[o] - (IF o = v THEN 1 ELSE 0)
      BY <2>2, <1>t
    <3>4. Cardinality(To(o)) \in Nat
      BY <1>n
    <3> HIDE DEF c
    <3> QED BY <2>2, <3>2, <3>3, <3>4
  <2> QED BY <2>1, <2>2
<1>2. /\ count[v] = mine[v] + Cardinality(To(v)) /\ count[v] > 0
      /\ count[v] = 1 => mine'[v] = 0 /\ To(v)' = {}
  <2>1. count[v] = mine[v] + Cardinality(To(v)) /\ count[v] > 0
    BY DEF IInv, Counted, CountsExact, Live
  <2> QED BY <2>1, <1>1, <1>n, <1>t
<1>3. NoFault' /\ RefsTyped'
  BY <1>d, <1>r DEF IInv, NoFault, RefsTyped, PtrTyped
<1>4. RefsLive'
  <2> SUFFICES ASSUME NEW r \in refs' PROVE life'[r.by] # "unused" /\ life'[r.to] = "live"
    BY DEF RefsLive, Live
  <2>1. life[r.by] # "unused" /\ life[r.to] = "live" /\ r.by \in Objects /\ r.to \in Objects
    BY <1>r, <1>t DEF IInv, RefsLive, Live, Pointers
  <2>2. CASE count[v] = 1
    <3>1. r.to # v
      BY <2>2, <1>2 DEF To
    <3> QED BY <2>1, <2>2, <3>1, <1>d, <1>t
  <2> QED BY <2>1, <2>2, <1>d
<1>5. Counted'
  <2> SUFFICES ASSUME NEW o \in Objects
               PROVE  /\ life'[o] \in {"live", "dying"} => count'[o] = mine'[o] + Cardinality(To(o)')
                      /\ life'[o] = "live" <=> count'[o] > 0
                      /\ life'[o] # "live" => mine'[o] = 0
    BY DEF Counted, CountsExact, Live
  <2>1. /\ life[o] \in {"live", "dying"} => count[o] = mine[o] + Cardinality(To(o))
        /\ life[o] = "live" <=> count[o] > 0
        /\ life[o] # "live" => mine[o] = 0
    BY DEF IInv, Counted, CountsExact, Live
  <2>2. CASE o # v
    BY <2>1, <2>2, <1>1, <1>d, <1>n, <1>t
  <2>3. CASE o = v
    <3>1. count'[v] = count[v] - 1 /\ count'[v] = mine'[v] + Cardinality(To(v)')
      BY <1>1, <1>2, <1>d, <1>n, <1>t
    <3>2. life[v] = "live"
      BY DEF Live
    <3> QED BY <2>3, <3>1, <3>2, <1>2, <1>d, <1>t
  <2> QED BY <2>2, <2>3
<1>s. /\ Len(stack) \in Nat /\ DOMAIN stack = 1..Len(stack)
      /\ \A i \in DOMAIN stack : stack[i] \in Calls
  BY <1>t, ElementOfSeq
<1>6. CASE count[v] # 1
  BY <1>3, <1>4, <1>5, <1>6, <1>d DEF IInv, StackOrdered, DyingOnStack, RankOf, Live
<1>7. CASE count[v] = 1
  <2>1. /\ c \in Calls /\ DOMAIN stack' = 1..(Len(stack) + 1)
        /\ stack'[Len(stack) + 1] = c
        /\ \A i \in DOMAIN stack : stack'[i] = stack[i]
    <3>1. c \in Calls
      BY <1>t, NewCallType
    <3> HIDE DEF c
    <3>2. stack' = Append(stack, c)
      BY <1>7, <1>d
    <3> QED BY <3>1, <3>2, <1>t, <1>s, AppendProperties
  <2>2. \A i \in DOMAIN stack : RankOf(v) < RankOf(stack[i].obj) /\ stack[i].obj # v
    <3> SUFFICES ASSUME NEW i \in DOMAIN stack PROVE RankOf(v) < RankOf(stack[i].obj)
      BY <1>t, RankOfNat
    <3>1. stack # <<>> /\ Top = stack[Len(stack)] /\ Len(stack) \in DOMAIN stack
      BY <1>s, <1>t, EmptySeq DEF Top
    <3>2. i # Len(stack) => RankOf(stack[Len(stack)].obj) < RankOf(stack[i].obj)
      BY <3>1, <1>s DEF IInv, StackOrdered
    <3>3. stack[i].obj \in Objects /\ stack[Len(stack)].obj \in Objects
      BY <3>1, <1>s DEF Calls
    <3> QED BY <3>1, <3>2, <3>3, <1>t, RankOfNat
  <2>3. StackOrdered'
    <3>1. \A i \in DOMAIN stack' : i \in DOMAIN stack \/ stack'[i] = c
      BY <2>1, <1>s
    <3>2. \A i, j \in DOMAIN stack' : i < j => RankOf(stack'[j].obj) < RankOf(stack'[i].obj)
      <4> SUFFICES ASSUME NEW i \in DOMAIN stack', NEW j \in DOMAIN stack', i < j
                   PROVE  RankOf(stack'[j].obj) < RankOf(stack'[i].obj)
        OBVIOUS
      <4>1. i \in DOMAIN stack /\ stack'[i] = stack[i]
        BY <2>1, <1>s
      <4>2. CASE j \in DOMAIN stack
        BY <4>1, <4>2, <2>1 DEF IInv, StackOrdered
      <4>3. CASE j \notin DOMAIN stack
        BY <4>1, <4>3, <3>1, <2>2
      <4> QED BY <4>2, <4>3
    <3>3. ASSUME NEW i \in DOMAIN stack'
          PROVE  IF stack'[i].frees
                 THEN life'[stack'[i].obj] = "dying" /\ stack'[i].fields = Dropped(kind[stack'[i].obj])
                 ELSE i = 1 /\ life'[stack'[i].obj] = "live"
      <4>1. CASE i \in DOMAIN stack
        <5>1. stack'[i] = stack[i] /\ stack[i].obj # v
          BY <4>1, <2>1, <2>2
        <5>2. life'[stack[i].obj] = life[stack[i].obj]
          BY <4>1, <5>1, <1>d, <1>s, <1>t DEF Calls
        <5> QED BY <4>1, <5>1, <5>2 DEF IInv, StackOrdered, Live
      <4>2. CASE stack'[i] = c
        BY <4>2, <1>7, <1>d, <1>t
      <4> QED BY <4>1, <4>2, <3>1
    <3>4. \A o : RankOf(o)' = RankOf(o)
      BY DEF RankOf
    <3> HIDE DEF c
    <3> QED BY <3>2, <3>3, <3>4 DEF StackOrdered, Live, RankOf
  <2>4. DyingOnStack'
    <3> SUFFICES ASSUME NEW o \in Objects, life'[o] = "dying"
                 PROVE  \E i \in DOMAIN stack' : stack'[i].obj = o /\ stack'[i].frees
      BY DEF DyingOnStack
    <3>1. CASE o = v
      BY <3>1, <2>1, <1>s
    <3>2. CASE o # v
      <4>1. life[o] = "dying"
        BY <3>2, <1>7, <1>d, <1>t
      <4>2. PICK i \in DOMAIN stack : stack[i].obj = o /\ stack[i].frees
        BY <4>1 DEF IInv, DyingOnStack
      <4> QED BY <4>2, <2>1, <1>s
    <3> QED BY <3>1, <3>2
  <2>5. \A o \in Objects : life'[o] # life[o] => o = v /\ count[v] = 1
    BY <1>7, <1>d, <1>t
  <2>6. \A i \in DOMAIN stack' : \/ i \in DOMAIN stack /\ stack'[i] = stack[i]
                                 \/ stack'[i].obj = v
    BY <2>1, <1>s
  <2> QED BY <1>3, <1>4, <1>5, <2>3, <2>4, <2>5, <2>6
<1> QED BY <1>6, <1>7

-----------------------------------------------------------------------------
(* Careful callers use no uninitialised list, and no del function but the   *)
(* one that drops what it empties.                                          *)
LEMMA CarefulLists ==
  ASSUME Careful
  PROVE  /\ \A k : Uninitialised(k) = {}
         /\ ~Open("entry", "ext_elements")
         /\ Misuse = {}
<1>1. \A k : Uninitialised(k) = {}
  BY DEF Careful, Uninitialised
<1>2. ~Open("entry", "ext_elements")
  BY DEF Careful, Open, UnsoundLists
<1> QED BY <1>1, <1>2 DEF Careful

LEMMA ScalarsNoLists == Scalars \cap Lists = {}
BY DEF Scalars, Lists

LEMMA IInvInit == Init => IInv
<1> SUFFICES ASSUME Init PROVE IInv
  OBVIOUS
<1>1. \A o : To(o) = {}
  BY DEF Init, To
<1>2. Counted
  BY <1>1, FS_EmptySet DEF Init, Counted, CountsExact, Live
<1>3. StackOrdered
  BY DEF Init, StackOrdered
<1>4. NoFault /\ RefsTyped /\ RefsLive /\ DyingOnStack /\ PendingSafe
  BY DEF Init, NoFault, RefsTyped, RefsLive, DyingOnStack, PendingSafe
<1>5. TextsSound
  BY DEF Init, TextsSound
<1> QED BY <1>2, <1>3, <1>4, <1>5 DEF IInv

(* Nothing dies while no call is in progress, and none comes into progress  *)
(* in an action that changes neither the stack nor what is pending.         *)
LEMMA QuietKeeps ==
  ASSUME IInv, Idle, UNCHANGED <<stack, pending>>, ~fault',
         \A o \in Objects : life'[o] = "dying" => life[o] = "dying"
  PROVE  /\ NoFault' /\ StackOrdered' /\ DyingOnStack' /\ PendingSafe'
         /\ \A o \in Objects : life[o] # "dying"
<1>1. \A o \in Objects : life[o] # "dying"
  BY DEF IInv, DyingOnStack, Idle
<1>2. stack' = <<>> /\ pending' = None
  BY DEF Idle
<1>3. StackOrdered'
  BY <1>2 DEF StackOrdered
<1> QED BY <1>1, <1>2, <1>3 DEF NoFault, DyingOnStack, PendingSafe

(* A new object is nobody's yet.                                            *)
LEMMA MadeKeeps ==
  ASSUME Careful, TypeInv, IInv, NEW o \in Objects, NEW k \in Kinds, Made(o, k)
  PROVE  /\ NoFault' /\ StackOrdered' /\ DyingOnStack' /\ PendingSafe' /\ TextsSound'
         /\ \A r \in refs : r.by # o /\ r.to # o
         /\ kind' = [kind EXCEPT ![o] = k] /\ life' = [life EXCEPT ![o] = "live"]
         /\ \A u \in Objects : life[u] # "dying"
<1>t. TypeOK
  BY DEF TypeInv
<1>1. /\ kind' = [kind EXCEPT ![o] = k] /\ life' = [life EXCEPT ![o] = "live"]
      /\ Idle /\ life[o] = "unused" /\ ~fault'
  BY DEF Made, Idle
<1>2. TextsSound'
  <2>1. bad' = {}
    BY CarefulLists DEF Made, IInv, TextsSound
  <2>2. text' = [text EXCEPT ![o] = "set"] \/ text' = [text EXCEPT ![o] = "none"]
    BY DEF Made
  <2> QED BY <2>1, <2>2, <1>t DEF IInv, TextsSound, TypeOK
<1>3. \A r \in refs : r.by # o /\ r.to # o
  BY <1>1 DEF IInv, RefsLive, Live
<1>4. \A u \in Objects : life'[u] = "dying" => life[u] = "dying"
  BY <1>1, <1>t DEF TypeOK
<1> QED BY <1>1, <1>2, <1>3, <1>4, QuietKeeps DEF Made

LEMMA NewKeeps ==
  ASSUME Careful, TypeInv, IInv, NEW o \in Objects, NEW k \in Kinds, New(o, k)
  PROVE  IInv'
<1>t. TypeOK
  BY DEF TypeInv
<1>1. /\ Made(o, k) /\ refs' = refs
      /\ count' = [count EXCEPT ![o] = 1] /\ mine' = [mine EXCEPT ![o] = 1]
  BY DEF New
<1>2. /\ \A r \in refs : r.by # o /\ r.to # o
      /\ kind' = [kind EXCEPT ![o] = k] /\ life' = [life EXCEPT ![o] = "live"]
  BY <1>1, MadeKeeps
<1>3. \A u \in Objects \ {o} : /\ kind'[u] = kind[u] /\ life'[u] = life[u]
                               /\ count'[u] = count[u] /\ mine'[u] = mine[u]
  BY <1>1, <1>2, <1>t DEF TypeOK
<1>4. \A r \in refs : r.by \in Objects \ {o} /\ r.to \in Objects \ {o}
  BY <1>2, <1>t DEF TypeOK, Pointers
<1>5. RefsTyped' /\ RefsLive'
  BY <1>1, <1>3, <1>4 DEF IInv, RefsTyped, RefsLive, PtrTyped, Live
<1>6. Counted'
  <2>1. \A u : To(u)' = To(u)
    BY <1>1 DEF To
  <2>2. Cardinality(To(o)') = 0
    <3>1. To(o)' = {}
      BY <1>1, <1>2 DEF To
    <3> QED BY <3>1, FS_EmptySet
  <2>3. count'[o] = 1 /\ mine'[o] = 1 /\ life'[o] = "live"
    BY <1>1, <1>2, <1>t DEF TypeOK
  <2> QED BY <1>3, <2>1, <2>2, <2>3 DEF IInv, Counted, CountsExact, Live
<1> QED BY <1>1, <1>5, <1>6, MadeKeeps DEF IInv

LEMMA NewWithKeeps ==
  ASSUME Careful, TypeInv, IInv, NEW o \in Objects, NEW k \in Kinds, NEW v \in Objects,
         NewWith(o, k, v)
  PROVE  IInv'
<1>t. TypeOK
  BY DEF TypeInv
<1>1. Made(o, k) /\ life[v] = "live" /\ mine[v] > 0 /\ life[o] = "unused"
  BY DEF NewWith, Made, Live
<1>2. /\ \A r \in refs : r.by # o /\ r.to # o
      /\ kind' = [kind EXCEPT ![o] = k] /\ life' = [life EXCEPT ![o] = "live"]
  BY <1>1, MadeKeeps
<1>3. PICK f \in Taken(k) : kind[v] = Fields(k)[f] /\ refs' = refs \cup {Ptr(o, f, 1, v)}
  BY DEF NewWith
<1> DEFINE p == Ptr(o, f, 1, v)
<1>4. p \notin refs /\ p.by = o /\ p.to = v /\ p.at = f /\ p.n = 1 /\ v # o
  BY <1>1, <1>2 DEF Ptr
<1>p. refs' = refs \cup {p}
  BY <1>3
<1> HIDE DEF p
<1>5. /\ \A u \in Objects \ {o} : kind'[u] = kind[u] /\ life'[u] = life[u]
      /\ kind'[o] = k /\ life'[o] = "live"
  BY <1>2, <1>t DEF TypeOK
<1>6. \A r \in refs : r.by \in Objects \ {o} /\ r.to \in Objects \ {o}
  BY <1>2, <1>t DEF TypeOK, Pointers
<1>7. RefsTyped'
  <2>1. PtrTyped(p)'
    BY <1>3, <1>4, <1>5, TakenType DEF PtrTyped
  <2>2. \A r \in refs : PtrTyped(r)'
    BY <1>5, <1>6 DEF IInv, RefsTyped, PtrTyped
  <2> QED BY <2>1, <2>2, <1>p, <1>2, <1>4 DEF IInv, RefsTyped
<1>8. RefsLive'
  BY <1>p, <1>1, <1>4, <1>5, <1>6 DEF IInv, RefsLive, Live
<1>9. Counted'
  <2> SUFFICES ASSUME NEW u \in Objects
               PROVE  /\ life'[u] \in {"live", "dying"} => count'[u] = mine'[u] + Cardinality(To(u)')
                      /\ life'[u] = "live" <=> count'[u] > 0
                      /\ life'[u] # "live" => mine'[u] = 0
    BY DEF Counted, CountsExact, Live
  <2>1. /\ Cardinality(To(u)) \in Nat /\ count[u] \in Nat /\ mine[u] \in Nat
        /\ Cardinality(To(u)') = IF v = u THEN Cardinality(To(u)) + 1 ELSE Cardinality(To(u))
    BY <1>p, <1>4, <1>t, ToAdd DEF TypeOK
  <2>2. /\ life[u] \in {"live", "dying"} => count[u] = mine[u] + Cardinality(To(u))
        /\ life[u] = "live" <=> count[u] > 0
        /\ life[u] # "live" => mine[u] = 0
    BY DEF IInv, Counted, CountsExact, Live
  <2>3. CASE u = o
    <3>1. To(o) = {}
      BY <1>2 DEF To
    <3>2. count'[o] = 1 /\ mine'[o] = 1
      BY <1>4, <1>t DEF NewWith, TypeOK
    <3> QED BY <2>1, <2>3, <3>1, <3>2, <1>4, <1>5, FS_EmptySet
  <2>4. CASE u = v
    <3>1. count'[v] - mine'[v] = count[v] - mine[v] + 1 /\ count'[v] >= count[v]
      <4>1. CASE k = "link"
        <5>1. count' = [count EXCEPT ![o] = 1, ![v] = @] /\ mine' = [mine EXCEPT ![o] = 1, ![v] = @ - 1]
          BY <4>1 DEF NewWith
        <5> QED BY <5>1, <2>1, <2>4, <1>4, <1>t DEF TypeOK
      <4>2. CASE k # "link"
        <5>1. count' = [count EXCEPT ![o] = 1, ![v] = @ + 1] /\ mine' = [mine EXCEPT ![o] = 1, ![v] = @]
          BY <4>2 DEF NewWith
        <5>2. count'[v] = count[v] + 1
          BY <5>1, <1>4, <1>t DEF TypeOK
        <5>3. mine'[v] = mine[v]
          BY <5>1, <1>4, <1>t DEF TypeOK
        <5> QED BY <5>2, <5>3, <2>1, <2>4
      <4> QED BY <4>1, <4>2
    <3>2. count'[v] \in Nat /\ mine'[v] \in Nat
      BY TypeNext DEF Next, Call, TypeInv, TypeOK
    <3> QED BY <3>1, <3>2, <2>1, <2>2, <2>4, <1>1, <1>4, <1>5
  <2>5. CASE u # o /\ u # v
    <3>1. count'[u] = count[u] /\ mine'[u] = mine[u]
      BY <2>5, <1>t DEF NewWith, TypeOK
    <3> QED BY <3>1, <2>1, <2>2, <2>5, <1>5
  <2> QED BY <2>3, <2>4, <2>5
<1> QED BY <1>1, <1>7, <1>8, <1>9, MadeKeeps DEF IInv

LEMMA RefKeeps ==
  ASSUME TypeInv, IInv, NEW o \in Objects, Ref(o)
  PROVE  IInv'
<1>t. TypeOK
  BY DEF TypeInv
<1>1. Idle /\ life[o] = "live" /\ UNCHANGED <<kind, life, refs, text, bad, stack, pending, fault>>
  BY DEF Ref, Live
<1>2. RefsTyped' /\ RefsLive' /\ TextsSound'
  BY <1>1 DEF IInv, RefsTyped, RefsLive, TextsSound, PtrTyped, Live
<1>3. Counted'
  <2> SUFFICES ASSUME NEW u \in Objects
               PROVE  /\ life[u] \in {"live", "dying"} => count'[u] = mine'[u] + Cardinality(To(u))
                      /\ life[u] = "live" <=> count'[u] > 0
                      /\ life[u] # "live" => mine'[u] = 0
    BY <1>1 DEF Counted, CountsExact, Live, To
  <2>1. Cardinality(To(u)) \in Nat /\ count[u] \in Nat /\ mine[u] \in Nat
    BY <1>t, ToFinite DEF TypeOK
  <2>2. /\ life[u] \in {"live", "dying"} => count[u] = mine[u] + Cardinality(To(u))
        /\ life[u] = "live" <=> count[u] > 0
        /\ life[u] # "live" => mine[u] = 0
    BY DEF IInv, Counted, CountsExact, Live
  <2>3. IF u = o THEN count'[u] = count[u] + 1 /\ mine'[u] = mine[u] + 1
                 ELSE count'[u] = count[u] /\ mine'[u] = mine[u]
    BY <1>t DEF Ref, TypeOK
  <2> QED BY <2>1, <2>2, <2>3, <1>1
<1>4. ~fault'
  BY <1>1 DEF Idle
<1> QED BY <1>1, <1>2, <1>3, <1>4, QuietKeeps DEF IInv

LEMMA UnrefKeeps ==
  ASSUME TypeInv, IInv, NEW o \in Objects, Unref(o)
  PROVE  IInv'
<1>t. TypeOK
  BY DEF TypeInv
<1>1. /\ stack = <<>> /\ pending = None /\ mine[o] > 0 /\ mine' = [mine EXCEPT ![o] = @ - 1]
      /\ Drop(o, stack) /\ UNCHANGED <<kind, refs, text, bad, pending>>
  BY DEF Unref, Idle
<1>2. Live(o)
  <2>1. mine[o] \in Nat \ {0}
    BY <1>1, <1>t DEF TypeOK
  <2> QED BY <2>1 DEF IInv, Counted
<1>3. NoFault' /\ RefsTyped' /\ RefsLive' /\ Counted' /\ StackOrdered' /\ DyingOnStack'
  BY <1>1, <1>2, DropKeeps
<1>4. PendingSafe' /\ TextsSound'
  BY <1>1 DEF PendingSafe, IInv, TextsSound
<1> QED BY <1>3, <1>4 DEF IInv

LEMMA ToIksKeeps ==
  ASSUME Careful, TypeInv, IInv, NEW o \in Objects, ToIks(o)
  PROVE  IInv'
<1>t. TypeOK
  BY DEF TypeInv
<1>1. Idle /\ Live(o) /\ UNCHANGED <<kind, life, count, mine, refs, text, bad, stack, pending>>
  BY DEF ToIks
<1>2. \A S : \A v \in Parts(S) : v \in Objects /\ Live(v)
  BY <1>t DEF Parts, IInv, RefsLive, TypeOK, Pointers
<1>3. \A v \in Shown(o) : v \in Objects /\ Live(v)
  BY <1>1, <1>2 DEF Shown
<1>4. \A v \in Shown(o) : ~Unreadable(v)
  BY <1>3 DEF Unreadable, IInv, TextsSound
<1>5. ~HoldsNull(o)
  BY CarefulLists DEF ToIks
<1>6. ~fault'
  BY <1>4, <1>5 DEF ToIks
<1>7. RefsTyped' /\ RefsLive' /\ TextsSound' /\ Counted'
  BY <1>1 DEF IInv, RefsTyped, RefsLive, TextsSound, PtrTyped, Live, Counted, CountsExact, To
<1> QED BY <1>1, <1>6, <1>7, QuietKeeps DEF IInv

(* A setter drops the old value, and what it is about to store survives     *)
(* that: it has the type of the old one, which nothing it held has.         *)
LEMMA ReplacedKeeps ==
  ASSUME Careful, TypeInv, IInv, NEW o \in Objects, NEW f \in Scalars,
         NEW v \in Objects \cup {None},
         Idle, Live(o), f \in DOMAIN Fields(kind[o]), v # None => Fits(o, f, v),
         Replaced(o, f, v), kind' = kind, mine' = mine
  PROVE  /\ NoFault' /\ RefsTyped' /\ RefsLive' /\ Counted' /\ StackOrdered' /\ DyingOnStack'
         /\ PendingSafe'
<1>t. TypeOK
  BY DEF TypeInv
<1> DEFINE p == Ptr(o, f, 1, v)
<1>p. p.by = o /\ p.at = f /\ p.n = 1 /\ p.to = v
  BY DEF Ptr
<1>f. f \notin Lists
  BY ScalarsNoLists
<1>1. stack = <<>> /\ pending = None /\ pending' = (IF v = None THEN None ELSE p)
  BY DEF Idle, Replaced
<1>v. v # None => /\ v \in Objects /\ Live(v) /\ kind[v] = Fields(kind[o])[f]
                  /\ p \in refs => count[v] > 1
  BY CarefulLists DEF Fits
<1> HIDE DEF p
<1>2. CASE UNCHANGED <<refs, count, life, stack, fault>> /\ Held(o, f) = {}
  <2>1. \A r \in refs : ~(r.by = o /\ r.at = f)
    BY <1>2 DEF Held
  <2>2. PendingSafe'
    BY <2>1, <1>1, <1>2, <1>p, <1>v, <1>f DEF PendingSafe, PtrTyped, Live
  <2>3. RefsTyped' /\ RefsLive' /\ Counted' /\ DyingOnStack' /\ NoFault'
    BY <1>2 DEF IInv, RefsTyped, RefsLive, PtrTyped, Live, Counted, CountsExact, To, DyingOnStack, NoFault
  <2>4. StackOrdered'
    BY <1>1, <1>2 DEF StackOrdered
  <2> QED BY <2>2, <2>3, <2>4
<1>3. ASSUME NEW r \in Held(o, f), refs' = refs \ {r}, Drop(r.to, <<>>)
      PROVE  /\ NoFault' /\ RefsTyped' /\ RefsLive' /\ Counted' /\ StackOrdered' /\ DyingOnStack'
             /\ PendingSafe'
  <2>1. /\ r \in refs /\ r.by = o /\ r.at = f /\ r \in Pointers /\ r.to \in Objects /\ Live(r.to)
        /\ r.n = 1 /\ kind[r.to] = Fields(kind[o])[f] /\ PtrTyped(r)
    BY <1>f, <1>t DEF Held, TypeOK, Pointers, IInv, RefsLive, RefsTyped, PtrTyped
  <2>2. /\ NoFault' /\ RefsTyped' /\ RefsLive' /\ Counted' /\ StackOrdered' /\ DyingOnStack'
        /\ \A u \in Objects : life'[u] # life[u] => u = r.to /\ count[r.to] = 1
        /\ \A i \in DOMAIN stack' : stack'[i].obj = r.to
    <3>1. Drop(r.to, stack) /\ DOMAIN stack = {}
      BY <1>1, <1>3, EmptySeq
    <3> QED BY <1>1, <1>3, <2>1, <3>1, DropKeeps
  <2>3. PendingSafe'
    <3> SUFFICES ASSUME v # None
                 PROVE  /\ life'[o] = "live" /\ life'[v] = "live" /\ PtrTyped(p)'
                        /\ \A q \in refs' : ~(q.by = o /\ q.at = f)
                        /\ \A i \in DOMAIN stack' : Rank(kind[stack'[i].obj]) <= Rank(kind[v])
      BY <1>1, <1>p DEF PendingSafe, Live, RankOf
    <3>1. life'[o] = "live"
      BY <2>1, <2>2, <1>t, PtrDescends DEF Live
    <3>2. life'[v] = "live"
      <4>1. CASE v # r.to
        BY <4>1, <2>2, <1>v DEF Live
      <4>2. CASE v = r.to
        <5>1. r = p
          BY <4>2, <2>1, <1>p DEF p, Ptr, Pointers
        <5> QED BY <5>1, <4>2, <2>1, <2>2, <1>v DEF Live
      <4> QED BY <4>1, <4>2
    <3>3. PtrTyped(p)'
      BY <1>p, <1>v, <1>f DEF PtrTyped
    <3>4. \A q \in refs' : ~(q.by = o /\ q.at = f)
      BY <1>3, <1>f, <2>1 DEF IInv, RefsTyped
    <3>5. \A i \in DOMAIN stack' : Rank(kind[stack'[i].obj]) <= Rank(kind[v])
      <4>1. kind[r.to] = kind[v] /\ Rank(kind[v]) \in Nat
        BY <2>1, <1>v, <1>t, RankOfNat DEF RankOf
      <4> QED BY <4>1, <2>2
    <3> QED BY <3>1, <3>2, <3>3, <3>4, <3>5
  <2> QED BY <2>2, <2>3
<1> QED BY <1>2, <1>3 DEF Replaced

LEMMA SetKeeps ==
  ASSUME Careful, TypeInv, IInv, NEW o \in Objects,
         \/ \E f \in Scalars, v \in Objects \cup {None} : SetField(o, f, v)
         \/ \E given \in BOOLEAN : SetContent(o, given)
  PROVE  IInv'
<1>t. TypeOK
  BY DEF TypeInv
<1>1. ASSUME NEW f \in Scalars, NEW v \in Objects \cup {None}, SetField(o, f, v)
      PROVE  IInv'
  <2>1. /\ NoFault' /\ RefsTyped' /\ RefsLive' /\ Counted' /\ StackOrdered' /\ DyingOnStack'
        /\ PendingSafe'
    BY <1>1, ReplacedKeeps DEF SetField
  <2>2. TextsSound'
    <3>1. text' = [text EXCEPT ![o] = "none"] \/ text' = text
      BY <1>1 DEF SetField
    <3> QED BY <1>1, <3>1, <1>t DEF SetField, IInv, TextsSound, TypeOK
  <2> QED BY <2>1, <2>2 DEF IInv
<1>2. ASSUME NEW given \in BOOLEAN, SetContent(o, given)
      PROVE  IInv'
  <2>1. given /\ text[o] # "freed" /\ "src" \in Scalars
    BY <1>2, CarefulLists DEF SetContent, IInv, TextsSound, Scalars
  <2>2. TextsSound'
    <3>1. text' = [text EXCEPT ![o] = "set"]
      BY <1>2, <2>1 DEF SetContent
    <3> QED BY <1>2, <3>1, <1>t DEF SetContent, IInv, TextsSound, TypeOK
  <2>3. "src" \in DOMAIN Fields(kind[o])
    BY <1>2 DEF SetContent, Fields, FieldTable, Content
  <2>4. /\ NoFault' /\ RefsTyped' /\ RefsLive' /\ Counted' /\ StackOrdered' /\ DyingOnStack'
        /\ PendingSafe'
    <3>1. Idle /\ Live(o) /\ kind' = kind /\ mine' = mine
      BY <1>2 DEF SetContent
    <3>2. CASE Replaced(o, "src", None)
      BY <2>1, <2>3, <3>1, <3>2, ReplacedKeeps
    <3>3. CASE UNCHANGED <<refs, count, life, stack, pending, fault>>
      BY <3>1, <3>3 DEF IInv, RefsTyped, RefsLive, PtrTyped, Live, Counted, CountsExact, To,
         DyingOnStack, NoFault, StackOrdered, PendingSafe, RankOf
    <3> QED BY <1>2, <2>1, <3>2, <3>3 DEF SetContent
  <2> QED BY <2>2, <2>4 DEF IInv
<1> QED BY <1>1, <1>2

(* One more pointer to a live object, counted.                              *)
LEMMA PointKeeps ==
  ASSUME TypeOK, IInv, NEW r \in Pointers, r \notin refs, refs' = refs \cup {r},
         Live(r.by), Live(r.to), PtrTyped(r),
         r.at \notin Lists => \A q \in refs : ~(q.by = r.by /\ q.at = r.at),
         count' = [count EXCEPT ![r.to] = @ + 1], UNCHANGED <<kind, life, mine>>
  PROVE  RefsTyped' /\ RefsLive' /\ Counted'
<1>1. RefsTyped'
  BY DEF IInv, RefsTyped, PtrTyped
<1>2. RefsLive'
  BY DEF IInv, RefsLive, Live
<1>3. Counted'
  <2> SUFFICES ASSUME NEW u \in Objects
               PROVE  /\ life[u] \in {"live", "dying"} => count'[u] = mine[u] + Cardinality(To(u)')
                      /\ life[u] = "live" <=> count'[u] > 0
                      /\ life[u] # "live" => mine[u] = 0
    BY DEF Counted, CountsExact, Live
  <2>1. /\ Cardinality(To(u)) \in Nat /\ count[u] \in Nat /\ mine[u] \in Nat
        /\ Cardinality(To(u)') = IF r.to = u THEN Cardinality(To(u)) + 1 ELSE Cardinality(To(u))
    BY ToAdd DEF TypeOK
  <2>2. /\ life[u] \in {"live", "dying"} => count[u] = mine[u] + Cardinality(To(u))
        /\ life[u] = "live" <=> count[u] > 0
        /\ life[u] # "live" => mine[u] = 0
    BY DEF IInv, Counted, CountsExact, Live
  <2>3. count'[u] = IF r.to = u THEN count[u] + 1 ELSE count[u]
    BY DEF TypeOK, Pointers
  <2> QED BY <2>1, <2>2, <2>3 DEF Live
<1> QED BY <1>1, <1>2, <1>3

LEMMA AddKeeps ==
  ASSUME Careful, TypeInv, IInv, NEW o \in Objects, NEW v \in Objects, NEW f \in Lists,
         NEW n \in 1..MaxItems, Add(o, f, n, v)
  PROVE  IInv'
<1>t. TypeOK
  BY DEF TypeInv
<1> DEFINE p == Ptr(o, f, n, v)
<1>p. /\ p.by = o /\ p.at = f /\ p.n = n /\ p.to = v /\ p \in Pointers
      /\ refs' = refs \cup {p}
  BY PtrType DEF Ptr, Add
<1>1. p \notin refs
  BY <1>p DEF Add, Held
<1> HIDE DEF p
<1>2. PtrTyped(p) /\ Live(p.by) /\ Live(p.to)
  BY <1>p DEF PtrTyped, Add
<1>3. RefsTyped' /\ RefsLive' /\ Counted'
  BY <1>p, <1>1, <1>2, <1>t, PointKeeps DEF Add
<1>b. bad = {}
  BY DEF IInv, TextsSound
<1>4. ~fault' /\ TextsSound'
  <2>1. fault' = (<<o, f>> \in bad) /\ UNCHANGED <<text, bad>>
    BY DEF Add
  <2>2. TextsSound'
    BY <2>1 DEF IInv, TextsSound
  <2>3. ~(<<o, f>> \in bad)
    BY <1>b
  <2> QED BY <2>1, <2>2, <2>3
<1> QED BY <1>3, <1>4, QuietKeeps DEF Add, IInv

LEMMA DelKeeps ==
  ASSUME Careful, TypeInv, IInv, NEW o \in Objects, NEW f \in Lists, Del(o, f)
  PROVE  IInv'
<1>t. TypeOK
  BY DEF TypeInv
<1>1. DelList(o, f) /\ f # "in_reply_to"
  BY CarefulLists DEF Del
<1>2. /\ Idle /\ Live(o) /\ UNCHANGED <<kind, life, count, mine, refs, text, bad, pending>>
      /\ stack' = <<[obj |-> o, fields |-> {f}, frees |-> FALSE]>> /\ ~fault'
  <2>1. fault' = (<<o, f>> \in bad)
    BY <1>1 DEF DelList
  <2>2. ~(<<o, f>> \in bad)
    BY DEF IInv, TextsSound
  <2>3. UNCHANGED <<refs, bad, text>> /\ stack' = <<[obj |-> o, fields |-> {f}, frees |-> FALSE]>>
    BY <1>1 DEF DelList
  <2> QED BY <2>1, <2>2, <2>3 DEF Del
<1>3. StackOrdered'
  <2>1. DOMAIN stack' = {1} /\ stack'[1].obj = o /\ ~stack'[1].frees
    BY <1>2
  <2>2. Live(o)'
    BY <1>2 DEF Live
  <2> QED BY <2>1, <2>2 DEF StackOrdered
<1>4. DyingOnStack'
  BY <1>2 DEF IInv, DyingOnStack, Idle
<1>5. PendingSafe'
  BY <1>2 DEF PendingSafe, Idle
<1> QED BY <1>2, <1>3, <1>4, <1>5
        DEF IInv, NoFault, RefsTyped, RefsLive, PtrTyped, Live, Counted, CountsExact, To, TextsSound

LEMMA DropNextKeeps ==
  ASSUME TypeInv, IInv, DropNext
  PROVE  IInv'
<1>t. TypeOK
  BY DEF TypeInv
<1>1. PICK r \in Due : refs' = refs \ {r} /\ Drop(r.to, stack)
  BY DEF DropNext
<1>2. /\ r \in refs /\ r.by = Top.obj /\ r \in Pointers /\ r.to \in Objects /\ r.by \in Objects
      /\ Live(r.to) /\ PtrTyped(r) /\ stack # <<>>
      /\ UNCHANGED <<kind, mine, text, bad, pending>>
  BY <1>t DEF Due, TypeOK, Pointers, IInv, RefsLive, RefsTyped, DropNext
<1>3. RankOf(r.to) < RankOf(Top.obj)
  BY <1>2, <1>t, PtrDescends
<1>4. /\ NoFault' /\ RefsTyped' /\ RefsLive' /\ Counted' /\ StackOrdered' /\ DyingOnStack'
      /\ \A u \in Objects : life'[u] # life[u] => u = r.to
      /\ \A i \in DOMAIN stack' : \/ i \in DOMAIN stack /\ stack'[i] = stack[i]
                                  \/ stack'[i].obj = r.to
  BY <1>1, <1>2, <1>3, DropKeeps
<1>5. PendingSafe'
  <2> SUFFICES ASSUME pending # None PROVE PendingSafe'
    BY <1>2 DEF PendingSafe
  <2>1. /\ Live(pending.by) /\ Live(pending.to) /\ PtrTyped(pending)
        /\ pending.by \in Objects /\ pending.to \in Objects /\ pending \in Pointers
        /\ \A q \in refs : ~(q.by = pending.by /\ q.at = pending.at)
        /\ \A i \in DOMAIN stack : RankOf(stack[i].obj) <= RankOf(pending.to)
    BY <1>t DEF IInv, PendingSafe, TypeOK, Pointers
  <2>2. RankOf(r.to) < RankOf(pending.to)
    <3>1. RankOf(Top.obj) <= RankOf(pending.to)
      BY <2>1, <1>2, <1>t, CallersType
    <3> QED BY <3>1, <2>1, <1>2, <1>3, <1>t, RankOfNat
  <2>3. RankOf(pending.to) < RankOf(pending.by)
    BY <2>1, <1>t, PtrDescends
  <2>4. r.to # pending.to /\ r.to # pending.by
    BY <2>1, <2>2, <2>3, <1>2, <1>t, RankOfNat
  <2>5. Live(pending.by)' /\ Live(pending.to)' /\ PtrTyped(pending)'
    BY <2>1, <2>4, <1>2, <1>4 DEF Live, PtrTyped
  <2>6. \A i \in DOMAIN stack' : Rank(kind[stack'[i].obj]) <= Rank(kind[pending.to])
    BY <2>1, <2>2, <1>2, <1>4, <1>t, RankOfNat DEF RankOf
  <2> QED BY <2>1, <2>5, <2>6, <1>1, <1>2 DEF PendingSafe, RankOf
<1>6. TextsSound'
  BY <1>2 DEF IInv, TextsSound
<1> QED BY <1>4, <1>5, <1>6 DEF IInv

LEMMA FinishKeeps ==
  ASSUME TypeInv, IInv, Finish
  PROVE  IInv'
<1>t. TypeOK
  BY DEF TypeInv
<1>1. /\ stack # <<>> /\ stack' = Callers /\ Top \in Calls /\ Top.obj \in Objects
      /\ UNCHANGED <<kind, count, mine, refs, text, bad, pending>>
      /\ Len(stack) \in Nat \ {0} /\ DOMAIN stack = 1..Len(stack) /\ Top = stack[Len(stack)]
      /\ DOMAIN stack' = 1..(Len(stack) - 1)
      /\ \A i \in DOMAIN stack' : i \in DOMAIN stack /\ i < Len(stack) /\ stack'[i] = stack[i]
  <2>1. stack # <<>> /\ stack' = Callers /\ UNCHANGED <<kind, count, mine, refs, text, bad, pending>>
    BY DEF Finish
  <2> QED BY <2>1, <1>t, CallersType DEF Calls
<1>2. /\ Top.frees => life[Top.obj] = "dying" /\ life' = [life EXCEPT ![Top.obj] = "freed"]
      /\ ~Top.frees => life[Top.obj] = "live" /\ life' = life
      /\ ~fault'
  <2>1. Top.frees => life[Top.obj] = "dying"
    BY <1>1 DEF IInv, StackOrdered
  <2>2. ~Top.frees => life[Top.obj] = "live"
    BY <1>1 DEF IInv, StackOrdered, Live
  <2>3. text[Top.obj] # "freed" /\ \A f : ~(<<Top.obj, f>> \in bad)
    BY <1>1 DEF IInv, TextsSound
  <2>4. /\ Top.frees => /\ life' = [life EXCEPT ![Top.obj] = "freed"]
                        /\ fault' = (text[Top.obj] = "freed" \/ \E f \in Top.fields : <<Top.obj, f>> \in bad)
        /\ ~Top.frees => life' = life /\ fault' = ~Live(Top.obj)
    BY DEF Finish
  <2> QED BY <2>1, <2>2, <2>3, <2>4 DEF Live
<1>3. \A o \in Objects : /\ (life'[o] = "live") = (life[o] = "live")
                         /\ life'[o] \in {"live", "dying"} => life'[o] = life[o]
                         /\ (life'[o] = "unused") = (life[o] = "unused")
  BY <1>1, <1>2, <1>t DEF TypeOK
<1>4. RefsTyped' /\ TextsSound' /\ NoFault'
  BY <1>1, <1>2 DEF IInv, RefsTyped, PtrTyped, TextsSound, NoFault
<1>5. RefsLive' /\ Counted'
  <2>1. RefsLive'
    BY <1>1, <1>3, <1>t DEF IInv, RefsLive, Live, TypeOK, Pointers
  <2>2. \A u : To(u)' = To(u)
    BY <1>1 DEF To
  <2>3. Counted'
    BY <1>1, <1>3, <2>2 DEF IInv, Counted, CountsExact, Live
  <2> QED BY <2>1, <2>3
<1>6. \A i \in DOMAIN stack' : stack[i].obj # Top.obj /\ stack[i].obj \in Objects
  <2> TAKE i \in DOMAIN stack'
  <2>1. RankOf(Top.obj) < RankOf(stack[i].obj)
    BY <1>1 DEF IInv, StackOrdered
  <2>2. stack[i] \in Calls
    BY <1>1, <1>t, ElementOfSeq DEF TypeOK
  <2> QED BY <2>1, <2>2, <1>1, <1>t, RankOfNat DEF Calls
<1>7. StackOrdered'
  <2>1. \A i, j \in DOMAIN stack' : i < j => Rank(kind[stack'[j].obj]) < Rank(kind[stack'[i].obj])
    BY <1>1 DEF IInv, StackOrdered, RankOf
  <2>2. \A i \in DOMAIN stack' : life'[stack'[i].obj] = life[stack'[i].obj]
    BY <1>1, <1>2, <1>6, <1>t DEF TypeOK
  <2>3. \A i \in DOMAIN stack' :
          IF stack'[i].frees
          THEN life'[stack'[i].obj] = "dying" /\ stack'[i].fields = Dropped(kind[stack'[i].obj])
          ELSE i = 1 /\ life'[stack'[i].obj] = "live"
    BY <1>1, <2>2 DEF IInv, StackOrdered, Live
  <2> QED BY <2>1, <2>3, <1>1 DEF StackOrdered, Live, RankOf
<1>8. DyingOnStack'
  <2> SUFFICES ASSUME NEW o \in Objects, life'[o] = "dying"
               PROVE  \E i \in DOMAIN stack' : stack'[i].obj = o /\ stack'[i].frees
    BY DEF DyingOnStack
  <2>d. life[o] = "dying"
    BY <1>3
  <2>1. PICK i \in DOMAIN stack : stack[i].obj = o /\ stack[i].frees
    BY <2>d DEF IInv, DyingOnStack
  <2>2. i # Len(stack)
    BY <2>1, <1>1, <1>2, <1>t DEF TypeOK
  <2> QED BY <2>1, <2>2, <1>1
<1>9. PendingSafe'
  <2> SUFFICES ASSUME pending # None PROVE PendingSafe'
    BY <1>1 DEF PendingSafe
  <2>1. /\ Live(pending.by) /\ Live(pending.to) /\ PtrTyped(pending)
        /\ pending.by \in Objects /\ pending.to \in Objects
        /\ \A q \in refs : ~(q.by = pending.by /\ q.at = pending.at)
        /\ \A i \in DOMAIN stack : Rank(kind[stack[i].obj]) <= Rank(kind[pending.to])
    BY <1>t DEF IInv, PendingSafe, TypeOK, Pointers, RankOf
  <2>2. Live(pending.by)' /\ Live(pending.to)' /\ PtrTyped(pending)'
    BY <2>1, <1>1, <1>3 DEF Live, PtrTyped
  <2>3. \A i \in DOMAIN stack' : Rank(kind[stack'[i].obj]) <= Rank(kind[pending.to])
    BY <2>1, <1>1
  <2> QED BY <2>1, <2>2, <2>3, <1>1 DEF PendingSafe, RankOf
<1> QED BY <1>4, <1>5, <1>7, <1>8, <1>9 DEF IInv

LEMMA StoreKeeps ==
  ASSUME TypeInv, IInv, Store
  PROVE  IInv'
<1>t. TypeOK
  BY DEF TypeInv
<1>1. /\ stack = <<>> /\ pending # None /\ Live(pending.to) /\ pending \in Pointers
      /\ Live(pending.by) /\ PtrTyped(pending)
      /\ \A q \in refs : ~(q.by = pending.by /\ q.at = pending.at)
  BY <1>t DEF Store, TypeOK, IInv, PendingSafe
<1>2. /\ refs' = refs \cup {pending} /\ count' = [count EXCEPT ![pending.to] = @ + 1]
      /\ pending' = None /\ fault' = fault
      /\ UNCHANGED <<kind, life, mine, text, bad, stack>>
  BY <1>1 DEF Store
<1>3. RefsTyped' /\ RefsLive' /\ Counted'
  BY <1>1, <1>2, <1>t, PointKeeps
<1>4. NoFault' /\ DyingOnStack' /\ PendingSafe' /\ TextsSound'
  BY <1>2 DEF IInv, NoFault, DyingOnStack, PendingSafe, TextsSound
<1>5. StackOrdered'
  BY <1>1, <1>2 DEF StackOrdered
<1> QED BY <1>3, <1>4, <1>5 DEF IInv

LEMMA IInvNext == Careful /\ TypeInv /\ IInv /\ [Next]_vars => IInv'
<1> SUFFICES ASSUME Careful, TypeInv, IInv, [Next]_vars PROVE IInv'
  OBVIOUS
<1>1. CASE UNCHANGED vars
  BY <1>1 DEF vars, IInv, NoFault, RefsTyped, RefsLive, PtrTyped, Counted, CountsExact, To, Live,
     StackOrdered, DyingOnStack, PendingSafe, RankOf, TextsSound
<1>2. CASE Step
  BY <1>2, DropNextKeeps, FinishKeeps, StoreKeeps DEF Step
<1>3. CASE Call
  BY <1>3, NewKeeps, NewWithKeeps, RefKeeps, UnrefKeeps, ToIksKeeps, SetKeeps, AddKeeps, DelKeeps
  DEF Call
<1> QED BY <1>1, <1>2, <1>3 DEF Next

(* NoFault: careful callers never make freed memory, a NULL or a list that  *)
(* was never set up be used, even if their entries have links.              *)
THEOREM NoUseAfterFree == Careful => (Spec => []NoFault)
<1> SUFFICES ASSUME Careful PROVE Spec => []NoFault
  OBVIOUS
<1>1. IInv => NoFault
  BY DEF IInv
<1>2. TypeInv /\ IInv /\ [Next]_vars => IInv'
  BY IInvNext
<1>3. TypeInv /\ [Next]_vars => TypeInv'
  BY TypeNext
<1> QED BY <1>1, <1>2, <1>3, TypeInit, IInvInit, PTL DEF Spec

(* CountsExact: for them every count is the number of references there are. *)
THEOREM CountsAreExact == Careful => (Spec => []CountsExact)
<1> SUFFICES ASSUME Careful PROVE Spec => []CountsExact
  OBVIOUS
<1>1. IInv => CountsExact
  BY DEF IInv, Counted
<1>2. TypeInv /\ IInv /\ [Next]_vars => IInv'
  BY IInvNext
<1>3. TypeInv /\ [Next]_vars => TypeInv'
  BY TypeNext
<1> QED BY <1>1, <1>2, <1>3, TypeInit, IInvInit, PTL DEF Spec

-----------------------------------------------------------------------------
(* What leaks.  A destructor drops all but the lists in UnsoundLists, so    *)
(* that by any other field only what is there holds an object.              *)
(* No action but the end of a destructor frees an object.                   *)
LEMMA FreedByFinish ==
  ASSUME TypeInv, [Next]_vars, ~Finish, NEW o \in Objects, life'[o] = "freed"
  PROVE  life[o] = "freed"
<1>t. life \in [Objects -> {"unused", "live", "dying", "freed"}]
  BY DEF TypeInv, TypeOK
<1>1. ASSUME NEW v, NEW calls, Drop(v, calls) PROVE life[o] = "freed"
  <2>1. life' = life \/ life' = [life EXCEPT ![v] = "dying"]
    BY <1>1 DEF Drop
  <2> QED BY <2>1, <1>t
<1>2. CASE life' = life
  BY <1>2
<1>3. CASE \E u \in Objects : life' = [life EXCEPT ![u] = "live"]
  BY <1>3, <1>t
<1>4. \/ life' = life \/ \E u \in Objects : life' = [life EXCEPT ![u] = "live"]
      \/ \E v, calls : Drop(v, calls)
  <2>1. CASE UNCHANGED vars
    BY <2>1 DEF vars
  <2>2. CASE Step
    BY <2>2 DEF Step, DropNext, Store
  <2>3. CASE Call
    BY <2>3, ZenonT(40) DEF Call, New, NewWith, Made, Ref, Unref, ToIks, SetField, SetContent, Replaced, Add, Del
  <2> QED BY <2>1, <2>2, <2>3 DEF Next
<1> QED BY <1>1, <1>2, <1>3, <1>4

(* Where pointers come from.                                                *)
LEMMA NewPointers ==
  ASSUME TypeInv, IInv, [Next]_vars, NEW r \in refs', r \notin refs
  PROVE  life'[r.by] = "live"
<1>t. TypeOK
  BY DEF TypeInv
<1>1. ASSUME NEW o \in Objects, NEW k \in Kinds, NEW v \in Objects, NewWith(o, k, v)
      PROVE  life'[r.by] = "live"
  <2>1. PICK f \in Taken(k) : r = Ptr(o, f, 1, v)
    BY <1>1 DEF NewWith
  <2>2. life'[o] = "live"
    BY <1>1, <1>t DEF NewWith, Made, TypeOK
  <2> QED BY <2>1, <2>2 DEF Ptr
<1>2. ASSUME NEW o \in Objects, NEW f \in Lists, NEW n, NEW v \in Objects, Add(o, f, n, v)
      PROVE  life'[r.by] = "live"
  <2>1. r = Ptr(o, f, n, v) /\ life'[o] = "live"
    BY <1>2 DEF Add, Live
  <2> QED BY <2>1 DEF Ptr
<1>3. CASE Store
  <2>1. r = pending /\ pending # None /\ Live(pending.by) /\ life' = life
    BY <1>3 DEF Store, IInv, PendingSafe
  <2> QED BY <2>1 DEF Live
<1>4. \/ \E o \in Objects, k \in Kinds, v \in Objects : NewWith(o, k, v)
      \/ \E o \in Objects, f \in Lists, n \in 1..MaxItems, v \in Objects : Add(o, f, n, v)
      \/ Store
  <2>1. CASE UNCHANGED vars
    BY <2>1 DEF vars
  <2>2. CASE Step
    BY <2>2 DEF Step, DropNext, Finish
  <2>3. CASE Call
    BY <2>3 DEF Call, New, Ref, Unref, ToIks, SetField, SetContent, Replaced, Del, DelSimple, DelList
  <2> QED BY <2>1, <2>2, <2>3 DEF Next
<1> QED BY <1>1, <1>2, <1>3, <1>4

LEMMA HoldersInit == Init => HoldersLive
BY DEF Init, HoldersLive

LEMMA HoldersNext == TypeInv /\ IInv /\ HoldersLive /\ [Next]_vars => HoldersLive'
<1> SUFFICES ASSUME TypeInv, IInv, HoldersLive, [Next]_vars,
                    NEW r \in refs', r.at \in Dropped(kind'[r.by])
             PROVE  life'[r.by] # "freed"
  BY DEF HoldersLive
<1>t. TypeOK
  BY DEF TypeInv
<1>1. CASE r \notin refs
  BY <1>1, NewPointers
<1>2. CASE r \in refs
  <2>1. r.by \in Objects /\ life[r.by] # "unused"
    BY <1>2, <1>t DEF IInv, RefsLive, TypeOK, Pointers
  <2>2. kind'[r.by] = kind[r.by]
    <3>1. ASSUME NEW o \in Objects, NEW k \in Kinds, Made(o, k)
          PROVE  kind'[r.by] = kind[r.by]
      BY <3>1, <2>1, <1>t DEF Made, TypeOK
    <3>2. kind' = kind \/ \E o \in Objects, k \in Kinds : Made(o, k)
      <4>1. CASE UNCHANGED vars
        BY <4>1 DEF vars
      <4>2. CASE Step
        BY <4>2 DEF Step, DropNext, Finish, Store
      <4>3. CASE Call
        BY <4>3 DEF Call, New, NewWith, Ref, Unref, ToIks, SetField, SetContent, Add, Del
      <4> QED BY <4>1, <4>2, <4>3 DEF Next
    <3> QED BY <3>1, <3>2
  <2>3. r.at \in Dropped(kind[r.by]) /\ life[r.by] # "freed"
    BY <1>2, <2>2 DEF HoldersLive
  <2>4. CASE Finish
    <3>1. stack # <<>> /\ Due = {} /\ refs' = refs /\ Len(stack) \in DOMAIN stack
          /\ Top = stack[Len(stack)] /\ Top.obj \in Objects
      BY <2>4, <1>t, CallersType DEF Finish, Calls
    <3>2. CASE Top.frees
      <4>1. Top.fields = Dropped(kind[Top.obj])
        BY <3>1, <3>2 DEF IInv, StackOrdered
      <4>2. r.by # Top.obj
        BY <1>2, <3>1, <4>1, <2>3 DEF Due
      <4> QED BY <2>4, <3>2, <4>2, <2>1, <2>3, <1>t DEF Finish, TypeOK
    <3>3. CASE ~Top.frees
      BY <2>4, <3>3, <2>3 DEF Finish
    <3> QED BY <3>2, <3>3
  <2>5. CASE ~Finish
    BY <2>5, <2>1, <2>3, FreedByFinish
  <2> QED BY <2>4, <2>5
<1> QED BY <1>1, <1>2

(* A live object that the application does not hold is held by a pointer,   *)
(* and its holder is there when that is one that destructors drop.          *)
LEMMA LiveIsHeld == TypeInv /\ IInv /\ HoldersLive => NothingLeaks
<1> SUFFICES ASSUME TypeInv, IInv, HoldersLive, Idle, NEW o \in Objects, Live(o), ~(mine[o] > 0)
             PROVE  \E r \in To(o) : HeldBy(r)
  BY DEF NothingLeaks
<1>t. TypeOK
  BY DEF TypeInv
<1>1. count[o] = mine[o] + Cardinality(To(o)) /\ count[o] > 0 /\ mine[o] = 0
  <2>1. mine[o] \in Nat
    BY <1>t DEF TypeOK
  <2> QED BY <2>1 DEF IInv, Counted, CountsExact, Live
<1>2. Cardinality(To(o)) # 0
  BY <1>1, <1>t, ToFinite
<1>3. PICK r : r \in To(o)
  BY <1>2, FS_EmptySet
<1>4. r \in refs /\ r.by \in Objects
  BY <1>3, <1>t DEF To, TypeOK, Pointers
<1>5. CASE r.at \in Dropped(kind[r.by])
  <2>1. life[r.by] # "unused" /\ life[r.by] # "freed" /\ life[r.by] # "dying"
    BY <1>4, <1>5 DEF IInv, RefsLive, HoldersLive, DyingOnStack, Idle
  <2>2. Live(r.by)
    BY <1>4, <2>1, <1>t DEF TypeOK, Live
  <2> QED BY <1>3, <2>2 DEF HeldBy
<1>6. CASE r.at \notin Dropped(kind[r.by])
  <2>1. r.at \in DOMAIN Fields(kind[r.by])
    BY <1>4 DEF IInv, RefsTyped, PtrTyped
  <2>2. <<kind[r.by], r.at>> \in UnsoundLists
    BY <1>6, <2>1 DEF Dropped
  <2> QED BY <1>3, <2>2 DEF HeldBy
<1> QED BY <1>5, <1>6

(* NothingLeaks: whatever was shared, replaced or removed before, what is   *)
(* left is held by the application, by an object that is there, or by the   *)
(* links of an entry that was freed.                                        *)
THEOREM NothingIsLost == Careful => (Spec => []NothingLeaks)
<1> SUFFICES ASSUME Careful PROVE Spec => []NothingLeaks
  OBVIOUS
<1>1. TypeInv /\ IInv /\ HoldersLive => NothingLeaks
  BY LiveIsHeld
<1>2. TypeInv /\ IInv /\ HoldersLive /\ [Next]_vars => HoldersLive'
  BY HoldersNext
<1>3. TypeInv /\ IInv /\ [Next]_vars => IInv'
  BY IInvNext
<1>4. TypeInv /\ [Next]_vars => TypeInv'
  BY TypeNext
<1> QED BY <1>1, <1>2, <1>3, <1>4, TypeInit, IInvInit, HoldersInit, PTL DEF Spec

=============================================================================
