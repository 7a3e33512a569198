--------------------------- MODULE HashTableProofs ---------------------------
(***************************************************************************)
(* Proofs about HashTable, for any keys, hash function and sizes.  They    *)
(* are about the list and the buckets' pointers into it first, as           *)
(* sequences and positions, then about the operations on a table, and       *)
(* last about the steps.                                                    *)
(***************************************************************************)
EXTENDS HashTable, SequenceTheorems, FiniteSetTheorems, WellFoundedInduction, TLAPS

(* A set of numbers has a least one, so what holds of 0 and passes from a   *)
(* number to the next holds of all.                                         *)
Below == {ss \in Nat \X Nat : ss[1] < ss[2]}

LEMMA LeastOf ==
  ASSUME NEW S \in SUBSET Nat, S # {}
  PROVE  \E n \in S : \A m \in S : n <= m
<1>1. IsWellFoundedOn(Below, Nat)
  BY NatLessThanWellFounded, Zenon DEF OpToRel, Below
<1>2. PICK n \in S : \A m \in S : ~(<<m, n>> \in Below)
  BY <1>1, WFMin
<1>3. \A m \in S : ~(m < n)
  BY <1>2 DEF Below
<1> QED BY <1>3

LEMMA Induction ==
  ASSUME NEW S \in SUBSET Nat, 0 \in S, \A n \in S : n + 1 \in S
  PROVE  S = Nat
<1> SUFFICES ASSUME S # Nat PROVE FALSE
  OBVIOUS
<1>1. PICK n \in Nat \ S : \A m \in Nat \ S : n <= m
  BY LeastOf
<1>2. n # 0 /\ n - 1 \in Nat /\ n - 1 \in S /\ n - 1 + 1 = n
  BY <1>1
<1> QED BY <1>1, <1>2
-----------------------------------------------------------------------------
(* The list: sequences in which nothing occurs twice.                       *)
Once(r) == \A i, j \in DOMAIN r : r[i] = r[j] => i = j

LEMMA PositionIs ==
  ASSUME NEW r, Once(r), NEW i \in DOMAIN r
  PROVE  Position(r, r[i]) = i
<1>1. Position(r, r[i]) \in DOMAIN r /\ r[Position(r, r[i])] = r[i]
  BY Zenon DEF Position
<1> QED BY <1>1 DEF Once

(* Linking k in before the p-th pair moves that pair and those behind it.   *)
LEMMA InsertAtIs ==
  ASSUME NEW r \in Seq(Keys), NEW k \in Keys, NEW p \in 1..Len(r)
  PROVE  /\ InsertAt(r, p, k) \in Seq(Keys)
         /\ Len(InsertAt(r, p, k)) = Len(r) + 1
         /\ \A i \in 1..Len(r) + 1 :
              InsertAt(r, p, k)[i] = IF i < p THEN r[i] ELSE IF i = p THEN k ELSE r[i - 1]
BY DEF InsertAt

LEMMA RemoveAtIs ==
  ASSUME NEW r \in Seq(Keys), NEW p \in 1..Len(r)
  PROVE  /\ RemoveAt(r, p) \in Seq(Keys)
         /\ Len(RemoveAt(r, p)) = Len(r) - 1
         /\ \A i \in 1..Len(r) - 1 :
              RemoveAt(r, p)[i] = IF i < p THEN r[i] ELSE r[i + 1]
<1> DEFINE a == SubSeq(r, 1, p - 1)
           b == SubSeq(r, p + 1, Len(r))
<1>1. a \in Seq(Keys) /\ Len(a) = p - 1 /\ \A i \in 1..p - 1 : a[i] = r[i]
  OBVIOUS
<1>2. b \in Seq(Keys) /\ Len(b) = Len(r) - p /\ \A i \in 1..Len(r) - p : b[i] = r[i + p]
  OBVIOUS
<1> HIDE DEF a, b
<1>3. /\ a \o b \in Seq(Keys)
      /\ Len(a \o b) = Len(r) - 1
      /\ \A i \in 1..Len(r) - 1 : (a \o b)[i] = IF i < p THEN r[i] ELSE r[i + 1]
  <2>1. a \o b \in Seq(Keys) /\ Len(a \o b) = Len(r) - 1
    <3>1. a \o b \in Seq(Keys) /\ Len(a \o b) = Len(a) + Len(b)
      BY <1>1, <1>2, ConcatProperties
    <3> QED BY <1>1, <1>2, <3>1
  <2>2. \A i \in 1..Len(r) - 1 : (a \o b)[i] = IF i < p THEN a[i] ELSE b[i - (p - 1)]
    BY <1>1, <1>2
  <2>3. ASSUME NEW i \in 1..Len(r) - 1, ~(i < p) PROVE b[i - (p - 1)] = r[i + 1]
    <3>1. i - (p - 1) \in 1..Len(r) - p /\ i - (p - 1) + p = i + 1
      BY <2>3
    <3> QED BY <1>2, <3>1
  <2>4. ASSUME NEW i \in 1..Len(r) - 1, i < p PROVE a[i] = r[i]
    BY <1>1, <2>4
  <2> QED BY <2>1, <2>2, <2>3, <2>4
<1> QED BY <1>3 DEF RemoveAt, a, b

LEMMA AppendIs ==
  ASSUME NEW r \in Seq(Keys), NEW k \in Keys
  PROVE  /\ Append(r, k) \in Seq(Keys)
         /\ Len(Append(r, k)) = Len(r) + 1
         /\ \A i \in 1..Len(r) + 1 :
              Append(r, k)[i] = IF i <= Len(r) THEN r[i] ELSE k
OBVIOUS

(* What an operation on k leaves of the list is in the order it was in.     *)
InOrder(r, s, k) ==
  \A i, j \in DOMAIN s : s[i] # k /\ s[j] # k /\ i <= j =>
    \E g, h \in DOMAIN r : g <= h /\ r[g] = s[i] /\ r[h] = s[j]

LEMMA InsertedInto ==
  ASSUME NEW r \in Seq(Keys), Once(r), NEW k \in Keys \ ToSet(r), NEW p \in 1..Len(r)
  PROVE  LET s == InsertAt(r, p, k) IN
         Once(s) /\ ToSet(s) = ToSet(r) \cup {k} /\ InOrder(r, s, k)
<1> DEFINE s == InsertAt(r, p, k)
<1>1. /\ s \in Seq(Keys) /\ DOMAIN s = 1..Len(r) + 1 /\ DOMAIN r = 1..Len(r)
      /\ Len(r) \in Nat
      /\ \A i \in DOMAIN s : s[i] = IF i < p THEN r[i] ELSE IF i = p THEN k ELSE r[i - 1]
  <2>1. k \in Keys
    OBVIOUS
  <2>2. s \in Seq(Keys) /\ Len(s) = Len(r) + 1
    BY <2>1, InsertAtIs
  <2>3. DOMAIN s = 1..Len(r) + 1 /\ DOMAIN r = 1..Len(r) /\ Len(r) \in Nat
    BY <2>2, LenProperties
  <2>4. \A i \in 1..Len(r) + 1 :
          s[i] = IF i < p THEN r[i] ELSE IF i = p THEN k ELSE r[i - 1]
    BY <2>1, InsertAtIs
  <2> HIDE DEF s
  <2> QED BY <2>2, <2>3, <2>4
<1> HIDE DEF s
<1>2. \A i \in DOMAIN r : r[i] # k
  BY DEF ToSet
<1>3. \A i \in DOMAIN s : i < p => i \in DOMAIN r /\ s[i] = r[i]
  BY <1>1
<1>4. \A i \in DOMAIN s : i > p => i - 1 \in DOMAIN r /\ s[i] = r[i - 1]
  BY <1>1
<1>5. p \in DOMAIN s /\ s[p] = k
  BY <1>1
<1>6. Once(s)
  BY <1>1, <1>2, <1>3, <1>4, <1>5 DEF Once
<1>7. ASSUME NEW x \in ToSet(r) PROVE x \in ToSet(s)
  <2>1. PICK i \in DOMAIN r : r[i] = x
    BY DEF ToSet
  <2>2. CASE i < p
    <3>1. i \in DOMAIN s /\ s[i] = x
      BY <1>1, <2>1, <2>2
    <3> QED BY <3>1 DEF ToSet
  <2>3. CASE i >= p
    <3>1. i + 1 \in DOMAIN s /\ i + 1 > p /\ i + 1 - 1 = i
      BY <1>1, <2>1, <2>3
    <3>2. s[i + 1] = x
      BY <1>4, <2>1, <3>1
    <3> QED BY <3>1, <3>2 DEF ToSet
  <2> QED BY <1>1, <2>2, <2>3
<1>8. ToSet(s) = ToSet(r) \cup {k}
  <2>1. ToSet(s) \subseteq ToSet(r) \cup {k}
    BY <1>1, <1>3, <1>4, <1>5 DEF ToSet
  <2>2. k \in ToSet(s)
    BY <1>5 DEF ToSet
  <2> QED BY <1>7, <2>1, <2>2
<1>9. InOrder(r, s, k)
  <2> SUFFICES ASSUME NEW i \in DOMAIN s, NEW j \in DOMAIN s,
                      s[i] # k, s[j] # k, i <= j
               PROVE  \E g, h \in DOMAIN r : g <= h /\ r[g] = s[i] /\ r[h] = s[j]
    BY DEF InOrder
  <2>1. i # p /\ j # p /\ i \in Nat /\ j \in Nat /\ p \in Nat
    BY <1>1, <1>5
  <2> DEFINE g == IF i < p THEN i ELSE i - 1
             h == IF j < p THEN j ELSE j - 1
  <2>2. g \in DOMAIN r /\ h \in DOMAIN r /\ r[g] = s[i] /\ r[h] = s[j]
    BY <1>3, <1>4, <2>1
  <2>3. g <= h
    BY <2>1
  <2> QED BY <2>2, <2>3
<1> QED BY <1>6, <1>8, <1>9 DEF s

LEMMA RemovedFrom ==
  ASSUME NEW r \in Seq(Keys), Once(r), NEW p \in 1..Len(r)
  PROVE  LET s == RemoveAt(r, p) IN
         Once(s) /\ ToSet(s) = ToSet(r) \ {r[p]} /\ InOrder(r, s, r[p])
<1> DEFINE s == RemoveAt(r, p)
<1>1. /\ s \in Seq(Keys) /\ DOMAIN s = 1..Len(r) - 1 /\ DOMAIN r = 1..Len(r)
      /\ Len(r) \in Nat
      /\ \A i \in DOMAIN s : s[i] = IF i < p THEN r[i] ELSE r[i + 1]
  BY RemoveAtIs, SMTT(30)
<1> HIDE DEF s
<1>2. \A i \in DOMAIN s : i < p => i \in DOMAIN r /\ s[i] = r[i]
  BY <1>1
<1>3. \A i \in DOMAIN s : i >= p => i + 1 \in DOMAIN r /\ s[i] = r[i + 1]
  BY <1>1
<1>4. Once(s)
  <2> SUFFICES ASSUME NEW i \in DOMAIN s, NEW j \in DOMAIN s, s[i] = s[j] PROVE i = j
    BY DEF Once
  <2>1. i \in Nat /\ j \in Nat /\ p \in Nat
    BY <1>1
  <2> QED BY <1>2, <1>3, <2>1 DEF Once
<1>5. ASSUME NEW i \in DOMAIN s PROVE s[i] \in ToSet(r) \ {r[p]}
  <2>1. i \in Nat /\ p \in DOMAIN r /\ p \in Nat
    BY <1>1
  <2> QED BY <1>2, <1>3, <2>1 DEF Once, ToSet
<1>6. ASSUME NEW x \in ToSet(r), x # r[p] PROVE x \in ToSet(s)
  <2>1. PICK i \in DOMAIN r : r[i] = x
    BY DEF ToSet
  <2>2. i # p
    BY <1>6, <2>1
  <2>3. CASE i < p
    <3>1. i \in DOMAIN s /\ s[i] = x
      BY <1>1, <2>1, <2>3
    <3> QED BY <3>1 DEF ToSet
  <2>4. CASE i > p
    <3>1. i - 1 \in DOMAIN s /\ i - 1 >= p /\ i - 1 + 1 = i
      BY <1>1, <2>1, <2>4
    <3>2. s[i - 1] = x
      BY <1>3, <2>1, <3>1
    <3> QED BY <3>1, <3>2 DEF ToSet
  <2> QED BY <1>1, <2>2, <2>3, <2>4
<1>7. ToSet(s) = ToSet(r) \ {r[p]}
  BY <1>5, <1>6 DEF ToSet
<1>8. InOrder(r, s, r[p])
  <2> SUFFICES ASSUME NEW i \in DOMAIN s, NEW j \in DOMAIN s, i <= j
               PROVE  \E g, h \in DOMAIN r : g <= h /\ r[g] = s[i] /\ r[h] = s[j]
    BY DEF InOrder
  <2>1. i \in Nat /\ j \in Nat /\ p \in Nat
    BY <1>1
  <2> DEFINE g == IF i < p THEN i ELSE i + 1
             h == IF j < p THEN j ELSE j + 1
  <2>2. g \in DOMAIN r /\ h \in DOMAIN r /\ r[g] = s[i] /\ r[h] = s[j]
    BY <1>2, <1>3, <2>1
  <2>3. g <= h
    BY <2>1
  <2> QED BY <2>2, <2>3
<1> QED BY <1>4, <1>7, <1>8 DEF s

LEMMA AppendedTo ==
  ASSUME NEW r \in Seq(Keys), Once(r), NEW k \in Keys \ ToSet(r)
  PROVE  LET s == Append(r, k) IN
         Once(s) /\ ToSet(s) = ToSet(r) \cup {k} /\ InOrder(r, s, k)
<1> DEFINE s == Append(r, k)
<1>1. /\ s \in Seq(Keys) /\ DOMAIN s = 1..Len(r) + 1 /\ DOMAIN r = 1..Len(r)
      /\ Len(r) \in Nat
      /\ \A i \in DOMAIN s : s[i] = IF i <= Len(r) THEN r[i] ELSE k
  BY AppendIs
<1> HIDE DEF s
<1>2. \A i \in DOMAIN r : r[i] # k /\ i \in DOMAIN s /\ s[i] = r[i]
  BY <1>1 DEF ToSet
<1>3. Len(r) + 1 \in DOMAIN s /\ s[Len(r) + 1] = k
  BY <1>1
<1>4. \A i \in DOMAIN s : i \in DOMAIN r \/ i = Len(r) + 1
  BY <1>1
<1>5. Once(s)
  BY <1>2, <1>3, <1>4 DEF Once
<1>6. ToSet(s) = ToSet(r) \cup {k}
  BY <1>2, <1>3, <1>4 DEF ToSet
<1>7. InOrder(r, s, k)
  BY <1>2, <1>3, <1>4 DEF InOrder
<1> QED BY <1>5, <1>6, <1>7 DEF s
-----------------------------------------------------------------------------
(* The buckets: b delimits the pairs of class c, and no others.             *)
Slots == [first : Keys \cup {Sentinel}, last : Keys \cup {Sentinel}]

Delimits(r, b, cl, c, lo, hi) ==
  /\ lo <= hi /\ b.first = r[lo] /\ b.last = r[hi]
  /\ \A i \in DOMAIN r : (lo <= i /\ i <= hi) <=> cl[r[i]] = c

Cut(r, b, cl, c) ==
  IF b = EmptyBucket THEN \A i \in DOMAIN r : cl[r[i]] # c
  ELSE \E lo, hi \in DOMAIN r : Delimits(r, b, cl, c, lo, hi)

LEMMA SlotIs ==
  ASSUME NEW x \in Keys, NEW y \in Keys
  PROVE  /\ [first |-> x, last |-> y] \in Slots
         /\ [first |-> x, last |-> y] # EmptyBucket
BY SentinelAssumption DEF Slots, EmptyBucket

(* A pair comes in before the first of bucket d: the other buckets' pairs   *)
(* move together, and d has one more.                                       *)
LEMMA InsertCuts ==
  ASSUME NEW r \in Seq(Keys), NEW k \in Keys, NEW cl,
         NEW d, cl[k] = d, NEW b, NEW p \in DOMAIN r, NEW q \in DOMAIN r,
         Delimits(r, b, cl, d, p, q)
  PROVE  LET s == InsertAt(r, p, k) IN
         /\ Cut(s, [first |-> k, last |-> b.last], cl, d)
         /\ \A c, e : c # d /\ Cut(r, e, cl, c) => Cut(s, e, cl, c)
<1> DEFINE s == InsertAt(r, p, k)
           f == [first |-> k, last |-> b.last]
<1>1. /\ s \in Seq(Keys) /\ DOMAIN s = 1..Len(r) + 1 /\ DOMAIN r = 1..Len(r)
      /\ Len(r) \in Nat
  BY InsertAtIs
<1>2. \A i \in 1..Len(r) + 1 :
        s[i] = IF i < p THEN r[i] ELSE IF i = p THEN k ELSE r[i - 1]
  <2>1. p \in 1..Len(r)
    BY <1>1
  <2> QED BY <2>1, InsertAtIs, ZenonT(40)
<1> HIDE DEF s
<1>3. \A i \in DOMAIN s : i < p => i \in DOMAIN r /\ s[i] = r[i]
  BY <1>1, <1>2
<1>4. \A i \in DOMAIN s : i > p => i - 1 \in DOMAIN r /\ s[i] = r[i - 1]
  BY <1>1, <1>2
<1>5. p \in DOMAIN s /\ s[p] = k /\ q + 1 \in DOMAIN s /\ q + 1 > p
  BY <1>1, <1>2 DEF Delimits
<1>6. Cut(s, f, cl, d)
  <2>1. Delimits(s, f, cl, d, p, q + 1)
    <3>1. f.first = s[p] /\ f.last = s[q + 1]
      <4>1. s[q + 1] = r[q]
        BY <1>1, <1>4, <1>5
      <4> QED BY <1>5, <4>1 DEF Delimits
    <3>2. ASSUME NEW i \in DOMAIN s PROVE (p <= i /\ i <= q + 1) <=> cl[s[i]] = d
      <4>1. CASE i < p
        BY <1>1, <1>3, <4>1 DEF Delimits
      <4>2. CASE i = p
        BY <1>1, <1>5, <4>2
      <4>3. CASE i > p
        <5>1. i - 1 \in DOMAIN r /\ s[i] = r[i - 1]
          BY <1>4, <4>3
        <5>2. (p <= i - 1 /\ i - 1 <= q) <=> cl[s[i]] = d
          BY <5>1 DEF Delimits
        <5> QED BY <1>1, <4>3, <5>2
      <4> QED BY <1>1, <4>1, <4>2, <4>3
    <3> QED BY <1>1, <1>5, <3>1, <3>2 DEF Delimits
  <2>2. f # EmptyBucket
    BY SentinelAssumption DEF EmptyBucket
  <2> QED BY <1>5, <2>1, <2>2 DEF Cut
<1>7. ASSUME NEW c, NEW e, c # d, Cut(r, e, cl, c) PROVE Cut(s, e, cl, c)
  <2>1. CASE e = EmptyBucket
    <3>1. ASSUME NEW i \in DOMAIN s PROVE cl[s[i]] # c
      <4>1. i < p \/ i = p \/ i > p
        BY <1>1
      <4> QED BY <1>3, <1>4, <1>5, <1>7, <2>1, <4>1 DEF Cut
    <3> QED BY <2>1, <3>1 DEF Cut
  <2>2. CASE e # EmptyBucket
    <3>1. PICK lo \in DOMAIN r, hi \in DOMAIN r : Delimits(r, e, cl, c, lo, hi)
      BY <1>7, <2>2 DEF Cut
    <3>2. cl[r[p]] = d
      BY <1>1 DEF Delimits
    <3>3. p < lo \/ hi < p
      BY <1>1, <1>7, <3>1, <3>2 DEF Delimits
    <3> DEFINE Move(i) == IF i < p THEN i ELSE i + 1
    <3>4. /\ Move(lo) \in DOMAIN s /\ Move(hi) \in DOMAIN s /\ Move(lo) <= Move(hi)
          /\ s[Move(lo)] = r[lo] /\ s[Move(hi)] = r[hi]
      <4>1. \A i \in DOMAIN r : Move(i) \in DOMAIN s /\ s[Move(i)] = r[i]
        BY <1>1, <1>2, SMTT(30)
      <4> QED BY <1>1, <3>1, <4>1 DEF Delimits
    <3>5. ASSUME NEW i \in DOMAIN s
          PROVE  (Move(lo) <= i /\ i <= Move(hi)) <=> cl[s[i]] = c
      <4>1. CASE i < p
        BY <1>1, <1>3, <3>1, <3>3, <4>1 DEF Delimits
      <4>2. CASE i = p
        BY <1>1, <1>5, <1>7, <3>1, <3>3, <4>2 DEF Delimits
      <4>3. CASE i > p
        <5>1. i - 1 \in DOMAIN r /\ s[i] = r[i - 1]
          BY <1>4, <4>3
        <5>2. (lo <= i - 1 /\ i - 1 <= hi) <=> cl[s[i]] = c
          BY <3>1, <5>1 DEF Delimits
        <5> QED BY <1>1, <3>1, <3>3, <4>3, <5>2 DEF Delimits
      <4> QED BY <1>1, <4>1, <4>2, <4>3
    <3>6. Delimits(s, e, cl, c, Move(lo), Move(hi))
      BY <3>1, <3>4, <3>5 DEF Delimits
    <3> QED BY <2>2, <3>4, <3>6 DEF Cut
  <2> QED BY <2>1, <2>2
<1> QED BY <1>6, <1>7 DEF s

(* A pair goes to the end of the list, as the only one of its bucket.       *)
LEMMA AppendCuts ==
  ASSUME NEW r \in Seq(Keys), NEW k \in Keys, NEW cl,
         NEW d, cl[k] = d, Cut(r, EmptyBucket, cl, d)
  PROVE  LET s == Append(r, k) IN
         /\ Cut(s, [first |-> k, last |-> k], cl, d)
         /\ \A c, e : c # d /\ Cut(r, e, cl, c) => Cut(s, e, cl, c)
<1> DEFINE s == Append(r, k)
           f == [first |-> k, last |-> k]
           n == Len(r) + 1
<1>1. /\ DOMAIN s = 1..n /\ DOMAIN r = 1..Len(r) /\ Len(r) \in Nat
      /\ \A i \in DOMAIN r : i \in DOMAIN s /\ s[i] = r[i]
      /\ s[n] = k
  BY AppendIs
<1> HIDE DEF s
<1>2. \A i \in DOMAIN s : i \in DOMAIN r \/ i = n
  BY <1>1
<1>3. Cut(s, f, cl, d)
  <2>1. \A i \in DOMAIN r : cl[s[i]] # d
    BY <1>1 DEF Cut
  <2>2. Delimits(s, f, cl, d, n, n)
    BY <1>1, <1>2, <2>1 DEF Delimits
  <2>3. f # EmptyBucket /\ n \in DOMAIN s
    BY <1>1, SentinelAssumption DEF EmptyBucket
  <2> QED BY <2>2, <2>3 DEF Cut
<1>4. ASSUME NEW c, NEW e, c # d, Cut(r, e, cl, c) PROVE Cut(s, e, cl, c)
  <2>1. CASE e = EmptyBucket
    BY <1>1, <1>2, <1>4, <2>1 DEF Cut
  <2>2. CASE e # EmptyBucket
    <3>1. PICK lo \in DOMAIN r, hi \in DOMAIN r : Delimits(r, e, cl, c, lo, hi)
      BY <1>4, <2>2 DEF Cut
    <3>2. lo \in DOMAIN s /\ hi \in DOMAIN s /\ ~(n <= hi)
      BY <1>1
    <3>3. ASSUME NEW i \in DOMAIN s PROVE (lo <= i /\ i <= hi) <=> cl[s[i]] = c
      BY <1>1, <1>2, <1>4, <3>1, <3>2 DEF Delimits
    <3>4. Delimits(s, e, cl, c, lo, hi)
      BY <1>1, <3>1, <3>3 DEF Delimits
    <3> QED BY <2>2, <3>2, <3>4 DEF Cut
  <2> QED BY <2>1, <2>2
<1> QED BY <1>3, <1>4 DEF s

(* A pair of bucket b is unlinked, and b gives way on its side.             *)
LEMMA RemoveCuts ==
  ASSUME NEW r \in Seq(Keys), Once(r), NEW cl, NEW d, NEW b \in Slots, b # EmptyBucket,
         NEW p \in DOMAIN r, cl[r[p]] = d, Cut(r, b, cl, d)
  PROVE  LET s == RemoveAt(r, p) IN
         /\ Shrunk(r, b, r[p]) \in Slots
         /\ Cut(s, Shrunk(r, b, r[p]), cl, d)
         /\ \A c, e : c # d /\ Cut(r, e, cl, c) => Cut(s, e, cl, c)
<1> DEFINE s == RemoveAt(r, p)
           f == Shrunk(r, b, r[p])
<1>1. /\ s \in Seq(Keys) /\ DOMAIN s = 1..Len(r) - 1 /\ DOMAIN r = 1..Len(r)
      /\ Len(r) \in Nat
  BY RemoveAtIs
<1>2. \A i \in 1..Len(r) - 1 : s[i] = IF i < p THEN r[i] ELSE r[i + 1]
  <2>1. p \in 1..Len(r)
    BY <1>1
  <2> QED BY <2>1, RemoveAtIs
<1> HIDE DEF s
<1>3. \A i \in DOMAIN s : i < p => i \in DOMAIN r /\ s[i] = r[i]
  BY <1>1, <1>2
<1>4. \A i \in DOMAIN s : i >= p => i + 1 \in DOMAIN r /\ s[i] = r[i + 1]
  BY <1>1, <1>2
<1>5. PICK lo \in DOMAIN r, hi \in DOMAIN r : Delimits(r, b, cl, d, lo, hi)
  BY DEF Cut
<1>6. lo <= p /\ p <= hi /\ Position(r, r[p]) = p
  BY <1>5, PositionIs DEF Delimits
<1>7. (r[p] = b.first <=> p = lo) /\ (r[p] = b.last <=> p = hi)
  BY <1>5 DEF Delimits, Once
<1>8. \A i \in DOMAIN r : r[i] \in Keys
  BY ElementOfSeq, <1>1
<1>9. f \in Slots /\ Cut(s, f, cl, d)
  <2>1. CASE p = lo /\ p = hi
    <3>1. f = EmptyBucket
      BY <1>7, <2>1 DEF Shrunk
    <3>2. ASSUME NEW i \in DOMAIN s PROVE cl[s[i]] # d
      <4>1. CASE i < p
        BY <1>1, <1>3, <1>5, <2>1, <4>1 DEF Delimits
      <4>2. CASE i >= p
        <5>1. i + 1 \in DOMAIN r /\ s[i] = r[i + 1] /\ ~(i + 1 <= hi)
          BY <1>1, <1>4, <2>1, <4>2
        <5> QED BY <1>5, <5>1 DEF Delimits
      <4> QED BY <1>1, <4>1, <4>2
    <3> QED BY <3>1, <3>2 DEF Cut, Slots, EmptyBucket
  <2>2. CASE p = lo /\ p # hi
    <3>1. f = [b EXCEPT !.first = r[p + 1]] /\ p + 1 \in DOMAIN r
      BY <1>1, <1>6, <1>7, <2>2 DEF Shrunk
    <3>2. f \in Slots /\ f.first = r[p + 1] /\ f.last = r[hi] /\ f # EmptyBucket
      BY <1>5, <1>8, <3>1, SentinelAssumption DEF Slots, Delimits, EmptyBucket
    <3>3. p \in DOMAIN s /\ hi - 1 \in DOMAIN s /\ p <= hi - 1
      BY <1>1, <1>6, <2>2
    <3>4. s[p] = r[p + 1] /\ s[hi - 1] = r[hi]
      BY <1>1, <1>4, <3>3
    <3>5. ASSUME NEW i \in DOMAIN s PROVE (p <= i /\ i <= hi - 1) <=> cl[s[i]] = d
      <4>1. CASE i < p
        BY <1>1, <1>3, <1>5, <2>2, <4>1 DEF Delimits
      <4>2. CASE i >= p
        <5>1. i + 1 \in DOMAIN r /\ s[i] = r[i + 1]
          BY <1>4, <4>2
        <5>2. (lo <= i + 1 /\ i + 1 <= hi) <=> cl[s[i]] = d
          BY <1>5, <5>1 DEF Delimits
        <5> QED BY <1>1, <2>2, <4>2, <5>2
      <4> QED BY <1>1, <4>1, <4>2
    <3>6. Delimits(s, f, cl, d, p, hi - 1)
      BY <3>2, <3>3, <3>4, <3>5 DEF Delimits
    <3> QED BY <3>2, <3>3, <3>6 DEF Cut
  <2>3. CASE p # lo /\ p = hi
    <3>1. f = [b EXCEPT !.last = r[p - 1]] /\ p - 1 \in DOMAIN r
      BY <1>1, <1>6, <1>7, <2>3 DEF Shrunk
    <3>2. f \in Slots /\ f.first = r[lo] /\ f.last = r[p - 1] /\ f # EmptyBucket
      BY <1>5, <1>8, <3>1, SentinelAssumption DEF Slots, Delimits, EmptyBucket
    <3>3. lo \in DOMAIN s /\ p - 1 \in DOMAIN s /\ lo <= p - 1
      BY <1>1, <1>6, <2>3
    <3>4. s[lo] = r[lo] /\ s[p - 1] = r[p - 1]
      BY <1>1, <1>3, <3>3
    <3>5. ASSUME NEW i \in DOMAIN s PROVE (lo <= i /\ i <= p - 1) <=> cl[s[i]] = d
      <4>1. CASE i < p
        <5>1. i \in DOMAIN r /\ s[i] = r[i]
          BY <1>3, <4>1
        <5> QED BY <1>1, <1>5, <2>3, <4>1, <5>1 DEF Delimits
      <4>2. CASE i >= p
        <5>1. i + 1 \in DOMAIN r /\ s[i] = r[i + 1] /\ ~(i + 1 <= hi)
          BY <1>1, <1>4, <2>3, <4>2
        <5> QED BY <1>1, <1>5, <4>2, <5>1 DEF Delimits
      <4> QED BY <1>1, <4>1, <4>2
    <3>6. Delimits(s, f, cl, d, lo, p - 1)
      BY <3>2, <3>3, <3>4, <3>5 DEF Delimits
    <3> QED BY <3>2, <3>3, <3>6 DEF Cut
  <2>4. CASE p # lo /\ p # hi
    <3>1. f = b
      BY <1>7, <2>4 DEF Shrunk
    <3>2. lo \in DOMAIN s /\ hi - 1 \in DOMAIN s /\ lo <= hi - 1 /\ lo < p /\ p <= hi - 1
      BY <1>1, <1>6, <2>4
    <3>3. s[lo] = r[lo] /\ s[hi - 1] = r[hi]
      BY <1>1, <1>3, <1>4, <3>2
    <3>4. ASSUME NEW i \in DOMAIN s PROVE (lo <= i /\ i <= hi - 1) <=> cl[s[i]] = d
      <4>1. CASE i < p
        <5>1. i \in DOMAIN r /\ s[i] = r[i]
          BY <1>3, <4>1
        <5> QED BY <1>1, <1>5, <3>2, <4>1, <5>1 DEF Delimits
      <4>2. CASE i >= p
        <5>1. i + 1 \in DOMAIN r /\ s[i] = r[i + 1]
          BY <1>4, <4>2
        <5>2. (lo <= i + 1 /\ i + 1 <= hi) <=> cl[s[i]] = d
          BY <1>5, <5>1 DEF Delimits
        <5> QED BY <1>1, <3>2, <4>2, <5>2
      <4> QED BY <1>1, <4>1, <4>2
    <3>5. Delimits(s, f, cl, d, lo, hi - 1)
      BY <1>5, <3>1, <3>2, <3>3, <3>4 DEF Delimits
    <3> QED BY <3>1, <3>2, <3>5 DEF Cut
  <2> QED BY <2>1, <2>2, <2>3, <2>4
<1>10. ASSUME NEW c, NEW e, c # d, Cut(r, e, cl, c) PROVE Cut(s, e, cl, c)
  <2>1. CASE e = EmptyBucket
    <3>1. ASSUME NEW i \in DOMAIN s PROVE cl[s[i]] # c
      <4>1. i < p \/ i >= p
        BY <1>1
      <4> QED BY <1>3, <1>4, <1>10, <2>1, <4>1 DEF Cut
    <3> QED BY <2>1, <3>1 DEF Cut
  <2>2. CASE e # EmptyBucket
    <3>1. PICK x \in DOMAIN r, y \in DOMAIN r : Delimits(r, e, cl, c, x, y)
      BY <1>10, <2>2 DEF Cut
    <3>2. p < x \/ y < p
      BY <1>1, <1>10, <3>1 DEF Delimits
    <3> DEFINE Move(i) == IF i < p THEN i ELSE i - 1
    <3>3. /\ Move(x) \in DOMAIN s /\ Move(y) \in DOMAIN s /\ Move(x) <= Move(y)
          /\ s[Move(x)] = r[x] /\ s[Move(y)] = r[y]
      <4>1. ASSUME NEW i \in DOMAIN r, i # p PROVE Move(i) \in DOMAIN s /\ s[Move(i)] = r[i]
        <5>1. Move(i) \in DOMAIN s
          BY <1>1, <4>1
        <5>2. CASE i < p
          BY <1>3, <5>1, <5>2
        <5>3. CASE i > p
          <6>1. Move(i) = i - 1 /\ i - 1 >= p /\ i - 1 + 1 = i
            BY <1>1, <5>3
          <6> QED BY <1>4, <5>1, <6>1
        <5> QED BY <1>1, <4>1, <5>2, <5>3
      <4>2. x # p /\ y # p
        BY <1>10, <3>1 DEF Delimits
      <4>3. Move(x) <= Move(y)
        BY <1>1, <3>1, <3>2 DEF Delimits
      <4> QED BY <4>1, <4>2, <4>3
    <3>4. ASSUME NEW i \in DOMAIN s
          PROVE  (Move(x) <= i /\ i <= Move(y)) <=> cl[s[i]] = c
      <4>1. CASE i < p
        <5>1. i \in DOMAIN r /\ s[i] = r[i]
          BY <1>3, <4>1
        <5>2. (x <= i /\ i <= y) <=> cl[s[i]] = c
          BY <3>1, <5>1 DEF Delimits
        <5> QED BY <1>1, <3>1, <3>2, <4>1, <5>2 DEF Delimits
      <4>2. CASE i >= p
        <5>1. i + 1 \in DOMAIN r /\ s[i] = r[i + 1]
          BY <1>4, <4>2
        <5>2. (x <= i + 1 /\ i + 1 <= y) <=> cl[s[i]] = c
          BY <3>1, <5>1 DEF Delimits
        <5> QED BY <1>1, <3>1, <3>2, <4>2, <5>2 DEF Delimits
      <4> QED BY <1>1, <4>1, <4>2
    <3>5. Delimits(s, e, cl, c, Move(x), Move(y))
      BY <3>1, <3>3, <3>4 DEF Delimits
    <3> QED BY <2>2, <3>3, <3>5 DEF Cut
  <2> QED BY <2>1, <2>2
<1> QED BY <1>9, <1>10 DEF s
-----------------------------------------------------------------------------
(* The operations, on a table t whose buckets cut its list.                 *)
Fields == {"ring", "val", "buckets", "grown", "size"}
Class(n) == [k \in Keys |-> Hash[k] % n]
Sizes == 0..Len(Primes) - 1

Sound(t) ==
  /\ DOMAIN t = Fields
  /\ t.grown \in Sizes
  /\ t.ring \in Seq(Keys) /\ Once(t.ring)
  /\ t.buckets \in [0..NumBuckets(t) - 1 -> Slots]
  /\ \A c \in 0..NumBuckets(t) - 1 : Cut(t.ring, t.buckets[c], Class(NumBuckets(t)), c)

LEMMA PrimeIs == ASSUME NEW g \in Sizes PROVE Primes[g + 1] \in Nat \ {0}
BY PrimesAssumption DEF Sizes

LEMMA ClassIs ==
  ASSUME NEW t, t.grown \in Sizes, NEW k \in Keys
  PROVE  /\ NumBuckets(t) \in Nat \ {0}
         /\ Class(NumBuckets(t))[k] = BucketOf(t, k)
         /\ BucketOf(t, k) \in 0..NumBuckets(t) - 1
<1>1. NumBuckets(t) \in Nat \ {0}
  BY PrimeIs DEF NumBuckets
<1>2. Hash[k] \in Nat
  BY HashAssumption
<1>3. Hash[k] % NumBuckets(t) \in 0..NumBuckets(t) - 1
  BY <1>1, <1>2
<1> QED BY <1>1, <1>3 DEF Class, BucketOf

(* The cells an update of a bucket leaves.                                  *)
LEMMA BucketSet ==
  ASSUME NEW n \in Nat, NEW bs \in [0..n - 1 -> Slots], NEW d \in 0..n - 1, NEW b \in Slots
  PROVE  /\ [bs EXCEPT ![d] = b] \in [0..n - 1 -> Slots]
         /\ [bs EXCEPT ![d] = b][d] = b
         /\ \A c \in 0..n - 1 : c # d => [bs EXCEPT ![d] = b][c] = bs[c]
OBVIOUS

(* insert_to_bucket takes in a key that is not on the list.                 *)
Inserts(t, u, k) ==
  /\ Sound(u)
  /\ ToSet(u.ring) = ToSet(t.ring) \cup {k} /\ Len(u.ring) = Len(t.ring) + 1
  /\ InOrder(t.ring, u.ring, k)
  /\ u.val = t.val /\ u.grown = t.grown /\ u.size = t.size

LEMMA InsertIs ==
  ASSUME NEW t, Sound(t), NEW k \in Keys \ ToSet(t.ring)
  PROVE  Inserts(t, InsertToBucket(t, k), k)
<1> DEFINE u == InsertToBucket(t, k)
           n == NumBuckets(t)
           d == BucketOf(t, k)
           b == t.buckets[d]
           r == t.ring
           cl == Class(n)
<1>1. k \in Keys /\ d \in 0..n - 1 /\ n \in Nat \ {0} /\ cl[k] = d
  BY ClassIs DEF Sound
<1>2. r \in Seq(Keys) /\ Once(r) /\ t.buckets \in [0..n - 1 -> Slots] /\ b \in Slots
  BY <1>1 DEF Sound
<1>3. \A c \in 0..n - 1 : Cut(r, t.buckets[c], cl, c)
  BY DEF Sound
<1>4. CASE b = EmptyBucket
  <2> DEFINE f == [first |-> k, last |-> k]
             s == Append(r, k)
             bs == [t.buckets EXCEPT ![d] = f]
  <2>1. u = [t EXCEPT !.ring = Append(@, k), !.buckets[d] = f]
    BY <1>4 DEF InsertToBucket
  <2>2. /\ DOMAIN u = Fields /\ u.ring = s /\ u.buckets = bs
        /\ u.val = t.val /\ u.grown = t.grown /\ u.size = t.size
    BY <2>1 DEF Sound, Fields
  <2>3. f \in Slots
    BY <1>1, SlotIs
  <2>4. Cut(s, f, cl, d) /\ \A c, e : c # d /\ Cut(r, e, cl, c) => Cut(s, e, cl, c)
    BY <1>1, <1>2, <1>3, <1>4, AppendCuts
  <2>5. s \in Seq(Keys) /\ Len(s) = Len(r) + 1
    BY <1>1, <1>2, AppendIs
  <2>6. Once(s) /\ ToSet(s) = ToSet(r) \cup {k} /\ InOrder(r, s, k)
    BY <1>2, AppendedTo
  <2>7. bs \in [0..n - 1 -> Slots] /\ \A c \in 0..n - 1 : Cut(s, bs[c], cl, c)
    <3>1. bs[d] = f /\ \A c \in 0..n - 1 : c # d => bs[c] = t.buckets[c]
      BY <1>2, <1>1, <2>3, BucketSet
    <3>2. bs \in [0..n - 1 -> Slots]
      BY <1>2, <1>1, <2>3, BucketSet
    <3> HIDE DEF bs, f, s
    <3>3. ASSUME NEW c \in 0..n - 1 PROVE Cut(s, bs[c], cl, c)
      BY <1>3, <2>4, <3>1
    <3> QED BY <3>2, <3>3
  <2>8. NumBuckets(u) = n
    BY <2>2 DEF NumBuckets
  <2>9. t.grown \in Sizes
    BY DEF Sound
  <2> HIDE DEF u, n, d, bs, s
  <2> QED BY <2>2, <2>5, <2>6, <2>7, <2>8, <2>9 DEF Sound, Inserts, u, r
<1>5. CASE b # EmptyBucket
  <2>1. PICK p \in DOMAIN r, q \in DOMAIN r : Delimits(r, b, cl, d, p, q)
    BY <1>1, <1>3, <1>5 DEF Cut
  <2>2. Position(r, b.first) = p /\ b.first = r[p]
    BY <1>2, <2>1, PositionIs DEF Delimits
  <2> DEFINE f == [first |-> k, last |-> b.last]
             s == InsertAt(r, p, k)
             bs == [t.buckets EXCEPT ![d] = f]
  <2>3. [b EXCEPT !.first = k] = f
    BY <1>2 DEF Slots
  <2>4. u = [t EXCEPT !.ring = InsertAt(@, Position(@, b.first), k), !.buckets[d].first = k]
    BY <1>5 DEF InsertToBucket
  <2>5. /\ DOMAIN u = Fields /\ u.ring = InsertAt(r, Position(r, b.first), k)
        /\ u.buckets = [t.buckets EXCEPT ![d] = [b EXCEPT !.first = k]]
        /\ u.val = t.val /\ u.grown = t.grown /\ u.size = t.size
    BY <2>4 DEF Sound, Fields
  <2>6. u.ring = s /\ u.buckets = bs
    BY <2>2, <2>3, <2>5
  <2>7. f \in Slots
    BY <1>1, <1>2 DEF Slots
  <2>8. Cut(s, f, cl, d) /\ \A c, e : c # d /\ Cut(r, e, cl, c) => Cut(s, e, cl, c)
    BY <1>1, <1>2, <2>1, InsertCuts
  <2>9. p \in 1..Len(r)
    BY <1>2, LenProperties
  <2>10. s \in Seq(Keys) /\ Len(s) = Len(r) + 1
    BY <1>1, <1>2, <2>9, InsertAtIs
  <2>11. Once(s) /\ ToSet(s) = ToSet(r) \cup {k} /\ InOrder(r, s, k)
    BY <1>2, <2>9, InsertedInto
  <2>12. bs \in [0..n - 1 -> Slots] /\ \A c \in 0..n - 1 : Cut(s, bs[c], cl, c)
    <3>1. bs[d] = f /\ \A c \in 0..n - 1 : c # d => bs[c] = t.buckets[c]
      BY <1>2, <1>1, <2>7, BucketSet
    <3>2. bs \in [0..n - 1 -> Slots]
      BY <1>2, <1>1, <2>7, BucketSet
    <3> HIDE DEF bs, f, s
    <3>3. ASSUME NEW c \in 0..n - 1 PROVE Cut(s, bs[c], cl, c)
      BY <1>3, <2>8, <3>1
    <3> QED BY <3>2, <3>3
  <2>13. NumBuckets(u) = n
    BY <2>5 DEF NumBuckets
  <2>14. t.grown \in Sizes
    BY DEF Sound
  <2> HIDE DEF u, n, d, bs, s
  <2> QED BY <2>5, <2>6, <2>10, <2>11, <2>12, <2>13, <2>14 DEF Sound, Inserts, u, r
<1> QED BY <1>4, <1>5

(* hashtable_find_pair finds the keys that are on the list.                 *)
LEMMA FoundIs ==
  ASSUME NEW t, Sound(t), NEW k \in Keys
  PROVE  Found(t, k) <=> k \in ToSet(t.ring)
<1> DEFINE n == NumBuckets(t)
           d == BucketOf(t, k)
           b == t.buckets[d]
           r == t.ring
           cl == Class(n)
<1>1. d \in 0..n - 1 /\ n \in Nat \ {0} /\ cl[k] = d
  BY ClassIs DEF Sound
<1>2. r \in Seq(Keys) /\ Once(r) /\ Cut(r, b, cl, d)
  BY <1>1 DEF Sound
<1>3. DOMAIN r = 1..Len(r) /\ Len(r) \in Nat
  BY <1>2, LenProperties
<1>4. CASE b = EmptyBucket
  <2>1. \A i \in DOMAIN r : r[i] # k
    BY <1>1, <1>2, <1>4 DEF Cut
  <2> QED BY <1>4, <2>1 DEF Found, ToSet
<1>5. CASE b # EmptyBucket
  <2>1. PICK lo \in DOMAIN r, hi \in DOMAIN r : Delimits(r, b, cl, d, lo, hi)
    BY <1>2, <1>5 DEF Cut
  <2>2. Position(r, b.first) = lo /\ Position(r, b.last) = hi
    BY <1>2, <2>1, PositionIs DEF Delimits
  <2>3. Found(t, k) <=> \E i \in lo..hi : r[i] = k
    BY <1>5, <2>2 DEF Found
  <2>4. lo..hi \subseteq DOMAIN r
    BY <1>3
  <2>5. \A i \in DOMAIN r : r[i] = k => i \in lo..hi
    BY <1>1, <1>3, <2>1 DEF Delimits
  <2> QED BY <2>3, <2>4, <2>5 DEF ToSet
<1> QED BY <1>4, <1>5

(* hashtable_do_del takes a key off, if it is there.                        *)
Deletes(t, u, k) ==
  /\ Sound(u)
  /\ ToSet(u.ring) = ToSet(t.ring) \ {k} /\ Len(u.ring) = Len(t.ring) - 1
  /\ InOrder(t.ring, u.ring, k)
  /\ u.val = [t.val EXCEPT ![k] = None] /\ u.grown = t.grown /\ u.size = t.size - 1

LEMMA DeleteIs ==
  ASSUME NEW t, Sound(t), NEW k \in Keys
  PROVE  IF k \in ToSet(t.ring) THEN Deletes(t, DoDel(t, k), k) ELSE DoDel(t, k) = t
<1>1. CASE k \notin ToSet(t.ring)
  BY <1>1, FoundIs DEF DoDel
<1>2. CASE k \in ToSet(t.ring)
  <2> DEFINE u == DoDel(t, k)
             n == NumBuckets(t)
             d == BucketOf(t, k)
             b == t.buckets[d]
             r == t.ring
             cl == Class(n)
  <2>1. d \in 0..n - 1 /\ n \in Nat \ {0} /\ cl[k] = d
    BY ClassIs DEF Sound
  <2>2. r \in Seq(Keys) /\ Once(r) /\ t.buckets \in [0..n - 1 -> Slots] /\ b \in Slots
    BY <2>1 DEF Sound
  <2>3. \A c \in 0..n - 1 : Cut(r, t.buckets[c], cl, c)
    BY DEF Sound
  <2>4. b # EmptyBucket
    BY <1>2, FoundIs DEF Found
  <2>5. PICK p \in DOMAIN r : r[p] = k
    BY <1>2 DEF ToSet
  <2>6. Position(r, k) = p /\ p \in 1..Len(r)
    BY <2>2, <2>5, PositionIs, LenProperties
  <2> DEFINE f == Shrunk(r, b, k)
             s == RemoveAt(r, p)
             bs == [t.buckets EXCEPT ![d] = f]
  <2>7. u = [t EXCEPT !.buckets[d] = Shrunk(t.ring, @, k),
                      !.ring = RemoveAt(@, Position(@, k)), !.val[k] = None, !.size = @ - 1]
    BY <1>2, FoundIs DEF DoDel
  <2>8. /\ DOMAIN u = Fields /\ u.ring = RemoveAt(r, Position(r, k))
        /\ u.buckets = bs /\ u.val = [t.val EXCEPT ![k] = None]
        /\ u.grown = t.grown /\ u.size = t.size - 1
    BY <2>7 DEF Sound, Fields
  <2>9. u.ring = s
    BY <2>6, <2>8
  <2>10. /\ f \in Slots /\ Cut(s, f, cl, d)
         /\ \A c, e : c # d /\ Cut(r, e, cl, c) => Cut(s, e, cl, c)
    BY <2>1, <2>2, <2>3, <2>4, <2>5, RemoveCuts
  <2>11. s \in Seq(Keys) /\ Len(s) = Len(r) - 1
    BY <2>2, <2>6, RemoveAtIs
  <2>12. Once(s) /\ ToSet(s) = ToSet(r) \ {k} /\ InOrder(r, s, k)
    BY <2>2, <2>5, <2>6, RemovedFrom
  <2>13. bs \in [0..n - 1 -> Slots] /\ \A c \in 0..n - 1 : Cut(s, bs[c], cl, c)
    <3>1. bs[d] = f /\ \A c \in 0..n - 1 : c # d => bs[c] = t.buckets[c]
      BY <2>2, <2>1, <2>10, BucketSet
    <3>2. bs \in [0..n - 1 -> Slots]
      BY <2>2, <2>1, <2>10, BucketSet
    <3> HIDE DEF bs, f, s
    <3>3. ASSUME NEW c \in 0..n - 1 PROVE Cut(s, bs[c], cl, c)
      BY <2>3, <2>10, <3>1
    <3> QED BY <3>2, <3>3
  <2>14. NumBuckets(u) = n
    BY <2>8 DEF NumBuckets
  <2>15. t.grown \in Sizes
    BY DEF Sound
  <2>16. Deletes(t, u, k)
    <3> HIDE DEF u, n, d, bs, s
    <3> QED BY <2>8, <2>9, <2>11, <2>12, <2>13, <2>14, <2>15 DEF Sound, Deletes, r
  <2> QED BY <1>2, <2>16
<1> QED BY <1>1, <1>2

(* hashtable_do_rehash puts every pair into the new buckets.                *)
Unfilled(t) ==
  [t EXCEPT !.grown = @ + 1, !.ring = <<>>, !.buckets = NoBuckets(Primes[t.grown + 2])]
Moves(t, M, n) ==
  M = [i \in 0..n |-> IF i = 0 THEN Unfilled(t) ELSE InsertToBucket(M[i - 1], t.ring[i])]

LEMMA MovesExist == ASSUME NEW t, NEW n \in Nat PROVE \E M : Moves(t, M, n)
<1> DEFINE Ok == {m \in Nat : \E M : Moves(t, M, m)}
<1>1. 0 \in Ok
  <2>1. Moves(t, [i \in 0..0 |-> Unfilled(t)], 0)
    BY DEF Moves
  <2> QED BY <2>1
<1>2. ASSUME NEW m \in Ok PROVE m + 1 \in Ok
  <2>1. m \in Nat
    OBVIOUS
  <2>2. PICK M : Moves(t, M, m)
    OBVIOUS
  <2> DEFINE N == [i \in 0..m + 1 |-> IF i <= m THEN M[i]
                                      ELSE InsertToBucket(M[m], t.ring[m + 1])]
  <2>3. \A i \in 0..m : N[i] = M[i]
    BY <2>1
  <2>4. \A i \in 0..m : M[i] = IF i = 0 THEN Unfilled(t)
                                ELSE InsertToBucket(M[i - 1], t.ring[i])
    BY <2>2 DEF Moves
  <2>5. N[m + 1] = InsertToBucket(M[m], t.ring[m + 1])
    BY <2>1
  <2>6. DOMAIN N = 0..m + 1 /\ N = [i \in 0..m + 1 |-> N[i]]
    OBVIOUS
  <2> HIDE DEF N
  <2>7. ASSUME NEW i \in 0..m + 1
        PROVE  N[i] = IF i = 0 THEN Unfilled(t) ELSE InsertToBucket(N[i - 1], t.ring[i])
    <3>1. CASE i = 0
      BY <2>1, <2>3, <2>4, <3>1
    <3>2. CASE i \in 1..m
      <4>1. i - 1 \in 0..m /\ i \in 0..m /\ i # 0
        BY <2>1, <3>2
      <4>2. N[i] = M[i] /\ N[i - 1] = M[i - 1]
        BY <2>3, <4>1
      <4> QED BY <2>4, <4>1, <4>2
    <3>3. CASE i = m + 1
      <4>1. i - 1 = m /\ m \in 0..m /\ i # 0
        BY <2>1, <3>3
      <4>2. N[i - 1] = M[m]
        BY <2>3, <4>1
      <4> QED BY <2>5, <3>3, <4>1, <4>2
    <3> QED BY <2>1, <3>1, <3>2, <3>3
  <2>8. Moves(t, N, m + 1)
    BY <2>6, <2>7 DEF Moves
  <2> QED BY <2>1, <2>8
<1>3. Ok = Nat
  <2> HIDE DEF Ok
  <2>1. Ok \in SUBSET Nat
    BY DEF Ok
  <2> QED BY <1>1, <1>2, <2>1, Induction
<1> QED BY <1>3

LEMMA RehashMoves ==
  ASSUME NEW t, t.ring \in Seq(Keys)
  PROVE  \E M : Moves(t, M, Len(t.ring)) /\ DoRehash(t) = M[Len(t.ring)]
<1> DEFINE M == CHOOSE M : Moves(t, M, Len(t.ring))
<1>1. Moves(t, M, Len(t.ring))
  BY MovesExist, LenProperties
<1>2. DoRehash(t) = M[Len(t.ring)]
  BY Zenon DEF DoRehash, Moves, Unfilled
<1> QED BY <1>1, <1>2

Regrown(t, u) ==
  /\ Sound(u)
  /\ ToSet(u.ring) = ToSet(t.ring) /\ Len(u.ring) = Len(t.ring)
  /\ u.val = t.val /\ u.grown = t.grown + 1 /\ u.size = t.size

LEMMA UnfilledIs ==
  ASSUME NEW t, Sound(t), t.grown + 1 \in Sizes
  PROVE  LET u == Unfilled(t) IN
         /\ Sound(u) /\ u.ring = <<>>
         /\ u.val = t.val /\ u.grown = t.grown + 1 /\ u.size = t.size
<1> DEFINE u == Unfilled(t)
           n == Primes[t.grown + 2]
<1>1. /\ DOMAIN u = Fields /\ u.grown = t.grown + 1 /\ u.ring = <<>>
      /\ u.buckets = NoBuckets(n) /\ u.val = t.val /\ u.size = t.size
  BY DEF Unfilled, Sound, Fields
<1>2. NumBuckets(u) = n /\ n \in Nat \ {0}
  <2>1. t.grown + 1 + 1 = t.grown + 2
    BY DEF Sound, Sizes
  <2> QED BY <1>1, <2>1, PrimeIs DEF NumBuckets
<1>3. EmptyBucket \in Slots
  BY DEF EmptyBucket, Slots
<1>4. u.buckets \in [0..n - 1 -> Slots] /\ \A c \in 0..n - 1 : u.buckets[c] = EmptyBucket
  BY <1>1, <1>3 DEF NoBuckets
<1>5. u.ring \in Seq(Keys) /\ DOMAIN u.ring = {}
  BY <1>1
<1> HIDE DEF u, n
<1>6. Once(u.ring) /\ \A c \in 0..n - 1 : Cut(u.ring, u.buckets[c], Class(n), c)
  BY <1>4, <1>5 DEF Once, Cut
<1> QED BY <1>1, <1>2, <1>4, <1>5, <1>6 DEF Sound, u

LEMMA RehashIs ==
  ASSUME NEW t, Sound(t), t.grown + 1 \in Sizes
  PROVE  Regrown(t, DoRehash(t))
<1> DEFINE r == t.ring
           L == Len(r)
<1>1. r \in Seq(Keys) /\ Once(r) /\ L \in Nat /\ DOMAIN r = 1..L
  BY LenProperties DEF Sound
<1>2. PICK M : Moves(t, M, L) /\ DoRehash(t) = M[L]
  BY <1>1, RehashMoves
<1>3. /\ M[0] = Unfilled(t)
      /\ \A i \in 1..L : M[i] = InsertToBucket(M[i - 1], r[i])
  <2>1. \A i \in 0..L : M[i] = IF i = 0 THEN Unfilled(t)
                                ELSE InsertToBucket(M[i - 1], t.ring[i])
    BY <1>2 DEF Moves
  <2>2. 0 \in 0..L /\ \A i \in 1..L : i \in 0..L /\ i # 0
    BY <1>1
  <2> QED BY <2>1, <2>2
<1> DEFINE Done(u, n) ==
             /\ Sound(u)
             /\ ToSet(u.ring) = {r[i] : i \in 1..n} /\ Len(u.ring) = n
             /\ u.val = t.val /\ u.grown = t.grown + 1 /\ u.size = t.size
           Ok == {n \in Nat : n <= L => Done(M[n], n)}
<1>4. 0 \in Ok
  <2>1. Sound(M[0]) /\ M[0].ring = <<>>
    BY <1>3, UnfilledIs
  <2>2. ToSet(M[0].ring) = {} /\ Len(M[0].ring) = 0
    BY <2>1 DEF ToSet
  <2>3. {r[i] : i \in 1..0} = {}
    OBVIOUS
  <2> QED BY <1>3, <2>1, <2>2, <2>3, UnfilledIs
<1>5. ASSUME NEW n \in Ok PROVE n + 1 \in Ok
  <2> SUFFICES ASSUME n + 1 <= L PROVE Done(M[n + 1], n + 1)
    OBVIOUS
  <2>1. n \in Nat /\ n <= L /\ n + 1 \in 1..L /\ n + 1 - 1 = n
    BY <1>1
  <2>2. Done(M[n], n)
    BY <2>1
  <2>3. M[n + 1] = InsertToBucket(M[n], r[n + 1])
    BY <1>3, <2>1
  <2>4. r[n + 1] \in Keys
    BY <1>1, <2>1, ElementOfSeq
  <2>5. r[n + 1] \notin ToSet(M[n].ring)
    <3>1. \A i \in 1..n : i \in DOMAIN r /\ i # n + 1
      BY <1>1, <2>1
    <3>2. n + 1 \in DOMAIN r
      BY <1>1, <2>1
    <3>3. \A i \in 1..n : r[i] # r[n + 1]
      BY <1>1, <3>1, <3>2 DEF Once
    <3> QED BY <2>2, <3>3
  <2>6. Inserts(M[n], M[n + 1], r[n + 1])
    BY <2>2, <2>3, <2>4, <2>5, InsertIs, SMTT(30)
  <2>7. {r[i] : i \in 1..n + 1} = {r[i] : i \in 1..n} \cup {r[n + 1]}
    BY <2>1
  <2> QED BY <2>2, <2>6, <2>7 DEF Inserts
<1>6. L \in Ok
  <2>1. Ok \in SUBSET Nat
    OBVIOUS
  <2> HIDE DEF Ok
  <2>2. Ok = Nat
    BY <1>4, <1>5, <2>1, Induction
  <2> QED BY <1>1, <2>2
<1>7. Done(M[L], L)
  <2>1. L \in Nat /\ L <= L
    BY <1>1
  <2> HIDE DEF Done, L
  <2> QED BY <1>6, <2>1
<1>8. {r[i] : i \in 1..L} = ToSet(r)
  BY <1>1 DEF ToSet
<1> QED BY <1>2, <1>7, <1>8 DEF Regrown
-----------------------------------------------------------------------------
(* The steps.  Whether it has buckets or not, a table's list has the keys   *)
(* that have a value, once each, and its size is their number.              *)
Kept(t) ==
  /\ t.grown \in Sizes
  /\ t.ring \in Seq(Keys) /\ Once(t.ring) /\ t.size = Len(t.ring)
  /\ t.val \in [Keys -> Vals \cup {None}]
  /\ \A k \in Keys : t.val[k] # None <=> k \in ToSet(t.ring)
Usable(t) == Sound(t) /\ Kept(t)

(* An iterator is on the list, and the keys that stayed are there too: up   *)
(* to the iterator it has pointed to them.                                  *)
Reached(r) ==
  /\ through \subseteq ToSet(r)
  /\ \E p \in DOMAIN r :
       /\ r[p] = iter
       /\ \A i \in 1..p : r[i] \in through => r[i] \in visited

Inv ==
  /\ Kept(Table)
  /\ buckets # <<>> => Sound(Table)
  /\ iter \in Keys \cup {Sentinel} /\ visited \subseteq Keys /\ through \subseteq Keys
IterInv == iter # Sentinel => Reached(ring)

(* A list on which nothing is twice is as long as its set is large.         *)
LEMMA OnceCounts ==
  ASSUME NEW r \in Seq(Keys), Once(r)
  PROVE  /\ Cardinality(ToSet(r)) = Len(r)
         /\ ToSet(r) \subseteq Keys
         /\ Len(r) <= Cardinality(Keys)
         /\ \A k \in Keys \ ToSet(r) : Len(r) < Cardinality(Keys)
<1>1. DOMAIN r = 1..Len(r) /\ Len(r) \in Nat /\ \A i \in DOMAIN r : r[i] \in Keys
  BY LenProperties, ElementOfSeq
<1>2. ToSet(r) \subseteq Keys
  BY <1>1 DEF ToSet
<1>3. r \in [1..Len(r) -> ToSet(r)]
  BY <1>1 DEF ToSet
<1>4. IsInjective(r)
  BY DEF Once, IsInjective
<1>5. \A x \in ToSet(r) : \E i \in 1..Len(r) : r[i] = x
  BY <1>1 DEF ToSet
<1>6. r \in Bijection(1..Len(r), ToSet(r))
  BY <1>3, <1>4, <1>5 DEF Bijection, Injection, Surjection
<1>7. ExistsBijection(1..Len(r), ToSet(r))
  BY <1>6 DEF ExistsBijection
<1>8. Cardinality(ToSet(r)) = Len(r)
  BY <1>1, <1>7, FS_CountingElements
<1>9. /\ Cardinality(ToSet(r)) <= Cardinality(Keys)
      /\ Cardinality(Keys) = Cardinality(ToSet(r)) => Keys = ToSet(r)
      /\ Cardinality(Keys) \in Nat
  BY <1>2, KeysAssumption, FS_Subset, FS_CardinalityType
<1> QED BY <1>1, <1>2, <1>8, <1>9

(* hashtable_set makes room: what is left of the table does not have k.     *)
LEMMA DeletedIs ==
  ASSUME NEW t, Usable(t), NEW k \in Keys
  PROVE  LET u == DoDel(t, k) IN
         /\ Usable(u) /\ ToSet(u.ring) = ToSet(t.ring) \ {k}
         /\ u.val = [t.val EXCEPT ![k] = None] /\ InOrder(t.ring, u.ring, k)
<1> DEFINE u == DoDel(t, k)
<1>1. CASE k \in ToSet(t.ring)
  <2>1. Deletes(t, u, k)
    BY <1>1, DeleteIs DEF Usable
  <2> HIDE DEF u
  <2>2. u.ring \in Seq(Keys) /\ Once(u.ring) /\ u.grown \in Sizes /\ u.size = Len(u.ring)
    BY <2>1 DEF Deletes, Sound, Usable, Kept
  <2>3. u.val \in [Keys -> Vals \cup {None}]
    BY <2>1 DEF Deletes, Usable, Kept
  <2>4. \A q \in Keys : u.val[q] # None <=> q \in ToSet(u.ring)
    BY <2>1 DEF Deletes, Usable, Kept
  <2> QED BY <2>1, <2>2, <2>3, <2>4 DEF Deletes, Usable, Kept, u
<1>2. CASE k \notin ToSet(t.ring)
  <2>1. u = t
    BY <1>2, DeleteIs DEF Usable
  <2>2. t.val[k] = None /\ t.val \in [Keys -> Vals \cup {None}]
    BY <1>2 DEF Usable, Kept
  <2>3. t.val = [t.val EXCEPT ![k] = None]
    BY <2>2
  <2>4. InOrder(t.ring, t.ring, k)
    BY DEF InOrder
  <2> QED BY <1>2, <2>1, <2>3, <2>4
<1> QED BY <1>1, <1>2

(* The list of sizes does not end before the table holds every key, so the  *)
(* next prime that hashtable_do_rehash reads is there.                      *)
LEMMA FullGrows ==
  ASSUME NEW t, Usable(t), NEW k \in Keys, k \notin ToSet(t.ring), Full(t)
  PROVE  t.grown + 1 \in Sizes
<1>1. Len(t.ring) < Cardinality(Keys) /\ Len(t.ring) >= Primes[t.grown + 1]
  BY OnceCounts DEF Usable, Kept, Full, NumBuckets
<1>2. Primes[Len(Primes)] >= Cardinality(Keys) /\ Len(Primes) \in Nat \ {0}
  BY PrimesAssumption
<1>3. Cardinality(Keys) \in Nat /\ Len(t.ring) \in Nat
  BY KeysAssumption, FS_CardinalityType DEF Usable, Kept
<1>4. t.grown \in 0..Len(Primes) - 1 /\ Primes[t.grown + 1] \in Nat
  BY PrimeIs DEF Usable, Kept, Sizes
<1>5. t.grown + 1 # Len(Primes)
  <2> SUFFICES ASSUME t.grown + 1 = Len(Primes) PROVE FALSE
    OBVIOUS
  <2>1. Primes[t.grown + 1] >= Cardinality(Keys)
    BY <1>2
  <2> QED BY <1>1, <1>3, <1>4, <2>1
<1> QED BY <1>2, <1>4, <1>5 DEF Sizes

LEMMA GrownIs ==
  ASSUME NEW t, Usable(t), NEW k \in Keys, k \notin ToSet(t.ring)
  PROVE  LET u == Grown(t) IN
         /\ Usable(u) /\ ToSet(u.ring) = ToSet(t.ring) /\ u.val = t.val
         /\ ~Full(t) => u = t
<1> DEFINE u == Grown(t)
<1>1. CASE Full(t)
  <2>1. Regrown(t, u)
    BY <1>1, FullGrows, RehashIs DEF Grown, Usable
  <2> HIDE DEF u
  <2>2. Kept(u)
    BY <2>1 DEF Regrown, Sound, Usable, Kept
  <2> QED BY <1>1, <2>1, <2>2 DEF Regrown, Usable, u
<1>2. CASE ~Full(t)
  BY <1>2 DEF Grown
<1> QED BY <1>1, <1>2

LEMMA AddedIs ==
  ASSUME NEW t, Usable(t), NEW k \in Keys, k \notin ToSet(t.ring), NEW v \in Vals
  PROVE  LET u == Added(t, k, v) IN
         /\ Usable(u) /\ ToSet(u.ring) = ToSet(t.ring) \cup {k}
         /\ u.val = [t.val EXCEPT ![k] = v] /\ InOrder(t.ring, u.ring, k)
<1> DEFINE w == [t EXCEPT !.val[k] = v, !.size = @ + 1]
           u == Added(t, k, v)
<1>1. /\ DOMAIN w = Fields /\ w.ring = t.ring /\ w.buckets = t.buckets
      /\ w.grown = t.grown /\ w.size = t.size + 1 /\ w.val = [t.val EXCEPT ![k] = v]
  BY DEF Usable, Sound, Fields
<1>2. u = InsertToBucket(w, k)
  BY DEF Added
<1> HIDE DEF u, w
<1>3. Sound(w)
  <2>1. NumBuckets(w) = NumBuckets(t)
    BY <1>1 DEF NumBuckets
  <2> QED BY <1>1, <2>1 DEF Usable, Sound
<1>4. Inserts(w, u, k)
  BY <1>1, <1>2, <1>3, InsertIs
<1>5. u.val = [t.val EXCEPT ![k] = v] /\ ToSet(u.ring) = ToSet(t.ring) \cup {k}
  BY <1>1, <1>4 DEF Inserts
<1>6. u.ring \in Seq(Keys) /\ Once(u.ring) /\ u.grown \in Sizes /\ u.size = Len(u.ring)
  BY <1>1, <1>4 DEF Inserts, Sound, Usable, Kept
<1>7. u.val \in [Keys -> Vals \cup {None}]
  BY <1>5 DEF Usable, Kept
<1>8. \A q \in Keys : u.val[q] # None <=> q \in ToSet(u.ring)
  BY <1>5, NoneAssumption DEF Usable, Kept
<1> QED BY <1>1, <1>4, <1>5, <1>6, <1>7, <1>8 DEF Inserts, Usable, Kept, u

(* What hashtable_set and hashtable_del have in common: the value of k      *)
(* becomes x, and the other keys stay, in order if no iterator minds growth.*)
Gives(k, x) ==
  /\ Kept(Table)' /\ (buckets' # <<>> => Sound(Table)')
  /\ ToSet(ring') \ {k} = ToSet(ring) \ {k}
  /\ val' = [val EXCEPT ![k] = x]
  /\ iter # Sentinel /\ ~GrowWhileIterating => InOrder(ring, ring', k)

LEMMA TableIs ==
  /\ DOMAIN Table = Fields
  /\ Table.ring = ring /\ Table.val = val /\ Table.buckets = buckets
  /\ Table.grown = grown /\ Table.size = size
BY DEF Table, Fields

LEMMA BecomesIs ==
  ASSUME NEW t, Becomes(t), Kept(t), t.buckets # <<>> => Sound(t)
  PROVE  Kept(Table)' /\ (buckets' # <<>> => Sound(Table)')
<1>1. /\ DOMAIN Table' = Fields
      /\ Table'.ring = t.ring /\ Table'.val = t.val /\ Table'.buckets = t.buckets
      /\ Table'.grown = t.grown /\ Table'.size = t.size /\ buckets' = t.buckets
  BY DEF Table, Fields, Becomes
<1>2. Kept(Table')
  BY <1>1 DEF Kept
<1>3. buckets' # <<>> => Sound(Table')
  <2>1. NumBuckets(Table') = NumBuckets(t)
    BY <1>1 DEF NumBuckets
  <2> HIDE DEF Table
  <2> QED BY <1>1, <2>1 DEF Sound
<1> QED BY <1>2, <1>3 DEF Kept, Sound, NumBuckets, Table

LEMMA UsableIs == ASSUME Inv, buckets # <<>> PROVE Usable(Table)
BY DEF Inv, Usable

LEMMA InOrderTwice ==
  ASSUME NEW r, NEW s, NEW u, NEW k, InOrder(r, s, k), InOrder(s, u, k)
  PROVE  InOrder(r, u, k)
<1> SUFFICES ASSUME NEW i \in DOMAIN u, NEW j \in DOMAIN u, u[i] # k, u[j] # k, i <= j
             PROVE  \E g, h \in DOMAIN r : g <= h /\ r[g] = u[i] /\ r[h] = u[j]
  BY DEF InOrder
<1>1. PICK g \in DOMAIN s, h \in DOMAIN s : g <= h /\ s[g] = u[i] /\ s[h] = u[j]
  BY DEF InOrder
<1> QED BY <1>1 DEF InOrder

(* A step that works on the table makes room for k first.                   *)
LEMMA RoomIs ==
  ASSUME Inv, NEW k \in Keys, Touch(k)
  PROVE  LET u == DoDel(Table, k)
             g == Grown(u)
         IN
         /\ Usable(u) /\ u.val = [val EXCEPT ![k] = None]
         /\ Usable(g) /\ g.val = [val EXCEPT ![k] = None]
         /\ k \notin ToSet(u.ring) /\ k \notin ToSet(g.ring)
         /\ ToSet(u.ring) = ToSet(ring) \ {k} /\ ToSet(g.ring) = ToSet(ring) \ {k}
         /\ InOrder(ring, u.ring, k) /\ (~Full(u) => InOrder(ring, g.ring, k))
<1> DEFINE u == DoDel(Table, k)
           g == Grown(u)
<1>1. Usable(Table)
  BY UsableIs DEF Touch
<1>2. /\ Usable(u) /\ ToSet(u.ring) = ToSet(ring) \ {k}
      /\ u.val = [val EXCEPT ![k] = None] /\ InOrder(ring, u.ring, k)
  BY <1>1, DeletedIs, TableIs
<1> HIDE DEF u
<1>3. /\ Usable(g) /\ ToSet(g.ring) = ToSet(u.ring) /\ g.val = u.val
      /\ ~Full(u) => g = u
  BY <1>2, GrownIs
<1> HIDE DEF g
<1> QED BY <1>2, <1>3 DEF u, g

LEMMA SetGives ==
  ASSUME Inv, NEW k \in Keys, NEW v \in Vals, Set(k, v)
  PROVE  Gives(k, v)
<1> DEFINE u == DoDel(Table, k)
           g == Grown(u)
           w == Added(g, k, v)
<1>1. Touch(k) /\ MayGrow(k) /\ Becomes(w)
  BY DEF Set
<1>2. /\ Usable(g) /\ g.val = [val EXCEPT ![k] = None] /\ k \notin ToSet(g.ring)
      /\ ToSet(g.ring) = ToSet(ring) \ {k} /\ (~Full(u) => InOrder(ring, g.ring, k))
  BY <1>1, RoomIs
<1>3. MayGrow(k) => iter = Sentinel \/ ~Full(u) \/ GrowWhileIterating
  BY DEF MayGrow
<1> HIDE DEF u, g
<1>4. /\ Usable(w) /\ ToSet(w.ring) = ToSet(g.ring) \cup {k}
      /\ w.val = [g.val EXCEPT ![k] = v] /\ InOrder(g.ring, w.ring, k)
  BY <1>2, AddedIs
<1> HIDE DEF w
<1>5. Kept(Table)' /\ (buckets' # <<>> => Sound(Table)')
  BY <1>1, <1>4, BecomesIs DEF Usable
<1>6. ring' = w.ring /\ val' = w.val
  BY <1>1 DEF Becomes
<1>7. val' = [val EXCEPT ![k] = v]
  <2>1. val \in [Keys -> Vals \cup {None}]
    BY TableIs DEF Inv, Kept
  <2> QED BY <1>2, <1>4, <1>6, <2>1
<1>8. ~Full(u) => InOrder(ring, ring', k)
  BY <1>2, <1>4, <1>6, InOrderTwice
<1> QED BY <1>1, <1>2, <1>3, <1>4, <1>5, <1>6, <1>7, <1>8 DEF Gives

LEMMA SetFailsGives ==
  ASSUME Inv, NEW k \in Keys, SetFails(k)
  PROVE  Gives(k, None)
<1> DEFINE u == DoDel(Table, k)
           g == Grown(u)
           w == [u EXCEPT !.buckets = <<>>, !.grown = @ + 1]
<1>1. Touch(k) /\ MayGrow(k) /\ (Becomes(g) \/ (Full(u) /\ Becomes(w)))
  BY DEF SetFails
<1>2. /\ Usable(u) /\ u.val = [val EXCEPT ![k] = None]
      /\ Usable(g) /\ g.val = [val EXCEPT ![k] = None]
      /\ k \notin ToSet(u.ring) /\ k \notin ToSet(g.ring)
      /\ ToSet(u.ring) = ToSet(ring) \ {k} /\ ToSet(g.ring) = ToSet(ring) \ {k}
      /\ (~Full(u) => InOrder(ring, g.ring, k))
  BY <1>1, RoomIs
<1>3. MayGrow(k) => iter = Sentinel \/ ~Full(u) \/ GrowWhileIterating
  BY DEF MayGrow
<1> HIDE DEF u, g
<1>4. CASE Becomes(g)
  <2>1. Kept(Table)' /\ (buckets' # <<>> => Sound(Table)')
    BY <1>2, <1>4, BecomesIs DEF Usable
  <2>2. ring' = g.ring /\ val' = g.val
    BY <1>4 DEF Becomes
  <2> QED BY <1>1, <1>2, <1>3, <2>1, <2>2 DEF Gives
<1>5. CASE Full(u) /\ Becomes(w)
  <2>1. u.grown + 1 \in Sizes
    BY <1>2, <1>5, FullGrows
  <2>2. /\ w.ring = u.ring /\ w.val = u.val /\ w.size = u.size
        /\ w.grown = u.grown + 1 /\ w.buckets = <<>>
    BY <1>2 DEF Usable, Sound, Fields
  <2> HIDE DEF w
  <2>3. Kept(w)
    BY <1>2, <2>1, <2>2 DEF Usable, Kept
  <2>4. Kept(Table)' /\ (buckets' # <<>> => Sound(Table)')
    BY <1>5, <2>2, <2>3, BecomesIs
  <2>5. ring' = w.ring /\ val' = w.val
    BY <1>5 DEF Becomes
  <2> QED BY <1>1, <1>2, <1>3, <1>5, <2>2, <2>4, <2>5 DEF Gives
<1> QED BY <1>1, <1>4, <1>5

LEMMA DelGives ==
  ASSUME Inv, NEW k \in Keys, Del(k)
  PROVE  Gives(k, None)
<1> DEFINE u == DoDel(Table, k)
<1>1. Touch(k) /\ Becomes(u)
  BY DEF Del
<1>2. /\ Usable(u) /\ u.val = [val EXCEPT ![k] = None]
      /\ ToSet(u.ring) = ToSet(ring) \ {k} /\ InOrder(ring, u.ring, k)
  BY <1>1, RoomIs
<1> HIDE DEF u
<1>3. Kept(Table)' /\ (buckets' # <<>> => Sound(Table)')
  BY <1>1, <1>2, BecomesIs DEF Usable
<1>4. ring' = u.ring /\ val' = u.val
  BY <1>1 DEF Becomes
<1> QED BY <1>2, <1>3, <1>4 DEF Gives

LEMMA NewIs == Kept(NewTable) /\ Sound(NewTable)
<1> DEFINE u == NewTable
           n == Primes[1]
<1>1. /\ DOMAIN u = Fields /\ u.ring = <<>> /\ u.grown = 0 /\ u.size = 0
      /\ u.buckets = NoBuckets(n) /\ u.val = [k \in Keys |-> None]
  BY DEF NewTable, Fields
<1>2. 0 \in Sizes /\ NumBuckets(u) = n /\ n \in Nat \ {0}
  <2>1. 0 \in Sizes
    BY PrimesAssumption DEF Sizes
  <2>2. 0 + 1 = 1
    OBVIOUS
  <2> QED BY <1>1, <2>1, <2>2, PrimeIs DEF NumBuckets
<1>3. EmptyBucket \in Slots
  BY DEF EmptyBucket, Slots
<1>4. u.buckets \in [0..n - 1 -> Slots] /\ \A c \in 0..n - 1 : u.buckets[c] = EmptyBucket
  BY <1>1, <1>3 DEF NoBuckets
<1>5. u.ring \in Seq(Keys) /\ DOMAIN u.ring = {} /\ Len(u.ring) = 0
  BY <1>1
<1> HIDE DEF u, n
<1>6. Once(u.ring) /\ \A c \in 0..n - 1 : Cut(u.ring, u.buckets[c], Class(n), c)
  BY <1>4, <1>5 DEF Once, Cut
<1>7. \A k \in Keys : u.val[k] # None <=> k \in ToSet(u.ring)
  BY <1>1, <1>5 DEF ToSet
<1>8. u.val \in [Keys -> Vals \cup {None}]
  BY <1>1
<1> QED BY <1>1, <1>2, <1>4, <1>5, <1>6, <1>7, <1>8 DEF Sound, Kept, u

LEMMA InitInv == Init => Inv
<1> SUFFICES ASSUME Init PROVE Inv
  OBVIOUS
<1>1. Table = NewTable
  BY DEF Init, Table, NewTable
<1>2. iter = Sentinel /\ visited = {} /\ through = {}
  BY DEF Init
<1> QED BY <1>1, <1>2, NewIs DEF Inv

LEMMA PointToIs ==
  ASSUME Inv, NEW i, NEW seen \in SUBSET Keys, PointTo(i, seen), UNCHANGED table
  PROVE  /\ Kept(Table)' /\ (buckets' # <<>> => Sound(Table)')
         /\ iter' \in Keys \cup {Sentinel} /\ visited' \subseteq Keys
<1>1. ring \in Seq(Keys)
  BY TableIs DEF Inv, Kept
<1>2. i \in DOMAIN ring => ring[i] \in Keys
  BY <1>1, ElementOfSeq, LenProperties
<1>3. iter' \in Keys \cup {Sentinel} /\ visited' \subseteq Keys
  BY <1>2 DEF PointTo
<1>4. Table' = Table /\ buckets' = buckets
  BY DEF table, Table
<1> QED BY <1>3, <1>4 DEF Inv, Kept, Sound, NumBuckets

LEMMA NextInv == Inv /\ [Next]_vars => Inv'
<1> SUFFICES ASSUME Inv, [Next]_vars PROVE Inv'
  OBVIOUS
<1>1. ASSUME NEW k \in Keys, NEW x, Gives(k, x), Touch(k) PROVE Inv'
  BY <1>1 DEF Gives, Touch, Inv
<1>2. ASSUME NEW k \in Keys, NEW v \in Vals, Set(k, v) PROVE Inv'
  <2>1. Gives(k, v)
    BY <1>2, SetGives
  <2>2. Touch(k)
    BY <1>2 DEF Set
  <2> QED BY <1>1, <2>1, <2>2
<1>3. ASSUME NEW k \in Keys, SetFails(k) PROVE Inv'
  <2>1. Gives(k, None)
    BY <1>3, SetFailsGives
  <2>2. Touch(k)
    BY <1>3 DEF SetFails
  <2> QED BY <1>1, <2>1, <2>2
<1>4. ASSUME NEW k \in Keys, Del(k) PROVE Inv'
  <2>1. Gives(k, None)
    BY <1>4, DelGives
  <2>2. Touch(k)
    BY <1>4 DEF Del
  <2> QED BY <1>1, <2>1, <2>2
<1>5. CASE Close
  <2>1. Becomes(NewTable) /\ iter' = Sentinel /\ visited' = {} /\ through' = {}
    BY <1>5 DEF Close
  <2>2. Kept(Table)' /\ (buckets' # <<>> => Sound(Table)')
    BY <2>1, NewIs, BecomesIs
  <2> QED BY <2>1, <2>2 DEF Inv
<1>6. CASE Iter
  <2>1. PointTo(1, {}) /\ through' = ToSet(ring) /\ UNCHANGED table
    BY <1>6 DEF Iter
  <2>2. through' \subseteq Keys
    BY <2>1, OnceCounts, TableIs DEF Inv, Kept
  <2> QED BY <2>1, <2>2, PointToIs DEF Inv
<1>7. CASE IterNext
  <2>1. PointTo(Position(ring, iter) + 1, visited) /\ UNCHANGED <<table, through>>
    BY <1>7 DEF IterNext
  <2> QED BY <2>1, PointToIs DEF Inv
<1>8. CASE UNCHANGED vars
  <2>1. Table' = Table /\ UNCHANGED <<buckets, iter, visited, through>>
    BY <1>8 DEF vars, table, Table
  <2> QED BY <2>1 DEF Inv, Kept, Sound, NumBuckets
<1> QED BY <1>2, <1>3, <1>4, <1>5, <1>6, <1>7, <1>8 DEF Next

THEOREM AlwaysInv == Spec => []Inv
BY InitInv, NextInv, PTL DEF Spec

(* What the operations read and write has its type: the size that           *)
(* hashtable_set and hashtable_do_del count stays within the number of keys *)
(* and num_buckets within the list of primes.                               *)
THEOREM TypeCorrect == Spec => []TypeOK
<1>1. Inv => TypeOK
  <2> SUFFICES ASSUME Inv PROVE TypeOK
    OBVIOUS
  <2>1. /\ grown \in Sizes /\ ring \in Seq(Keys) /\ Once(ring) /\ size = Len(ring)
        /\ val \in [Keys -> Vals \cup {None}]
    BY TableIs DEF Inv, Kept
  <2>2. size \in 0..Cardinality(Keys)
    BY <2>1, OnceCounts, KeysAssumption, FS_CardinalityType
  <2>3. buckets # <<>> => buckets \in [0..Primes[grown + 1] - 1 -> Slots]
    <3>1. NumBuckets(Table) = Primes[grown + 1]
      BY TableIs DEF NumBuckets
    <3> QED BY <3>1, TableIs DEF Inv, Sound
  <2> QED BY <2>1, <2>2, <2>3 DEF Inv, TypeOK, Sizes, Slots
<1> QED BY <1>1, AlwaysInv, PTL

LEMMA SliceIs ==
  ASSUME NEW r \in Seq(Keys), NEW lo \in 1..Len(r), NEW hi \in 1..Len(r), lo <= hi
  PROVE  ToSet(SubSeq(r, lo, hi)) = {r[i] : i \in lo..hi}
<1> DEFINE m == SubSeq(r, lo, hi)
<1>1. DOMAIN m = 1..hi - lo + 1 /\ \A i \in 1..hi - lo + 1 : m[i] = r[lo + i - 1]
  OBVIOUS
<1> HIDE DEF m
<1>2. Len(r) \in Nat /\ lo \in Nat /\ hi \in Nat
  BY LenProperties
<1>3. ASSUME NEW i \in lo..hi PROVE i - lo + 1 \in DOMAIN m /\ m[i - lo + 1] = r[i]
  <2>1. i - lo + 1 \in 1..hi - lo + 1 /\ lo + (i - lo + 1) - 1 = i
    BY <1>2
  <2> QED BY <1>1, <2>1
<1>4. \A i \in DOMAIN m : lo + i - 1 \in lo..hi /\ m[i] = r[lo + i - 1]
  BY <1>1, <1>2
<1>5. ToSet(m) = {m[i] : i \in DOMAIN m}
  BY Zenon DEF ToSet
<1>6. ASSUME NEW x PROVE x \in ToSet(m) <=> \E i \in lo..hi : r[i] = x
  <2>1. ASSUME NEW i \in lo..hi, r[i] = x PROVE x \in ToSet(m)
    BY <1>3, <1>5, <2>1
  <2>2. ASSUME x \in ToSet(m) PROVE \E i \in lo..hi : r[i] = x
    <3>1. PICK i \in DOMAIN m : m[i] = x
      BY <1>5, <2>2
    <3> QED BY <1>4, <3>1
  <2> QED BY <2>1, <2>2
<1> QED BY <1>6 DEF m

(* hashtable_find_pair walks the keys whose hash selects the bucket, and    *)
(* them only.                                                               *)
LEMMA MembersAre ==
  ASSUME NEW t, Sound(t), NEW c \in 0..NumBuckets(t) - 1
  PROVE  ToSet(Members(t, t.buckets[c])) = {k \in ToSet(t.ring) : BucketOf(t, k) = c}
<1> DEFINE n == NumBuckets(t)
           b == t.buckets[c]
           r == t.ring
           cl == Class(n)
           m == Members(t, b)
<1>1. r \in Seq(Keys) /\ Once(r) /\ Cut(r, b, cl, c)
  BY DEF Sound
<1>2. /\ DOMAIN r = 1..Len(r) /\ Len(r) \in Nat /\ \A i \in DOMAIN r : r[i] \in Keys
      /\ ToSet(r) \subseteq Keys
  BY <1>1, LenProperties, ElementOfSeq, OnceCounts
<1>3. \A k \in Keys : cl[k] = BucketOf(t, k)
  BY ClassIs DEF Sound
<1>4. CASE b = EmptyBucket
  <2>1. \A i \in DOMAIN r : cl[r[i]] # c
    BY <1>1, <1>4 DEF Cut
  <2>2. m = <<>>
    BY <1>4 DEF Members
  <2> QED BY <1>2, <1>3, <2>1, <2>2 DEF ToSet
<1>5. CASE b # EmptyBucket
  <2>1. PICK lo \in DOMAIN r, hi \in DOMAIN r : Delimits(r, b, cl, c, lo, hi)
    BY <1>1, <1>5 DEF Cut
  <2>2. Position(r, b.first) = lo /\ Position(r, b.last) = hi
    BY <1>1, <2>1, PositionIs DEF Delimits
  <2>3. m = SubSeq(r, lo, hi)
    BY <1>5, <2>2 DEF Members
  <2>4. lo \in 1..Len(r) /\ hi \in 1..Len(r) /\ lo <= hi
    BY <1>2, <2>1 DEF Delimits
  <2>5. ToSet(m) = {r[i] : i \in lo..hi}
    BY <1>1, <2>3, <2>4, SliceIs
  <2>6. \A i \in DOMAIN r : i \in lo..hi <=> cl[r[i]] = c
    BY <1>2, <2>1, <2>4 DEF Delimits
  <2>7. lo..hi \subseteq DOMAIN r
    BY <1>2, <2>4
  <2>8. \A i \in DOMAIN r : i \in lo..hi <=> BucketOf(t, r[i]) = c
    BY <1>2, <1>3, <2>6
  <2>9. ToSet(r) = {r[i] : i \in DOMAIN r}
    BY Zenon DEF ToSet
  <2> HIDE DEF m, r
  <2> QED BY <2>5, <2>7, <2>8, <2>9 DEF m, r
<1> QED BY <1>4, <1>5

(* The buckets cut the list into the parts the hash function gives them,    *)
(* through every history of insertions before the first node of a bucket,   *)
(* deletions at either end of one, and rehashes; nothing is listed twice    *)
(* and size counts the list.                                                *)
THEOREM BucketsCorrect == Spec => []BucketsPartition
<1>1. Inv => BucketsPartition
  <2> SUFFICES ASSUME Inv, buckets # <<>> PROVE BucketsPartition
    BY DEF BucketsPartition
  <2>1. Sound(Table)
    BY DEF Inv
  <2>2. ring \in Seq(Keys) /\ Once(ring) /\ size = Len(ring)
    BY TableIs DEF Inv, Kept
  <2>3. DOMAIN buckets = 0..NumBuckets(Table) - 1
    BY <2>1, TableIs DEF Sound
  <2>4. \A b \in DOMAIN buckets :
          ToSet(Members(Table, buckets[b])) =
            {k \in ToSet(ring) : BucketOf(Table, k) = b}
    <3>1. \A c \in 0..NumBuckets(Table) - 1 :
            ToSet(Members(Table, Table.buckets[c])) =
              {k \in ToSet(Table.ring) : BucketOf(Table, k) = c}
      BY <2>1, MembersAre
    <3> QED BY <2>3, <3>1, TableIs
  <2> QED BY <2>2, <2>4, OnceCounts DEF BucketsPartition
<1> QED BY <1>1, AlwaysInv, PTL

LEMMA LookupIs ==
  ASSUME Inv
  PROVE  [k \in Keys |-> Lookup(k)] = val /\ val \in [Keys -> Vals \cup {None}]
<1>1. val \in [Keys -> Vals \cup {None}]
  BY TableIs DEF Inv, Kept
<1>2. ASSUME NEW k \in Keys PROVE Lookup(k) = val[k]
  <2>1. CASE buckets = <<>>
    BY <2>1 DEF Lookup
  <2>2. CASE buckets # <<>>
    <3>1. Found(Table, k) <=> val[k] # None
      <4>1. Found(Table, k) <=> k \in ToSet(ring)
        BY <2>2, FoundIs, TableIs DEF Inv
      <4> QED BY <4>1, TableIs DEF Inv, Kept
    <3> QED BY <2>2, <3>1 DEF Lookup
  <2> QED BY <2>1, <2>2
<1> QED BY <1>1, <1>2

(* The table is the map hashtable.h promises: a set changes the value of    *)
(* its key, a deletion or a set that runs out of memory takes the key out,  *)
(* and what is looked up of the other keys stays as it was, whatever        *)
(* collides with them and however the table is rehashed.                    *)
THEOREM MapImplemented == Spec => ImplementsMap
<1> DEFINE map == [k \in Keys |-> Lookup(k)]
<1>1. Init => Map!Init
  <2> SUFFICES ASSUME Init PROVE Map!Init
    OBVIOUS
  <2>1. map = val
    BY InitInv, LookupIs
  <2> QED BY <2>1 DEF Init, NewTable, Map!Init
<1>2. Inv => map = val
  BY LookupIs
<1>3. (Inv => map = val)'
  BY <1>2, PTL
<1>4. Inv /\ Inv' /\ [Next]_vars => [Map!Next]_map
  <2> SUFFICES ASSUME Inv, Inv', [Next]_vars PROVE [Map!Next]_map
    OBVIOUS
  <2>1. map = val /\ val \in [Keys -> Vals \cup {None}]
    BY LookupIs
  <2>2. map' = val'
    BY <1>3
  <2>3. ASSUME NEW k \in Keys, NEW x, Gives(k, x)
        PROVE  map'[k] = x /\ \A q \in Keys \ {k} : map'[q] = map[q]
    <3>1. val' = [val EXCEPT ![k] = x]
      BY <2>3 DEF Gives
    <3> HIDE DEF map
    <3> QED BY <2>1, <2>2, <3>1
  <2>4. ASSUME NEW k \in Keys, NEW v \in Vals, Set(k, v) PROVE Map!Next
    <3>1. map'[k] = v /\ \A q \in Keys \ {k} : map'[q] = map[q]
      BY <2>3, <2>4, SetGives
    <3> QED BY <3>1 DEF Map!Next, Map!Put, Map!Changes
  <2>5. ASSUME NEW k \in Keys, Gives(k, None) PROVE [Map!Next]_map
    <3>1. map'[k] = None /\ \A q \in Keys \ {k} : map'[q] = map[q]
      BY <2>3, <2>5
    <3>2. CASE map[k] # None
      BY <3>1, <3>2 DEF Map!Next, Map!Delete, Map!Changes
    <3>3. CASE map[k] = None
      <4>1. val' = [val EXCEPT ![k] = None]
        BY <2>5 DEF Gives
      <4>2. map' = map
        <5> HIDE DEF map
        <5> QED BY <2>1, <2>2, <3>3, <4>1
      <4> QED BY <4>2
    <3> QED BY <3>2, <3>3
  <2>6. CASE Close
    <3>1. val' = [k \in Keys |-> None]
      BY <2>6 DEF Close, Becomes, NewTable
    <3> QED BY <2>2, <3>1 DEF Map!Next, Map!Clear
  <2>7. CASE val' = val
    <3>1. map' = map
      <4> HIDE DEF map
      <4> QED BY <2>1, <2>2, <2>7
    <3> QED BY <3>1
  <2>8. Iter \/ IterNext \/ UNCHANGED vars => val' = val
    BY DEF Iter, IterNext, vars, table
  <2> QED BY <2>4, <2>5, <2>6, <2>7, <2>8, SetFailsGives, DelGives DEF Next
<1> QED BY <1>1, <1>4, AlwaysInv, PTL DEF Spec, ImplementsMap, Map!Spec
-----------------------------------------------------------------------------
(* An iteration.  What the others do to the table, it keeps its place.      *)
LEMMA ReachedStays ==
  ASSUME Inv, ~GrowWhileIterating, iter # Sentinel, Reached(ring),
         NEW k \in Keys, NEW x, Gives(k, x), Touch(k)
  PROVE  Reached(ring)'
<1>1. PICK p \in DOMAIN ring :
        /\ ring[p] = iter
        /\ \A i \in 1..p : ring[i] \in through => ring[i] \in visited
  BY DEF Reached
<1>2. ring \in Seq(Keys) /\ Once(ring) /\ ring' \in Seq(Keys)
  BY TableIs DEF Inv, Gives, Kept, Table
<1>3. /\ DOMAIN ring = 1..Len(ring) /\ Len(ring) \in Nat
      /\ DOMAIN ring' = 1..Len(ring') /\ Len(ring') \in Nat
  BY <1>2, LenProperties
<1>4. iter' = iter /\ visited' = visited /\ through' = through \ {k} /\ iter # k
  BY DEF Touch
<1>5. ToSet(ring') \ {k} = ToSet(ring) \ {k} /\ InOrder(ring, ring', k)
  BY DEF Gives
<1>6. through' \subseteq ToSet(ring')
  BY <1>4, <1>5 DEF Reached
<1>7. PICK q \in DOMAIN ring' : ring'[q] = iter
  <2>1. iter \in ToSet(ring)
    BY <1>1 DEF ToSet
  <2>2. iter \in ToSet(ring')
    BY <1>4, <1>5, <2>1
  <2> QED BY <2>2 DEF ToSet
<1>8. ASSUME NEW i \in 1..q, ring'[i] \in through' PROVE ring'[i] \in visited'
  <2>1. i \in DOMAIN ring' /\ i <= q /\ ring'[i] # k /\ ring'[q] # k
    BY <1>3, <1>4, <1>7, <1>8
  <2>2. PICK g \in DOMAIN ring, h \in DOMAIN ring :
          g <= h /\ ring[g] = ring'[i] /\ ring[h] = ring'[q]
    BY <1>5, <2>1 DEF InOrder
  <2>3. h = p
    BY <1>1, <1>2, <1>7, <2>2 DEF Once
  <2>4. g \in 1..p
    BY <1>3, <2>2, <2>3
  <2> QED BY <1>1, <1>4, <1>8, <2>2, <2>4
<1> QED BY <1>4, <1>6, <1>7, <1>8 DEF Reached

LEMMA IterNextReaches ==
  ASSUME Inv, Reached(ring), IterNext
  PROVE  IF iter' = Sentinel THEN through \subseteq visited' ELSE Reached(ring)'
<1>1. PICK p \in DOMAIN ring :
        /\ ring[p] = iter
        /\ \A i \in 1..p : ring[i] \in through => ring[i] \in visited
  BY DEF Reached
<1>2. ring \in Seq(Keys) /\ Once(ring)
  BY TableIs DEF Inv, Kept
<1>3. DOMAIN ring = 1..Len(ring) /\ Len(ring) \in Nat /\ \A i \in DOMAIN ring : ring[i] # Sentinel
  BY <1>2, LenProperties, ElementOfSeq, SentinelAssumption
<1>4. Position(ring, iter) = p
  BY <1>1, <1>2, PositionIs
<1>5. /\ iter' = IF p + 1 \in DOMAIN ring THEN ring[p + 1] ELSE Sentinel
      /\ visited' = visited \cup ({iter'} \ {Sentinel})
      /\ ring' = ring /\ through' = through
  BY <1>4 DEF IterNext, PointTo, table
<1>6. CASE p + 1 \in DOMAIN ring
  <2>1. iter' = ring[p + 1] /\ iter' # Sentinel /\ iter' \in visited'
    BY <1>3, <1>5, <1>6
  <2>2. \A i \in 1..p + 1 : ring[i] \in through => ring[i] \in visited'
    <3>1. \A i \in 1..p + 1 : i \in 1..p \/ i = p + 1
      BY <1>3
    <3> QED BY <1>1, <1>5, <2>1, <3>1
  <2> QED BY <1>5, <1>6, <2>1, <2>2 DEF Reached
<1>7. CASE p + 1 \notin DOMAIN ring
  <2>1. iter' = Sentinel /\ visited' = visited
    BY <1>5, <1>7
  <2>2. 1..p = DOMAIN ring
    BY <1>3, <1>7
  <2>3. ToSet(ring) \cap through \subseteq visited
    BY <1>1, <2>2 DEF ToSet
  <2> QED BY <2>1, <2>3 DEF Reached
<1> QED BY <1>6, <1>7

LEMMA NextIterInv ==
  ASSUME ~GrowWhileIterating
  PROVE  Inv /\ IterInv /\ [Next]_vars => IterInv'
<1> SUFFICES ASSUME Inv, IterInv, [Next]_vars, iter' # Sentinel PROVE Reached(ring)'
  BY DEF IterInv
<1>1. ASSUME NEW k \in Keys, NEW x, Gives(k, x), Touch(k) PROVE Reached(ring)'
  <2>1. iter # Sentinel
    BY <1>1 DEF Touch
  <2> QED BY <1>1, <2>1, ReachedStays DEF IterInv
<1>2. ASSUME NEW k \in Keys, NEW v \in Vals, Set(k, v) PROVE Reached(ring)'
  <2>1. Gives(k, v) /\ Touch(k)
    BY <1>2, SetGives DEF Set
  <2> QED BY <1>1, <2>1
<1>3. ASSUME NEW k \in Keys, SetFails(k) PROVE Reached(ring)'
  <2>1. Gives(k, None)
    BY <1>3, SetFailsGives
  <2>2. Touch(k)
    BY <1>3 DEF SetFails
  <2> QED BY <1>1, <2>1, <2>2
<1>4. ASSUME NEW k \in Keys, Del(k) PROVE Reached(ring)'
  <2>1. Gives(k, None)
    BY <1>4, DelGives
  <2>2. Touch(k)
    BY <1>4 DEF Del
  <2> QED BY <1>1, <2>1, <2>2
<1>5. CASE Close
  BY <1>5 DEF Close
<1>6. CASE Iter
  <2>1. /\ iter' = IF 1 \in DOMAIN ring THEN ring[1] ELSE Sentinel
        /\ visited' = {iter'} \ {Sentinel}
        /\ ring' = ring /\ through' = ToSet(ring)
    BY <1>6 DEF Iter, PointTo, table
  <2>2. 1 \in DOMAIN ring /\ iter' = ring[1] /\ iter' \in visited'
    BY <2>1
  <2>3. \A i \in 1..1 : ring[i] \in visited'
    BY <2>2
  <2> QED BY <2>1, <2>2, <2>3 DEF Reached
<1>7. CASE IterNext
  <2>1. iter # Sentinel
    BY <1>7 DEF IterNext
  <2> QED BY <1>7, <2>1, IterNextReaches DEF IterInv
<1>8. CASE UNCHANGED vars
  BY <1>8 DEF vars, table, IterInv, Reached
<1> QED BY <1>2, <1>3, <1>4, <1>5, <1>6, <1>7, <1>8 DEF Next

(* If the table is not rehashed meanwhile, hashtable_iter and               *)
(* hashtable_iter_next have pointed to every key that was in the table all  *)
(* the time when they reach the end of the list, whatever else was set and  *)
(* deleted before and behind the iterator.                                  *)
THEOREM IterationVisitsAll == ~GrowWhileIterating => (Spec => IterationComplete)
<1> SUFFICES ASSUME ~GrowWhileIterating PROVE Spec => IterationComplete
  OBVIOUS
<1>1. Init => IterInv
  BY DEF Init, IterInv
<1>2. Inv /\ IterInv /\ [Next]_vars => IterInv'
  BY NextIterInv
<1>3. Inv /\ IterInv => [IterNext /\ iter' = Sentinel => through \subseteq visited']_vars
  <2> SUFFICES ASSUME Inv, IterInv, IterNext, iter' = Sentinel PROVE through \subseteq visited'
    OBVIOUS
  <2>1. Reached(ring)
    BY DEF IterNext, IterInv
  <2> QED BY <2>1, IterNextReaches
<1> QED BY <1>1, <1>2, <1>3, AlwaysInv, PTL DEF Spec, IterationComplete
=============================================================================
