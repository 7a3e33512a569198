--------------------------- MODULE TaListOpsProofs ---------------------------
(***************************************************************************)
(* What the operations of TaListOps do to a list, for any memory: a list   *)
(* whose nodes are c in this order becomes one whose nodes are c with one  *)
(* node more or less, c and another, or c backwards, and nothing else in   *)
(* memory changes.                                                         *)
(***************************************************************************)
EXTENDS TaListOps, SequenceTheorems, FiniteSetTheorems, WellFoundedInduction, TLAPS

(* What holds of 0 and passes from a number to the next holds of all.       *)
Below == {ss \in Nat \X Nat : ss[1] < ss[2]}

LEMMA Induction ==
  ASSUME NEW S \in SUBSET Nat, 0 \in S, \A n \in S : n + 1 \in S
  PROVE  S = Nat
<1> SUFFICES ASSUME S # Nat PROVE FALSE
  OBVIOUS
<1>1. IsWellFoundedOn(Below, Nat)
  BY NatLessThanWellFounded, Zenon DEF OpToRel, Below
<1>2. PICK n \in Nat \ S : \A m \in Nat \ S : ~(<<m, n>> \in Below)
  BY <1>1, WFMin
<1>3. n # 0 /\ n - 1 \in Nat /\ n - 1 + 1 = n
  BY <1>2
<1>4. \A m \in Nat \ S : ~(m < n)
  BY <1>2 DEF Below
<1> QED BY <1>3, <1>4
-----------------------------------------------------------------------------
(* Sequences of nodes.                                                      *)
Once(c) == \A i, j \in DOMAIN c : c[i] = c[j] => i = j
Of(c) == {c[i] : i \in DOMAIN c}

With(c, i, n) ==
  [j \in 1..Len(c) + 1 |-> IF j < i THEN c[j] ELSE IF j = i THEN n ELSE c[j - 1]]
Without(c, i) == [j \in 1..Len(c) - 1 |-> IF j < i THEN c[j] ELSE c[j + 1]]
Joined(c, d) ==
  [j \in 1..Len(c) + Len(d) |-> IF j <= Len(c) THEN c[j] ELSE d[j - Len(c)]]
Backwards(c) == [j \in 1..Len(c) |-> c[Len(c) + 1 - j]]

(* A function on 1..n is a sequence of length n.                            *)
LEMMA MadeSeq ==
  ASSUME NEW S, NEW n \in Nat, NEW f, \A i \in 1..n : f[i] \in S, f = [i \in 1..n |-> f[i]]
  PROVE  f \in Seq(S) /\ Len(f) = n
<1>1. f \in Seq(S)
  <2>1. [i \in 1..n |-> f[i]] \in Seq(S)
    BY IsASeq
  <2> QED BY <2>1
<1>2. DOMAIN f = 1..n
  OBVIOUS
<1>3. Len(f) \in Nat /\ DOMAIN f = 1..Len(f)
  BY <1>1, LenProperties
<1>4. Len(f) = n
  <2> DEFINE l == Len(f)
  <2>1. l \in Nat /\ 1..l = 1..n
    BY <1>2, <1>3
  <2> HIDE DEF l
  <2>2. l = n
    BY <2>1
  <2> QED BY <2>2 DEF l
<1> QED BY <1>1, <1>4

LEMMA WithIs ==
  ASSUME NEW S, NEW c \in Seq(S), NEW i \in 1..Len(c) + 1, NEW n \in S
  PROVE  /\ With(c, i, n) \in Seq(S) /\ Len(With(c, i, n)) = Len(c) + 1
         /\ DOMAIN With(c, i, n) = 1..Len(c) + 1
         /\ Of(With(c, i, n)) = Of(c) \cup {n}
         /\ n \notin Of(c) /\ Once(c) => Once(With(c, i, n))
<1> DEFINE s == With(c, i, n)
<1>1. /\ Len(c) \in Nat /\ DOMAIN c = 1..Len(c) /\ DOMAIN s = 1..Len(c) + 1 /\ i \in Nat
      /\ \A j \in 1..Len(c) : c[j] \in S
  BY DEF With
<1>2. \A j \in 1..Len(c) + 1 : s[j] = IF j < i THEN c[j] ELSE IF j = i THEN n ELSE c[j - 1]
  BY DEF With
<1> HIDE DEF s
<1>3. \A j \in DOMAIN s : j < i => j \in DOMAIN c /\ s[j] = c[j]
  BY <1>1, <1>2
<1>4. \A j \in DOMAIN s : j > i => j - 1 \in DOMAIN c /\ s[j] = c[j - 1]
  BY <1>1, <1>2
<1>5. i \in DOMAIN s /\ s[i] = n
  BY <1>1, <1>2
<1>6. s \in Seq(S) /\ Len(s) = Len(c) + 1
  <2>1. \A j \in 1..Len(c) + 1 : s[j] \in S
    BY <1>1, <1>3, <1>4, <1>5
  <2>2. s = [j \in 1..Len(c) + 1 |-> s[j]]
    BY <1>1 DEF s, With
  <2> QED BY <1>1, <2>1, <2>2, MadeSeq
<1>7. Of(s) = Of(c) \cup {n}
  <2>1. \A j \in DOMAIN s : s[j] \in Of(c) \cup {n}
    BY <1>1, <1>3, <1>4, <1>5 DEF Of
  <2>2. ASSUME NEW j \in DOMAIN c PROVE c[j] \in Of(s)
    <3>1. CASE j < i
      <4>1. j \in DOMAIN s /\ s[j] = c[j]
        BY <1>1, <1>3, <3>1
      <4> QED BY <4>1 DEF Of
    <3>2. CASE j >= i
      <4>1. j + 1 \in DOMAIN s /\ j + 1 > i /\ j + 1 - 1 = j
        BY <1>1, <3>2
      <4>2. s[j + 1] = c[j]
        BY <1>4, <4>1
      <4> QED BY <4>1, <4>2 DEF Of
    <3> QED BY <1>1, <3>1, <3>2
  <2> QED BY <1>5, <2>1, <2>2 DEF Of
<1>8. n \notin Of(c) /\ Once(c) => Once(s)
  <2> SUFFICES ASSUME n \notin Of(c), Once(c), NEW j \in DOMAIN s, NEW k \in DOMAIN s, s[j] = s[k]
               PROVE  j = k
    BY DEF Once
  <2>1. \A l \in DOMAIN c : c[l] # n
    BY DEF Of
  <2>2. j \in Nat /\ k \in Nat
    BY <1>1
  <2> QED BY <1>1, <1>3, <1>4, <1>5, <2>1, <2>2 DEF Once
<1> QED BY <1>1, <1>6, <1>7, <1>8 DEF s

LEMMA WithoutIs ==
  ASSUME NEW S, NEW c \in Seq(S), NEW i \in 1..Len(c), Once(c)
  PROVE  /\ Without(c, i) \in Seq(S) /\ Len(Without(c, i)) = Len(c) - 1
         /\ DOMAIN Without(c, i) = 1..Len(c) - 1
         /\ Of(Without(c, i)) = Of(c) \ {c[i]}
         /\ Once(Without(c, i))
<1> DEFINE s == Without(c, i)
<1>1. /\ Len(c) \in Nat /\ DOMAIN c = 1..Len(c) /\ DOMAIN s = 1..Len(c) - 1 /\ i \in Nat
      /\ Len(c) - 1 \in Nat
      /\ \A j \in 1..Len(c) : c[j] \in S
  BY DEF Without
<1>2. \A j \in 1..Len(c) - 1 : s[j] = IF j < i THEN c[j] ELSE c[j + 1]
  BY DEF Without
<1> HIDE DEF s
<1>3. \A j \in DOMAIN s : j < i => j \in DOMAIN c /\ s[j] = c[j]
  BY <1>1, <1>2
<1>4. \A j \in DOMAIN s : j >= i => j + 1 \in DOMAIN c /\ s[j] = c[j + 1]
  BY <1>1, <1>2
<1>5. s \in Seq(S) /\ Len(s) = Len(c) - 1
  <2>1. \A j \in 1..Len(c) - 1 : s[j] \in S
    BY <1>1, <1>3, <1>4
  <2>2. s = [j \in 1..Len(c) - 1 |-> s[j]]
    BY <1>1 DEF s, Without
  <2> QED BY <1>1, <2>1, <2>2, MadeSeq
<1>6. Of(s) = Of(c) \ {c[i]}
  <2>1. ASSUME NEW j \in DOMAIN s PROVE s[j] \in Of(c) \ {c[i]}
    <3>1. j \in Nat /\ i \in DOMAIN c
      BY <1>1
    <3> QED BY <1>3, <1>4, <3>1 DEF Of, Once
  <2>2. ASSUME NEW j \in DOMAIN c, j # i PROVE c[j] \in Of(s)
    <3>1. CASE j < i
      <4>1. j \in DOMAIN s /\ s[j] = c[j]
        BY <1>1, <1>3, <3>1
      <4> QED BY <4>1 DEF Of
    <3>2. CASE j > i
      <4>1. j - 1 \in DOMAIN s /\ j - 1 >= i /\ j - 1 + 1 = j
        BY <1>1, <3>2
      <4>2. s[j - 1] = c[j]
        BY <1>4, <4>1
      <4> QED BY <4>1, <4>2 DEF Of
    <3> QED BY <1>1, <2>2, <3>1, <3>2
  <2> QED BY <2>1, <2>2 DEF Of
<1>7. Once(s)
  <2> SUFFICES ASSUME NEW j \in DOMAIN s, NEW k \in DOMAIN s, s[j] = s[k] PROVE j = k
    BY DEF Once
  <2>1. j \in Nat /\ k \in Nat
    BY <1>1
  <2> QED BY <1>1, <1>3, <1>4, <2>1 DEF Once
<1> QED BY <1>1, <1>5, <1>6, <1>7 DEF s

LEMMA JoinedIs ==
  ASSUME NEW S, NEW c \in Seq(S), NEW d \in Seq(S)
  PROVE  /\ Joined(c, d) \in Seq(S) /\ Len(Joined(c, d)) = Len(c) + Len(d)
         /\ DOMAIN Joined(c, d) = 1..Len(c) + Len(d)
         /\ Of(Joined(c, d)) = Of(c) \cup Of(d)
         /\ Once(c) /\ Once(d) /\ Of(c) \cap Of(d) = {} => Once(Joined(c, d))
<1> DEFINE s == Joined(c, d)
           L == Len(c)
           M == Len(d)
<1>1. /\ L \in Nat /\ DOMAIN c = 1..L /\ M \in Nat /\ DOMAIN d = 1..M /\ DOMAIN s = 1..L + M
      /\ L + M \in Nat /\ Len(c) + Len(d) = L + M
      /\ \A j \in 1..L : c[j] \in S
      /\ \A j \in 1..M : d[j] \in S
  BY DEF Joined
<1>2. \A j \in 1..L + M : s[j] = IF j <= L THEN c[j] ELSE d[j - L]
  BY DEF Joined
<1> HIDE DEF s, L, M
<1>3. \A j \in DOMAIN s : j <= L => j \in DOMAIN c /\ s[j] = c[j]
  BY <1>1, <1>2
<1>4. \A j \in DOMAIN s : j > L => j - L \in DOMAIN d /\ s[j] = d[j - L]
  BY <1>1, <1>2
<1>5. s \in Seq(S) /\ Len(s) = L + M
  <2>1. \A j \in 1..L + M : s[j] \in S
    BY <1>1, <1>3, <1>4
  <2>2. s = [j \in 1..L + M |-> s[j]]
    BY <1>1 DEF s, Joined, L, M
  <2> QED BY <1>1, <2>1, <2>2, MadeSeq
<1>6. Of(s) = Of(c) \cup Of(d)
  <2>1. \A j \in DOMAIN s : s[j] \in Of(c) \cup Of(d)
    BY <1>1, <1>3, <1>4 DEF Of
  <2>2. ASSUME NEW j \in DOMAIN c PROVE c[j] \in Of(s)
    <3>1. j \in DOMAIN s /\ s[j] = c[j]
      BY <1>1, <1>3
    <3> QED BY <3>1 DEF Of
  <2>3. ASSUME NEW j \in DOMAIN d PROVE d[j] \in Of(s)
    <3>1. j \in 1..M /\ j + L \in 1..L + M /\ j + L > L /\ j + L - L = j
      BY <1>1
    <3>2. PICK k \in DOMAIN s : k > L /\ k - L = j
      BY <1>1, <3>1
    <3>3. s[k] = d[j]
      BY <1>4, <3>2
    <3> QED BY <3>2, <3>3 DEF Of
  <2> QED BY <2>1, <2>2, <2>3 DEF Of
<1>7. Once(c) /\ Once(d) /\ Of(c) \cap Of(d) = {} => Once(s)
  <2> SUFFICES ASSUME Once(c), Once(d), Of(c) \cap Of(d) = {},
                      NEW j \in DOMAIN s, NEW k \in DOMAIN s, s[j] = s[k]
               PROVE  j = k
    BY DEF Once
  <2>1. j \in Nat /\ k \in Nat
    BY <1>1
  <2>2. \A a \in DOMAIN c, b \in DOMAIN d : c[a] # d[b]
    BY DEF Of
  <2>3. CASE j <= L /\ k <= L
    BY <1>3, <2>3 DEF Once
  <2>4. CASE j > L /\ k > L
    <3>1. j - L = k - L
      BY <1>4, <2>4 DEF Once
    <3> QED BY <1>1, <2>1, <3>1
  <2>5. CASE (j <= L /\ k > L) \/ (j > L /\ k <= L)
    BY <1>3, <1>4, <2>2, <2>5
  <2> QED BY <1>1, <2>1, <2>3, <2>4, <2>5
<1> QED BY <1>1, <1>5, <1>6, <1>7 DEF s, L, M

LEMMA BackwardsIs ==
  ASSUME NEW S, NEW c \in Seq(S)
  PROVE  /\ Backwards(c) \in Seq(S) /\ Len(Backwards(c)) = Len(c)
         /\ DOMAIN Backwards(c) = 1..Len(c)
         /\ Of(Backwards(c)) = Of(c)
         /\ Once(c) => Once(Backwards(c))
<1> DEFINE s == Backwards(c)
           L == Len(c)
<1>1. /\ L \in Nat /\ DOMAIN c = 1..L /\ DOMAIN s = 1..L
      /\ \A j \in 1..L : c[j] \in S
  BY DEF Backwards
<1>2. \A j \in 1..L : s[j] = c[L + 1 - j]
  BY DEF Backwards
<1> HIDE DEF s, L
<1>3. \A j \in 1..L : L + 1 - j \in 1..L /\ L + 1 - (L + 1 - j) = j
  BY <1>1
<1>4. s \in Seq(S) /\ Len(s) = L
  <2>1. \A j \in 1..L : s[j] \in S
    BY <1>1, <1>2, <1>3
  <2>2. s = [j \in 1..L |-> s[j]]
    BY <1>1 DEF s, Backwards, L
  <2> QED BY <1>1, <2>1, <2>2, MadeSeq
<1>5. Of(s) = Of(c)
  <2>1. \A j \in 1..L : s[j] \in Of(c)
    BY <1>1, <1>2, <1>3 DEF Of
  <2>2. \A j \in 1..L : c[j] = s[L + 1 - j]
    BY <1>2, <1>3
  <2>3. \A j \in 1..L : c[j] \in Of(s)
    BY <1>1, <1>3, <2>2 DEF Of
  <2> QED BY <1>1, <2>1, <2>3 DEF Of
<1>6. Once(c) => Once(s)
  <2> SUFFICES ASSUME Once(c), NEW j \in 1..L, NEW k \in 1..L, s[j] = s[k] PROVE j = k
    BY <1>1 DEF Once
  <2>1. L + 1 - j = L + 1 - k
    BY <1>1, <1>2, <1>3 DEF Once
  <2> QED BY <1>1, <2>1
<1> QED BY <1>1, <1>4, <1>5, <1>6 DEF s, L
-----------------------------------------------------------------------------
(* Memory.  The list that begins at p has the nodes c.                      *)
Memory(N, D) == [next : [N -> N \cup {NULL}], prev : [N -> N \cup {NULL}], data : [N -> D]]

Linked(m, p, c) ==
  /\ c \in Seq(DOMAIN m.next) /\ Once(c)
  /\ p = IF c = <<>> THEN NULL ELSE c[1]
  /\ \A i \in DOMAIN c :
       /\ m.next[c[i]] = IF i = Len(c) THEN NULL ELSE c[i + 1]
       /\ m.prev[c[i]] = IF i = 1 THEN NULL ELSE c[i - 1]

(* Following the links visits the nodes of the list: by induction over the  *)
(* number of links followed.                                                *)
Followed(link, p, At, n) ==
  At = [k \in 1..n |-> IF k = 1 THEN p
                       ELSE LET before == At[k - 1]
                            IN  IF before = NULL THEN NULL ELSE link[before]]

LEMMA FollowedExists ==
  ASSUME NEW link, NEW p, NEW n \in Nat
  PROVE  \E At : Followed(link, p, At, n)
<1> DEFINE Ok == {m \in Nat : \E At : Followed(link, p, At, m)}
           Follow(x) == IF x = NULL THEN NULL ELSE link[x]
<1>1. 0 \in Ok
  <2>1. Followed(link, p, [k \in 1..0 |-> p], 0)
    BY DEF Followed
  <2> QED BY <2>1
<1>2. ASSUME NEW m \in Ok PROVE m + 1 \in Ok
  <2>1. m \in Nat
    OBVIOUS
  <2>2. PICK At : Followed(link, p, At, m)
    OBVIOUS
  <2> DEFINE New == [k \in 1..m + 1 |-> IF k <= m THEN At[k]
                                        ELSE IF k = 1 THEN p ELSE Follow(At[m])]
  <2>3. \A k \in 1..m : At[k] = IF k = 1 THEN p ELSE Follow(At[k - 1])
    BY <2>2 DEF Followed
  <2>4. /\ \A k \in 1..m : New[k] = At[k]
        /\ New[m + 1] = IF m + 1 = 1 THEN p ELSE Follow(At[m])
        /\ New = [k \in 1..m + 1 |-> New[k]]
    BY <2>1
  <2> HIDE DEF New, Follow
  <2>5. ASSUME NEW k \in 1..m + 1 PROVE New[k] = IF k = 1 THEN p ELSE Follow(New[k - 1])
    <3>1. CASE k \in 1..m
      <4>1. k # 1 => k - 1 \in 1..m
        BY <2>1, <3>1
      <4> QED BY <2>3, <2>4, <3>1, <4>1
    <3>2. CASE k = m + 1
      <4>1. k # 1 => k - 1 = m /\ m \in 1..m
        BY <2>1, <3>2
      <4> QED BY <2>4, <3>2, <4>1
    <3> QED BY <2>1, <3>1, <3>2
  <2>6. Followed(link, p, New, m + 1)
    BY <2>4, <2>5 DEF Followed, Follow
  <2> QED BY <2>1, <2>6
<1>3. Ok = Nat
  <2> HIDE DEF Ok
  <2>1. Ok \in SUBSET Nat
    BY DEF Ok
  <2> QED BY <1>1, <1>2, <2>1, Induction
<1> QED BY <1>3

CutAtNull(At, n) == SubSeq(At, 1, Cardinality({k \in 1..n : At[k] # NULL}))

LEMMA WalkIs ==
  ASSUME NEW link, NEW p, NEW n \in Nat, n = Cardinality(DOMAIN link) + 1
  PROVE  \E At : Followed(link, p, At, n) /\ Walk(link, p) = CutAtNull(At, n)
<1> DEFINE At == CHOOSE At : Followed(link, p, At, n)
<1>1. Followed(link, p, At, n)
  BY FollowedExists
<1>2. DOMAIN At = 1..n
  <2> HIDE DEF At
  <2> QED BY <1>1 DEF Followed
<1>3. Walk(link, p) = SubSeq(At, 1, Cardinality({k \in DOMAIN At : At[k] # NULL}))
  BY Zenon DEF Walk, Followed
<1>4. Walk(link, p) = CutAtNull(At, n)
  <2> HIDE DEF At
  <2> QED BY <1>2, <1>3 DEF CutAtNull
<1> QED BY <1>1, <1>4

(* The first elements of a sequence.                                        *)
LEMMA CutIs ==
  ASSUME NEW S, NEW s \in Seq(S), NEW n \in Nat, n <= Len(s)
  PROVE  /\ SubSeq(s, 1, n) \in Seq(S) /\ Len(SubSeq(s, 1, n)) = n
         /\ \A i \in 1..n : SubSeq(s, 1, n)[i] = s[i]
<1>1. \A i \in 1..n : s[i] \in S
  BY LenProperties
<1>2. IF 1 <= n THEN n - 1 + 1 = n ELSE n = 0
  OBVIOUS
<1>3. \A i \in 1..n : i \in 1..n - 1 + 1 /\ 1 + i - 1 = i
  OBVIOUS
<1>4. /\ SubSeq(s, 1, n) \in Seq(S)
      /\ Len(SubSeq(s, 1, n)) = IF 1 <= n THEN n - 1 + 1 ELSE 0
      /\ \A i \in 1..n - 1 + 1 : SubSeq(s, 1, n)[i] = s[1 + i - 1]
  BY <1>1, SubSeqProperties
<1> QED BY <1>2, <1>3, <1>4

LEMMA CardinalityTo == ASSUME NEW n \in Nat PROVE Cardinality(1..n) = n
BY FS_Interval

LEMMA OnceBounded ==
  ASSUME NEW S, IsFiniteSet(S), NEW c \in Seq(S), Once(c)
  PROVE  Len(c) \in Nat /\ Cardinality(S) \in Nat /\ Len(c) <= Cardinality(S)
<1>1. Len(c) \in Nat /\ DOMAIN c = 1..Len(c) /\ c \in [1..Len(c) -> S]
  BY LenProperties
<1>2. c \in Injection(1..Len(c), S)
  BY <1>1 DEF Once, Injection, IsInjective
<1>3. Cardinality(1..Len(c)) <= Cardinality(S)
  BY <1>2, FS_Injection
<1>4. Cardinality(1..Len(c)) = Len(c)
  BY <1>1, CardinalityTo
<1> QED BY <1>1, <1>3, <1>4, FS_CardinalityType

(* From p the links lead through c, and, if c is all there is, to NULL.     *)
Leads(link, p, c) ==
  /\ c # <<>> => p = c[1]
  /\ \A i \in 1..Len(c) - 1 : link[c[i]] = c[i + 1]

Trace(N, link, p, c, At) ==
  LET n == Cardinality(N) + 1 IN
  /\ n \in Nat /\ At \in Seq(N \cup {NULL}) /\ Len(At) = n /\ Len(c) < n
  /\ Walk(link, p) = CutAtNull(At, n)
  /\ At[1] = p
  /\ \A k \in 1..n - 1 : At[k + 1] = IF At[k] = NULL THEN NULL ELSE link[At[k]]
  /\ \A k \in 1..Len(c) : At[k] = c[k]

(* What the walk consists of.                                               *)
LEMMA WalkFollows ==
  ASSUME NEW N, IsFiniteSet(N), NULL \notin N, NEW link \in [N -> N \cup {NULL}],
         NEW p \in N \cup {NULL}, NEW c \in Seq(N), Once(c), Leads(link, p, c)
  PROVE  \E At : Trace(N, link, p, c, At)
<1> DEFINE n == Cardinality(N) + 1
           L == Len(c)
<1>1. L \in Nat /\ n \in Nat /\ n >= 1 /\ L < n /\ DOMAIN c = 1..L /\ \A i \in 1..L : c[i] \in N
  BY OnceBounded, LenProperties
<1>2. PICK At : /\ Followed(link, p, At, n)
                /\ Walk(link, p) = CutAtNull(At, n)
  <2>1. n = Cardinality(DOMAIN link) + 1
    OBVIOUS
  <2> HIDE DEF n
  <2> QED BY <1>1, <2>1, WalkIs, SMTT(30)
<1>3. \A k \in 1..n : At[k] = IF k = 1 THEN p
                              ELSE IF At[k - 1] = NULL THEN NULL ELSE link[At[k - 1]]
  BY <1>2 DEF Followed
<1>4. /\ L # 0 => p = c[1]
      /\ \A i \in 1..L : i < L => link[c[i]] = c[i + 1]
  <2>1. c = <<>> <=> L = 0
    BY EmptySeq
  <2>2. \A i \in 1..L : i < L => i \in 1..L - 1
    BY <1>1
  <2> QED BY <2>1, <2>2 DEF Leads
<1> HIDE DEF n, L
<1>5. At[1] = p /\ \A k \in 1..n - 1 : At[k + 1] = IF At[k] = NULL THEN NULL ELSE link[At[k]]
  <2>1. At[1] = p
    BY <1>1, <1>3
  <2>2. ASSUME NEW k \in 1..n - 1
        PROVE  At[k + 1] = IF At[k] = NULL THEN NULL ELSE link[At[k]]
    <3>1. k + 1 \in 1..n /\ k + 1 # 1 /\ k + 1 - 1 = k
      BY <1>1
    <3> QED BY <1>3, <3>1
  <2> QED BY <2>1, <2>2
<1> DEFINE Ok == {k \in Nat : k + 1 <= n => /\ At[k + 1] \in N \cup {NULL}
                                            /\ k + 1 <= L => At[k + 1] = c[k + 1]}
<1>6. 0 \in Ok
  BY <1>1, <1>4, <1>5
<1>7. ASSUME NEW k \in Ok PROVE k + 1 \in Ok
  <2> SUFFICES ASSUME k + 2 <= n
               PROVE  /\ At[k + 2] \in N \cup {NULL}
                      /\ k + 2 <= L => At[k + 2] = c[k + 2]
    BY <1>1
  <2>1. k + 1 \in 1..n - 1 /\ k + 1 + 1 = k + 2 /\ k \in Nat /\ k + 1 <= n
    BY <1>1
  <2>2. At[k + 1] \in N \cup {NULL} /\ (k + 1 <= L => At[k + 1] = c[k + 1])
    BY <2>1
  <2>3. At[k + 2] = IF At[k + 1] = NULL THEN NULL ELSE link[At[k + 1]]
    BY <1>5, <2>1
  <2>4. ASSUME k + 2 <= L PROVE At[k + 2] = c[k + 2]
    <3>1. k + 1 \in 1..L /\ k + 1 < L
      BY <1>1, <2>1, <2>4
    <3>2. link[c[k + 1]] = c[k + 2] /\ c[k + 1] # NULL /\ At[k + 1] = c[k + 1]
      BY <1>1, <1>4, <2>1, <2>2, <3>1
    <3> QED BY <2>3, <3>2
  <2> QED BY <2>2, <2>3, <2>4
<1>8. Ok = Nat
  <2> HIDE DEF Ok
  <2>1. Ok \in SUBSET Nat
    BY DEF Ok
  <2> QED BY <1>6, <1>7, <2>1, Induction
<1>9. \A k \in 1..n : At[k] \in N \cup {NULL} /\ (k <= L => At[k] = c[k])
  <2> TAKE k \in 1..n
  <2>1. k - 1 \in Nat /\ k - 1 + 1 = k /\ k <= n
    BY <1>1
  <2>2. k - 1 \in Ok
    <3> HIDE DEF Ok
    <3> QED BY <1>8, <2>1
  <2> QED BY <2>1, <2>2
<1>10. At \in Seq(N \cup {NULL}) /\ Len(At) = n
  <2>1. At = [k \in 1..n |-> At[k]]
    BY <1>2 DEF Followed
  <2>2. At \in Seq(N \cup {NULL})
    BY <1>1, <1>9, <2>1, IsASeq
  <2> QED BY <1>1, <2>1, <2>2, LenProperties
<1>11. \A k \in 1..L : At[k] = c[k]
  BY <1>1, <1>9
<1> QED BY <1>1, <1>2, <1>5, <1>10, <1>11 DEF Trace, n, L

(* What a walk visits first, if that is all that is known of the links.     *)
Begins(N, s, c) ==
  /\ s \in Seq(N \cup {NULL}) /\ Len(s) \in Nat /\ Len(c) <= Len(s)
  /\ \A k \in 1..Len(c) : s[k] = c[k]
  /\ SubSeq(s, 1, Len(c)) = c

LEMMA WalkBegins ==
  ASSUME NEW N, IsFiniteSet(N), NULL \notin N, NEW link \in [N -> N \cup {NULL}],
         NEW p \in N \cup {NULL}, NEW c \in Seq(N), Once(c), Leads(link, p, c)
  PROVE  Begins(N, Walk(link, p), c)
<1> DEFINE n == Cardinality(N) + 1
           L == Len(c)
           V == N \cup {NULL}
<1>1. PICK At : Trace(N, link, p, c, At)
  BY WalkFollows
<1>a. /\ At \in Seq(V) /\ n \in Nat /\ Len(At) = n /\ L < n
      /\ Walk(link, p) = CutAtNull(At, n)
      /\ \A k \in 1..L : At[k] = c[k]
  BY <1>1 DEF Trace
<1> DEFINE S == {k \in 1..n : At[k] # NULL}
           m == Cardinality(S)
<1>2. L \in Nat /\ \A k \in 1..L : c[k] \in N
  BY LenProperties
<1>3. m \in Nat /\ L <= m /\ m <= n
  <2>1. 1..L \subseteq S
    BY <1>a, <1>2
  <2>2. IsFiniteSet(1..n) /\ Cardinality(1..n) = n
    BY <1>a, FS_Interval, CardinalityTo
  <2>3. Cardinality(1..L) = L
    BY <1>2, CardinalityTo
  <2>4. S \subseteq 1..n
    OBVIOUS
  <2> HIDE DEF S
  <2>5. IsFiniteSet(S) /\ Cardinality(S) \in Nat /\ Cardinality(S) <= Cardinality(1..n)
    BY <2>2, <2>4, FS_Subset, FS_CardinalityType
  <2>6. Cardinality(1..L) <= Cardinality(S)
    BY <2>1, <2>5, FS_Subset
  <2> QED BY <2>2, <2>3, <2>5, <2>6
<1> HIDE DEF n, L, m, V, S
<1>4. Walk(link, p) = SubSeq(At, 1, m)
  BY <1>a DEF m, S, CutAtNull
<1>5. /\ Walk(link, p) \in Seq(V) /\ Len(Walk(link, p)) = m
      /\ \A k \in 1..m : Walk(link, p)[k] = At[k]
  BY <1>a, <1>3, <1>4, CutIs
<1>6. \A k \in 1..L : Walk(link, p)[k] = c[k]
  BY <1>a, <1>2, <1>3, <1>5
<1>7. SubSeq(Walk(link, p), 1, L) = c
  <2> DEFINE w == Walk(link, p)
  <2> HIDE DEF w
  <2>1. w \in Seq(V) /\ Len(w) = m /\ \A k \in 1..L : w[k] = c[k]
    BY <1>5, <1>6 DEF w
  <2>2. SubSeq(w, 1, L) = [k \in 1..L |-> w[k]]
    BY <1>2, <1>3, <2>1
  <2>3. c = [k \in 1..L |-> c[k]]
    BY <1>2 DEF L
  <2>4. SubSeq(w, 1, L) = c
    BY <2>1, <2>2, <2>3
  <2> QED BY <2>4 DEF w
<1> QED BY <1>3, <1>5, <1>6, <1>7 DEF Begins, L, V

(* A walk visits just c if the links lead through c to NULL.                *)
LEMMA WalkVisits ==
  ASSUME NEW N, IsFiniteSet(N), NULL \notin N, NEW link \in [N -> N \cup {NULL}],
         NEW p \in N \cup {NULL}, NEW c \in Seq(N), Once(c), Leads(link, p, c),
         IF c = <<>> THEN p = NULL ELSE link[c[Len(c)]] = NULL
  PROVE  Walk(link, p) = c
<1> DEFINE n == Cardinality(N) + 1
           L == Len(c)
           V == N \cup {NULL}
<1>a. PICK At : Trace(N, link, p, c, At)
  BY WalkFollows
<1>1. /\ At \in Seq(V) /\ n \in Nat /\ Len(At) = n /\ L < n
      /\ Walk(link, p) = CutAtNull(At, n)
      /\ At[1] = p
      /\ \A k \in 1..n - 1 : At[k + 1] = IF At[k] = NULL THEN NULL ELSE link[At[k]]
      /\ \A k \in 1..L : At[k] = c[k]
  BY <1>a DEF Trace
<1>2. L \in Nat /\ (c = <<>> <=> L = 0) /\ \A k \in 1..L : c[k] \in N
  BY LenProperties, EmptySeq
<1> HIDE DEF n
<1>3. At[L + 1] = NULL
  <2>1. CASE L = 0
    BY <1>1, <1>2, <2>1
  <2>2. CASE L # 0
    <3>1. L \in 1..n - 1 /\ L \in 1..L
      BY <1>1, <1>2, <2>2
    <3>2. At[L] = c[L] /\ c[L] # NULL /\ link[c[L]] = NULL
      BY <1>1, <1>2, <2>2, <3>1
    <3> QED BY <1>1, <3>1, <3>2
  <2> QED BY <2>1, <2>2
<1> DEFINE Ok == {k \in Nat : L + 1 + k <= n => At[L + 1 + k] = NULL}
<1>4. 0 \in Ok
  BY <1>2, <1>3
<1>5. ASSUME NEW k \in Ok PROVE k + 1 \in Ok
  <2> SUFFICES ASSUME L + 1 + (k + 1) <= n PROVE At[L + 1 + (k + 1)] = NULL
    OBVIOUS
  <2>1. k \in Nat /\ L + 1 + k \in 1..n - 1 /\ L + 1 + (k + 1) = L + 1 + k + 1
    BY <1>1, <1>2
  <2>2. At[L + 1 + k] = NULL
    BY <1>1, <1>2, <2>1
  <2> QED BY <1>1, <2>1, <2>2
<1>6. Ok = Nat
  <2> HIDE DEF Ok
  <2>1. Ok \in SUBSET Nat
    BY DEF Ok
  <2> QED BY <1>4, <1>5, <2>1, Induction
<1>7. ASSUME NEW k \in 1..n, k > L PROVE At[k] = NULL
  <2>1. k - (L + 1) \in Nat /\ L + 1 + (k - (L + 1)) = k /\ k <= n
    BY <1>1, <1>2, <1>7
  <2>2. k - (L + 1) \in Ok
    <3> HIDE DEF Ok
    <3> QED BY <1>6, <2>1
  <2> QED BY <2>1, <2>2
<1>8. {k \in 1..n : At[k] # NULL} = 1..L
  <2>1. \A k \in 1..L : k \in 1..n /\ At[k] # NULL
    BY <1>1, <1>2
  <2>2. \A k \in 1..n : At[k] # NULL => k \in 1..L
    BY <1>1, <1>2, <1>7
  <2> QED BY <2>1, <2>2
<1>9. Len(Walk(link, p)) = L
  <2>1. Walk(link, p) = SubSeq(At, 1, L)
    BY <1>1, <1>2, <1>8, CardinalityTo DEF CutAtNull
  <2>2. L <= Len(At)
    BY <1>1, <1>2
  <2> HIDE DEF L
  <2> QED BY <1>1, <1>2, <2>1, <2>2, CutIs
<1>10. Walk(link, p) \in Seq(V) /\ SubSeq(Walk(link, p), 1, L) = c
  <2>1. Begins(N, Walk(link, p), c)
    BY WalkBegins
  <2> QED BY <2>1 DEF Begins
<1>11. SubSeq(Walk(link, p), 1, L) = Walk(link, p)
  <2> DEFINE w == Walk(link, p)
  <2> HIDE DEF w
  <2>1. w \in Seq(V) /\ Len(w) = L
    BY <1>9, <1>10 DEF w
  <2>2. SubSeq(w, 1, L) = w
    BY <1>2, <2>1
  <2> QED BY <2>2 DEF w
<1> QED BY <1>10, <1>11

LEMMA ChainIs ==
  ASSUME NEW N, IsFiniteSet(N), NULL \notin N, NEW D, NEW m \in Memory(N, D),
         NEW p, NEW c, Linked(m, p, c)
  PROVE  Chain(m, p) = c
<1> DEFINE link == m.next
           L == Len(c)
<1>1. link \in [N -> N \cup {NULL}] /\ DOMAIN link = N
  BY DEF Memory
<1>2. c \in Seq(N) /\ Once(c)
  BY <1>1 DEF Linked
<1>3. L \in Nat /\ DOMAIN c = 1..L /\ (c = <<>> <=> L = 0) /\ \A i \in 1..L : c[i] \in N
  BY <1>2, LenProperties, EmptySeq
<1>4. \A i \in 1..L : link[c[i]] = IF i = L THEN NULL ELSE c[i + 1]
  BY <1>3, Zenon DEF Linked
<1>5. p = IF c = <<>> THEN NULL ELSE c[1]
  BY DEF Linked
<1> HIDE DEF link, L
<1>6. Leads(link, p, c)
  <2>1. \A i \in 1..L - 1 : i \in 1..L /\ i # L
    BY <1>3
  <2>2. \A i \in 1..L - 1 : link[c[i]] = c[i + 1]
    BY <1>4, <2>1
  <2> QED BY <1>5, <2>2 DEF Leads, L
<1>7. p \in N \cup {NULL}
  <2>1. L # 0 => 1 \in 1..L
    BY <1>3
  <2> QED BY <1>3, <1>5, <2>1
<1>8. IF c = <<>> THEN p = NULL ELSE link[c[L]] = NULL
  <2>1. L # 0 => L \in 1..L
    BY <1>3
  <2> QED BY <1>3, <1>4, <1>5, <2>1
<1>9. Walk(link, p) = c
  BY <1>1, <1>2, <1>6, <1>7, <1>8, WalkVisits DEF L
<1> QED BY <1>9 DEF Chain, link
-----------------------------------------------------------------------------
(* What changes of links make of a list.                                    *)
LEMMA LinkedIs ==
  ASSUME NEW N, NEW D, NEW m \in Memory(N, D), NULL \notin N, NEW p, NEW c, Linked(m, p, c)
  PROVE  /\ c \in Seq(N) /\ Once(c) /\ Len(c) \in Nat /\ DOMAIN c = 1..Len(c)
         /\ c = <<>> <=> Len(c) = 0
         /\ p = IF Len(c) = 0 THEN NULL ELSE c[1]
         /\ p = NULL <=> Len(c) = 0
         /\ \A i \in 1..Len(c) :
              /\ c[i] \in N /\ c[i] # NULL
              /\ m.next[c[i]] = IF i = Len(c) THEN NULL ELSE c[i + 1]
              /\ m.prev[c[i]] = IF i = 1 THEN NULL ELSE c[i - 1]
<1>1. DOMAIN m.next = N
  BY DEF Memory
<1>2. c \in Seq(N) /\ Once(c)
  BY <1>1 DEF Linked
<1>3. Len(c) \in Nat /\ DOMAIN c = 1..Len(c) /\ \A i \in 1..Len(c) : c[i] \in N /\ c[i] # NULL
  BY <1>2, LenProperties
<1>4. c = <<>> <=> Len(c) = 0
  BY <1>2, EmptySeq
<1>5. p = IF Len(c) = 0 THEN NULL ELSE c[1]
  BY <1>4 DEF Linked
<1>6. Len(c) # 0 => 1 \in 1..Len(c)
  BY <1>3
<1>7. p = NULL <=> Len(c) = 0
  BY <1>3, <1>5, <1>6
<1> QED BY <1>2, <1>3, <1>4, <1>5, <1>7, Zenon DEF Linked

LinksIn(m, w, c, i, n) ==
  /\ w.next[n] = IF i = Len(c) + 1 THEN NULL ELSE c[i]
  /\ w.prev[n] = IF i = 1 THEN NULL ELSE c[i - 1]
  /\ \A j \in 1..Len(c) :
       /\ w.next[c[j]] = IF j = i - 1 THEN n ELSE m.next[c[j]]
       /\ w.prev[c[j]] = IF j = i THEN n ELSE m.prev[c[j]]

LEMMA LinkIn ==
  ASSUME NEW N, NEW D, NULL \notin N, NEW m \in Memory(N, D), NEW w \in Memory(N, D),
         NEW p, NEW c, Linked(m, p, c), NEW i \in 1..Len(c) + 1, NEW n \in N \ Of(c),
         LinksIn(m, w, c, i, n)
  PROVE  Linked(w, IF i = 1 THEN n ELSE p, With(c, i, n))
<1> DEFINE s == With(c, i, n)
           L == Len(c)
<1>1. /\ c \in Seq(N) /\ L \in Nat /\ i \in Nat /\ n \in N
      /\ p = IF L = 0 THEN NULL ELSE c[1]
      /\ \A j \in 1..L : /\ m.next[c[j]] = IF j = L THEN NULL ELSE c[j + 1]
                         /\ m.prev[c[j]] = IF j = 1 THEN NULL ELSE c[j - 1]
  BY LinkedIs
<1>0. /\ w.next[n] = IF i = L + 1 THEN NULL ELSE c[i]
      /\ w.prev[n] = IF i = 1 THEN NULL ELSE c[i - 1]
      /\ \A j \in 1..L :
           /\ w.next[c[j]] = IF j = i - 1 THEN n ELSE m.next[c[j]]
           /\ w.prev[c[j]] = IF j = i THEN n ELSE m.prev[c[j]]
  BY DEF LinksIn
<1>2. /\ s \in Seq(N) /\ Len(s) = L + 1 /\ DOMAIN s = 1..L + 1
      /\ Once(s)
  BY <1>1, WithIs DEF Linked
<1>3. \A j \in 1..L + 1 : s[j] = IF j < i THEN c[j] ELSE IF j = i THEN n ELSE c[j - 1]
  BY DEF With
<1>4. DOMAIN w.next = N
  BY DEF Memory
<1> HIDE DEF s, L
<1>5. s # <<>> /\ s[1] = IF i = 1 THEN n ELSE p
  BY <1>1, <1>2, <1>3 DEF L
<1>6. ASSUME NEW j \in 1..L + 1
      PROVE  /\ w.next[s[j]] = IF j = L + 1 THEN NULL ELSE s[j + 1]
             /\ w.prev[s[j]] = IF j = 1 THEN NULL ELSE s[j - 1]
  <2>1. CASE j < i
    <3>1. j \in 1..L /\ s[j] = c[j] /\ j # L + 1 /\ j + 1 \in 1..L + 1 /\ j # i
      BY <1>1, <1>3, <2>1 DEF L
    <3>2. w.next[s[j]] = s[j + 1]
      <4>1. CASE j = i - 1
        <5>1. s[j + 1] = n
          BY <1>1, <1>3, <3>1, <4>1
        <5> QED BY <1>0, <3>1, <4>1, <5>1
      <4>2. CASE j # i - 1
        <5>1. j + 1 < i /\ j # L
          BY <1>1, <2>1, <4>2 DEF L
        <5>2. s[j + 1] = c[j + 1]
          BY <1>3, <3>1, <5>1
        <5> QED BY <1>0, <1>1, <3>1, <4>2, <5>1, <5>2
      <4> QED BY <4>1, <4>2
    <3>3. w.prev[s[j]] = IF j = 1 THEN NULL ELSE s[j - 1]
      <4>1. j # 1 => j - 1 \in 1..L + 1 /\ j - 1 < i
        BY <1>1, <2>1
      <4>2. j # 1 => s[j - 1] = c[j - 1]
        BY <1>3, <4>1
      <4> QED BY <1>0, <1>1, <3>1, <4>2
    <3> QED BY <3>1, <3>2, <3>3
  <2>2. CASE j = i
    <3>1. s[j] = n
      BY <1>3, <2>2
    <3>2. j # L + 1 => s[j + 1] = c[j]
      <4>1. j # L + 1 => j + 1 \in 1..L + 1 /\ ~(j + 1 < i) /\ j + 1 # i /\ j + 1 - 1 = j
        BY <1>1, <2>2
      <4> QED BY <1>3, <4>1
    <3>3. j # 1 => s[j - 1] = c[j - 1]
      <4>1. j # 1 => j - 1 \in 1..L + 1 /\ j - 1 < i
        BY <1>1, <2>2
      <4> QED BY <1>3, <4>1
    <3> QED BY <1>0, <2>2, <3>1, <3>2, <3>3
  <2>3. CASE j > i
    <3>1. j - 1 \in 1..L /\ s[j] = c[j - 1] /\ j # 1 /\ j - 1 # i - 1 /\ j - 1 + 1 = j
      BY <1>1, <1>3, <2>3 DEF L
    <3>2. w.next[s[j]] = IF j = L + 1 THEN NULL ELSE s[j + 1]
      <4>1. w.next[s[j]] = IF j - 1 = L THEN NULL ELSE c[j - 1 + 1]
        BY <1>0, <1>1, <3>1
      <4>2. j # L + 1 => j + 1 \in 1..L + 1 /\ ~(j + 1 < i) /\ j + 1 # i /\ j + 1 - 1 = j
        BY <1>1, <2>3
      <4>3. j # L + 1 => s[j + 1] = c[j]
        BY <1>3, <4>2
      <4>4. j - 1 = L <=> j = L + 1
        BY <1>1
      <4> QED BY <3>1, <4>1, <4>3, <4>4
    <3>3. w.prev[s[j]] = s[j - 1]
      <4>1. CASE j - 1 = i
        <5>1. s[j - 1] = n
          BY <1>1, <1>3, <3>1, <4>1
        <5> QED BY <1>0, <3>1, <4>1, <5>1
      <4>2. CASE j - 1 # i
        <5>1. j - 1 \in 1..L + 1 /\ ~(j - 1 < i) /\ j - 1 # 1
          BY <1>1, <2>3, <4>2
        <5>2. s[j - 1] = c[j - 1 - 1]
          BY <1>3, <4>2, <5>1
        <5> QED BY <1>0, <1>1, <3>1, <4>2, <5>1, <5>2
      <4> QED BY <4>1, <4>2
    <3> QED BY <3>1, <3>2, <3>3
  <2> QED BY <1>1, <2>1, <2>2, <2>3
<1> QED BY <1>2, <1>4, <1>5, <1>6 DEF Linked, s

LinksLast(m, w, c, n) ==
  /\ w.next[n] = NULL /\ w.prev[n] = IF Len(c) = 0 THEN NULL ELSE c[Len(c)]
  /\ \A j \in 1..Len(c) :
       /\ w.next[c[j]] = IF j = Len(c) THEN n ELSE m.next[c[j]]
       /\ w.prev[c[j]] = m.prev[c[j]]

LEMMA LinkLast ==
  ASSUME NEW N, NEW D, NULL \notin N, NEW m \in Memory(N, D), NEW w \in Memory(N, D),
         NEW p, NEW c, Linked(m, p, c), NEW n \in N \ Of(c),
         LinksLast(m, w, c, n)
  PROVE  Linked(w, IF p = NULL THEN n ELSE p, With(c, Len(c) + 1, n))
<1>1. Len(c) \in Nat /\ (p = NULL <=> Len(c) = 0)
  BY LinkedIs
<1>2. PICK i \in 1..Len(c) + 1 : i = Len(c) + 1
  BY <1>1
<1>3. i - 1 = Len(c) /\ (i = 1 <=> Len(c) = 0) /\ \A j \in 1..Len(c) : j # i
  BY <1>1, <1>2
<1>4. LinksIn(m, w, c, i, n)
  <2>1. w.next[n] = IF i = Len(c) + 1 THEN NULL ELSE c[i]
    BY <1>2 DEF LinksLast
  <2>2. w.prev[n] = IF i = 1 THEN NULL ELSE c[i - 1]
    BY <1>3 DEF LinksLast
  <2>3. ASSUME NEW j \in 1..Len(c)
        PROVE  /\ w.next[c[j]] = IF j = i - 1 THEN n ELSE m.next[c[j]]
               /\ w.prev[c[j]] = IF j = i THEN n ELSE m.prev[c[j]]
    <3>1. (j = i - 1 <=> j = Len(c)) /\ j # i
      BY <1>3
    <3> QED BY <3>1, Zenon DEF LinksLast
  <2> QED BY <2>1, <2>2, <2>3 DEF LinksIn
<1>5. Linked(w, IF i = 1 THEN n ELSE p, With(c, i, n))
  BY <1>4, LinkIn
<1> QED BY <1>1, <1>2, <1>3, <1>5

LinksOut(m, w, c, i) ==
  \A j \in 1..Len(c) : j # i =>
    /\ w.next[c[j]] = IF j = i - 1 THEN m.next[c[i]] ELSE m.next[c[j]]
    /\ w.prev[c[j]] = IF j = i + 1 THEN m.prev[c[i]] ELSE m.prev[c[j]]

LEMMA LinkOut ==
  ASSUME NEW N, NEW D, NULL \notin N, NEW m \in Memory(N, D), NEW w \in Memory(N, D),
         NEW p, NEW c, Linked(m, p, c), NEW i \in 1..Len(c),
         LinksOut(m, w, c, i)
  PROVE  Linked(w, IF i = 1 THEN m.next[p] ELSE p, Without(c, i))
<1> DEFINE s == Without(c, i)
           L == Len(c)
<1>1. /\ c \in Seq(N) /\ L \in Nat /\ i \in Nat
      /\ p = IF L = 0 THEN NULL ELSE c[1]
      /\ \A j \in 1..L : /\ m.next[c[j]] = IF j = L THEN NULL ELSE c[j + 1]
                         /\ m.prev[c[j]] = IF j = 1 THEN NULL ELSE c[j - 1]
  BY LinkedIs
<1>2. /\ s \in Seq(N) /\ Len(s) = L - 1 /\ DOMAIN s = 1..L - 1
      /\ Once(s)
  BY <1>1, WithoutIs DEF Linked
<1>3. \A j \in 1..L - 1 : s[j] = IF j < i THEN c[j] ELSE c[j + 1]
  BY DEF Without
<1>4. DOMAIN w.next = N
  BY DEF Memory
<1>5. \A j \in 1..L : j # i =>
           /\ w.next[c[j]] = IF j = i - 1 THEN m.next[c[i]] ELSE m.next[c[j]]
           /\ w.prev[c[j]] = IF j = i + 1 THEN m.prev[c[i]] ELSE m.prev[c[j]]
  BY DEF LinksOut
<1>6. L # 0 /\ i \in 1..L
  BY <1>1
<1> HIDE DEF s, L
<1>7. s = <<>> <=> L = 1
  <2>1. s = <<>> <=> Len(s) = 0
    BY <1>2, EmptySeq
  <2> QED BY <1>1, <1>2, <2>1
<1>8. (IF i = 1 THEN m.next[p] ELSE p) = IF s = <<>> THEN NULL ELSE s[1]
  <2>1. m.next[p] = IF L = 1 THEN NULL ELSE c[2]
    BY <1>1, <1>6
  <2>2. L # 1 => s[1] = IF 1 < i THEN c[1] ELSE c[2]
    <3>1. L # 1 => 1 \in 1..L - 1
      BY <1>1, <1>6
    <3> QED BY <1>3, <3>1
  <2>3. L = 1 => i = 1
    BY <1>6
  <2> QED BY <1>1, <1>6, <1>7, <2>1, <2>2, <2>3
<1>9. ASSUME NEW j \in 1..L - 1
      PROVE  /\ w.next[s[j]] = IF j = L - 1 THEN NULL ELSE s[j + 1]
             /\ w.prev[s[j]] = IF j = 1 THEN NULL ELSE s[j - 1]
  <2>1. CASE j < i
    <3>1. j \in 1..L /\ s[j] = c[j] /\ j # i /\ j # L /\ j # i + 1
      BY <1>1, <1>3, <2>1
    <3>2. w.next[s[j]] = IF j = L - 1 THEN NULL ELSE s[j + 1]
      <4>1. CASE j = i - 1
        <5>1. w.next[s[j]] = IF i = L THEN NULL ELSE c[i + 1]
          BY <1>1, <1>5, <1>6, <3>1, <4>1
        <5>2. j # L - 1 => j + 1 \in 1..L - 1 /\ ~(j + 1 < i) /\ j + 1 = i
          BY <1>1, <4>1
        <5>3. j # L - 1 => s[j + 1] = c[i + 1]
          BY <1>3, <5>2
        <5>4. i = L <=> j = L - 1
          BY <1>1, <4>1
        <5> QED BY <5>1, <5>3, <5>4
      <4>2. CASE j # i - 1
        <5>1. j + 1 < i /\ j + 1 \in 1..L - 1 /\ j # L - 1
          BY <1>1, <1>6, <2>1, <4>2, SMTT(30)
        <5>2. s[j + 1] = c[j + 1]
          BY <1>3, <5>1
        <5> QED BY <1>1, <1>5, <3>1, <4>2, <5>1, <5>2
      <4> QED BY <4>1, <4>2
    <3>3. w.prev[s[j]] = IF j = 1 THEN NULL ELSE s[j - 1]
      <4>1. j # 1 => j - 1 \in 1..L - 1 /\ j - 1 < i
        BY <1>1, <2>1
      <4>2. j # 1 => s[j - 1] = c[j - 1]
        BY <1>3, <4>1
      <4> QED BY <1>1, <1>5, <3>1, <4>2
    <3> QED BY <3>2, <3>3
  <2>2. CASE j >= i
    <3> L \in Nat /\ i \in Nat /\ j \in 1..L - 1 /\ j >= i
      BY <1>1, <2>2
    <3>1. j + 1 \in 1..L /\ s[j] = c[j + 1] /\ j + 1 # i /\ j + 1 # i - 1 /\ j + 1 # 1
      <4>1. j + 1 \in 1..L /\ j + 1 # i /\ j + 1 # i - 1 /\ j + 1 # 1 /\ ~(j < i)
        OBVIOUS
      <4> QED BY <1>3, <4>1
    <3>2. w.next[s[j]] = IF j = L - 1 THEN NULL ELSE s[j + 1]
      <4>1. w.next[s[j]] = IF j + 1 = L THEN NULL ELSE c[j + 1 + 1]
        BY <1>1, <1>5, <3>1
      <4>2. j # L - 1 => j + 1 \in 1..L - 1 /\ ~(j + 1 < i)
        OBVIOUS
      <4>3. j # L - 1 => s[j + 1] = c[j + 1 + 1]
        BY <1>3, <4>2
      <4>4. j + 1 = L <=> j = L - 1
        BY <1>1
      <4> QED BY <4>1, <4>3, <4>4
    <3>3. w.prev[s[j]] = IF j = 1 THEN NULL ELSE s[j - 1]
      <4>1. CASE j = i
        <5>1. w.prev[s[j]] = IF i = 1 THEN NULL ELSE c[i - 1]
          BY <1>1, <1>5, <1>6, <3>1, <4>1
        <5>2. j # 1 => j - 1 \in 1..L - 1 /\ j - 1 < i
          BY <1>1, <4>1
        <5>3. j # 1 => s[j - 1] = c[j - 1]
          BY <1>3, <5>2
        <5> QED BY <4>1, <5>1, <5>3
      <4>2. CASE j # i
        <5>1. j - 1 \in 1..L - 1 /\ ~(j - 1 < i) /\ j # 1 /\ j - 1 + 1 = j /\ j + 1 - 1 = j
          BY <1>1, <2>2, <4>2
        <5>2. s[j - 1] = c[j]
          BY <1>3, <5>1
        <5>3. w.prev[s[j]] = c[j + 1 - 1]
          <6>1. j + 1 # i + 1
            BY <1>1, <4>2
          <6> QED BY <1>1, <1>5, <3>1, <6>1
        <5> QED BY <5>1, <5>2, <5>3
      <4> QED BY <4>1, <4>2
    <3> QED BY <3>2, <3>3
  <2> QED BY <1>1, <2>1, <2>2
<1> QED BY <1>2, <1>4, <1>8, <1>9 DEF Linked, s

LinksBoth(m, w, c, d) ==
  /\ \A j \in 1..Len(c) :
       /\ w.next[c[j]] = IF j = Len(c) THEN d[1] ELSE m.next[c[j]]
       /\ w.prev[c[j]] = m.prev[c[j]]
  /\ \A j \in 1..Len(d) :
       /\ w.next[d[j]] = m.next[d[j]]
       /\ w.prev[d[j]] = IF j = 1 THEN c[Len(c)] ELSE m.prev[d[j]]

LEMMA LinkBoth ==
  ASSUME NEW N, NEW D, NULL \notin N, NEW m \in Memory(N, D), NEW w \in Memory(N, D),
         NEW p, NEW c, Linked(m, p, c), p # NULL,
         NEW q, NEW d, Linked(m, q, d), q # NULL,
         Of(c) \cap Of(d) = {},
         LinksBoth(m, w, c, d)
  PROVE  Linked(w, p, Joined(c, d))
<1> DEFINE s == Joined(c, d)
           L == Len(c)
           M == Len(d)
<1>1. /\ c \in Seq(N) /\ L \in Nat /\ L # 0 /\ p = c[1]
      /\ \A j \in 1..L : /\ m.next[c[j]] = IF j = L THEN NULL ELSE c[j + 1]
                         /\ m.prev[c[j]] = IF j = 1 THEN NULL ELSE c[j - 1]
  BY LinkedIs
<1>2. /\ d \in Seq(N) /\ M \in Nat /\ M # 0 /\ q = d[1]
      /\ \A j \in 1..M : /\ m.next[d[j]] = IF j = M THEN NULL ELSE d[j + 1]
                         /\ m.prev[d[j]] = IF j = 1 THEN NULL ELSE d[j - 1]
  BY LinkedIs
<1>3. /\ s \in Seq(N) /\ Len(s) = L + M /\ DOMAIN s = 1..L + M /\ Once(s)
  BY <1>1, <1>2, JoinedIs DEF Linked
<1>4. \A j \in 1..L + M : s[j] = IF j <= L THEN c[j] ELSE d[j - L]
  BY DEF Joined
<1>5. \A j \in 1..L : /\ w.next[c[j]] = IF j = L THEN d[1] ELSE m.next[c[j]]
                      /\ w.prev[c[j]] = m.prev[c[j]]
  BY DEF LinksBoth
<1>6. \A j \in 1..M : /\ w.next[d[j]] = m.next[d[j]]
                      /\ w.prev[d[j]] = IF j = 1 THEN c[L] ELSE m.prev[d[j]]
  BY DEF LinksBoth
<1>7. DOMAIN w.next = N
  BY DEF Memory
<1> HIDE DEF s, L, M
<1>8. s # <<>> /\ s[1] = p
  <2>1. 1 \in 1..L + M /\ 1 <= L
    BY <1>1, <1>2
  <2> QED BY <1>1, <1>3, <1>4, <2>1
<1>9. ASSUME NEW j \in 1..L + M
      PROVE  /\ w.next[s[j]] = IF j = L + M THEN NULL ELSE s[j + 1]
             /\ w.prev[s[j]] = IF j = 1 THEN NULL ELSE s[j - 1]
  <2> L \in Nat /\ M \in Nat /\ L # 0 /\ M # 0
    BY <1>1, <1>2
  <2>1. CASE j <= L
    <3>1. j \in 1..L /\ s[j] = c[j] /\ j # L + M
      BY <1>4, <2>1
    <3>2. w.next[s[j]] = s[j + 1]
      <4>1. CASE j = L
        <5>1. j + 1 \in 1..L + M /\ ~(j + 1 <= L) /\ j + 1 - L = 1
          BY <4>1
        <5>2. s[j + 1] = d[1]
          BY <1>4, <5>1
        <5> QED BY <1>2, <1>5, <3>1, <4>1, <5>2
      <4>2. CASE j # L
        <5>1. j + 1 \in 1..L + M /\ j + 1 <= L
          BY <2>1, <4>2
        <5> QED BY <1>1, <1>4, <1>5, <3>1, <4>2, <5>1
      <4> QED BY <4>1, <4>2
    <3>3. j # 1 => j - 1 \in 1..L + M /\ j - 1 <= L
      BY <2>1
    <3>4. j # 1 => s[j - 1] = c[j - 1]
      BY <1>4, <3>3
    <3> QED BY <1>1, <1>5, <3>1, <3>2, <3>4
  <2>2. CASE j > L
    <3> DEFINE g == j - L
    <3>1. g \in 1..M /\ s[j] = d[g] /\ j # 1
      BY <1>4, <2>2
    <3>2. w.next[s[j]] = IF j = L + M THEN NULL ELSE s[j + 1]
      <4>1. j # L + M => j + 1 \in 1..L + M /\ ~(j + 1 <= L) /\ j + 1 - L = g + 1
        <5>1. j \in Nat
          OBVIOUS
        <5> QED BY <2>2, <5>1
      <4>2. j # L + M => s[j + 1] = d[g + 1]
        BY <1>4, <4>1
      <4>3. g = M <=> j = L + M
        OBVIOUS
      <4> HIDE DEF g
      <4> QED BY <1>2, <1>6, <3>1, <4>2, <4>3
    <3>3. w.prev[s[j]] = s[j - 1]
      <4>1. CASE g = 1
        <5>1. j - 1 \in 1..L + M /\ j - 1 <= L /\ j - 1 = L
          BY <4>1
        <5>2. s[j - 1] = c[L]
          BY <1>4, <5>1
        <5> HIDE DEF g
        <5> QED BY <1>6, <3>1, <4>1, <5>2
      <4>2. CASE g # 1
        <5>1. j - 1 \in 1..L + M /\ ~(j - 1 <= L) /\ j - 1 - L = g - 1
          BY <2>2, <4>2
        <5>2. s[j - 1] = d[g - 1]
          BY <1>4, <5>1
        <5> HIDE DEF g
        <5> QED BY <1>2, <1>6, <3>1, <4>2, <5>2
      <4> QED BY <4>1, <4>2
    <3> QED BY <3>1, <3>2, <3>3
  <2> QED BY <2>1, <2>2
<1> QED BY <1>3, <1>7, <1>8, <1>9 DEF Linked, s

LinksBack(m, w, c) ==
  \A j \in 1..Len(c) : w.next[c[j]] = m.prev[c[j]] /\ w.prev[c[j]] = m.next[c[j]]

LEMMA LinkBack ==
  ASSUME NEW N, NEW D, NULL \notin N, NEW m \in Memory(N, D), NEW w \in Memory(N, D),
         NEW p, NEW c, Linked(m, p, c),
         LinksBack(m, w, c)
  PROVE  Linked(w, IF p = NULL THEN NULL ELSE c[Len(c)], Backwards(c))
<1> DEFINE s == Backwards(c)
           L == Len(c)
<1>1. /\ c \in Seq(N) /\ L \in Nat /\ (p = NULL <=> L = 0)
      /\ \A j \in 1..L : /\ m.next[c[j]] = IF j = L THEN NULL ELSE c[j + 1]
                         /\ m.prev[c[j]] = IF j = 1 THEN NULL ELSE c[j - 1]
  BY LinkedIs
<1>2. /\ s \in Seq(N) /\ Len(s) = L /\ DOMAIN s = 1..L /\ Once(s)
  BY <1>1, BackwardsIs DEF Linked
<1>3. \A j \in 1..L : s[j] = c[L + 1 - j]
  BY DEF Backwards
<1>4. DOMAIN w.next = N
  BY DEF Memory
<1>5. \A j \in 1..L : w.next[c[j]] = m.prev[c[j]] /\ w.prev[c[j]] = m.next[c[j]]
  BY DEF LinksBack
<1>6. s = <<>> <=> L = 0
  BY <1>2, EmptySeq
<1>7. c[Len(c)] = c[L]
  OBVIOUS
<1> HIDE DEF s, L
<1>8. (IF p = NULL THEN NULL ELSE c[Len(c)]) = IF s = <<>> THEN NULL ELSE s[1]
  <2>1. L # 0 => 1 \in 1..L /\ L + 1 - 1 = L
    BY <1>1
  <2>2. L # 0 => s[1] = c[L]
    BY <1>3, <2>1
  <2> QED BY <1>1, <1>6, <1>7, <2>2
<1>9. ASSUME NEW j \in 1..L
      PROVE  /\ w.next[s[j]] = IF j = L THEN NULL ELSE s[j + 1]
             /\ w.prev[s[j]] = IF j = 1 THEN NULL ELSE s[j - 1]
  <2> L \in Nat
    BY <1>1
  <2> DEFINE g == L + 1 - j
  <2>1. g \in 1..L /\ s[j] = c[g]
    BY <1>3
  <2>2. (g = 1 <=> j = L) /\ (g = L <=> j = 1)
    OBVIOUS
  <2>3. j # L => j + 1 \in 1..L /\ L + 1 - (j + 1) = g - 1
    OBVIOUS
  <2>4. j # 1 => j - 1 \in 1..L /\ L + 1 - (j - 1) = g + 1
    OBVIOUS
  <2>5. (j # L => s[j + 1] = c[g - 1]) /\ (j # 1 => s[j - 1] = c[g + 1])
    BY <1>3, <2>3, <2>4
  <2> HIDE DEF g
  <2> QED BY <1>1, <1>5, <2>1, <2>2, <2>5
<1> QED BY <1>2, <1>4, <1>8, <1>9 DEF Linked, s

SameLinks(m, w, S) == \A x \in S : w.next[x] = m.next[x] /\ w.prev[x] = m.prev[x]

LEMMA LinkedElsewhere ==
  ASSUME NEW N, NEW D, NEW m \in Memory(N, D), NEW w \in Memory(N, D),
         NEW p, NEW c, Linked(m, p, c),
         SameLinks(m, w, Of(c))
  PROVE  Linked(w, p, c)
<1>1. DOMAIN m.next = DOMAIN w.next
  BY DEF Memory
<1>2. \A j \in DOMAIN c : w.next[c[j]] = m.next[c[j]] /\ w.prev[c[j]] = m.prev[c[j]]
  BY DEF Of, SameLinks
<1> QED BY <1>1, <1>2, Zenon DEF Linked
-----------------------------------------------------------------------------
(* The operations.  What r returns is the list c; outside S the links are   *)
(* what they were.                                                          *)
Makes(N, D, m, r, c, S) ==
  /\ r.mem \in Memory(N, D) /\ Linked(r.mem, r.head, c)
  /\ SameLinks(m, r.mem, N \ S)
Stores(m, w, n, d) == w.data = [m.data EXCEPT ![n] = d]

LEMMA LastIs ==
  ASSUME NEW N, IsFiniteSet(N), NULL \notin N, NEW D, NEW m \in Memory(N, D),
         NEW p, NEW c, Linked(m, p, c)
  PROVE  LastNode(m, p) = IF Len(c) = 0 THEN NULL ELSE c[Len(c)]
<1>1. Chain(m, p) = c /\ (p = NULL <=> Len(c) = 0)
  BY ChainIs, LinkedIs
<1> QED BY <1>1 DEF LastNode

(* ta_list_append                                                           *)
LEMMA AppendNodeIs ==
  ASSUME NEW N, IsFiniteSet(N), NULL \notin N, NEW D, NEW m \in Memory(N, D),
         NEW p, NEW c, Linked(m, p, c), NEW n \in N \ Of(c), NEW d \in D, d # NULL
  PROVE  LET r == AppendNode(m, p, n, d) IN
         /\ Makes(N, D, m, r, With(c, Len(c) + 1, n), Of(c) \cup {n})
         /\ Stores(m, r.mem, n, d)
<1> DEFINE L == Len(c)
           last == IF L = 0 THEN NULL ELSE c[L]
           new == [m EXCEPT !.next[n] = NULL, !.prev[n] = last, !.data[n] = d]
           r == AppendNode(m, p, n, d)
           w == r.mem
<1>1. /\ c \in Seq(N) /\ Once(c) /\ L \in Nat /\ DOMAIN c = 1..L /\ (p = NULL <=> L = 0)
      /\ \A j \in 1..L : c[j] \in N
  BY LinkedIs
<1>2. LastNode(m, p) = last
  BY LastIs
<1>3. r = IF p = NULL THEN List(new, n) ELSE List([new EXCEPT !.next[last] = n], p)
  BY <1>2 DEF AppendNode
<1>4. /\ new \in Memory(N, D)
      /\ new.next = [m.next EXCEPT ![n] = NULL] /\ new.prev = [m.prev EXCEPT ![n] = last]
      /\ new.data = [m.data EXCEPT ![n] = d]
  <2>1. last \in N \cup {NULL}
    BY <1>1
  <2> HIDE DEF last
  <2> QED BY <2>1 DEF Memory
<1>5. r.head = IF p = NULL THEN n ELSE p
  <2> HIDE DEF new, last, L
  <2> QED BY <1>1, <1>3 DEF List
<1>6. /\ w \in Memory(N, D) /\ w.data = new.data /\ w.prev = new.prev
      /\ w.next = IF L = 0 THEN new.next ELSE [new.next EXCEPT ![last] = n]
  <2>1. w = IF p = NULL THEN new ELSE [new EXCEPT !.next[last] = n]
    BY <1>3 DEF List
  <2> HIDE DEF new, w, L
  <2> QED BY <1>1, <1>4, <2>1 DEF Memory
<1>7. \A j \in 1..L : c[j] # n
  BY <1>1 DEF Of
<1>8. /\ w.next[n] = NULL /\ w.prev[n] = last
      /\ \A j \in 1..L : /\ w.next[c[j]] = IF j = L THEN n ELSE m.next[c[j]]
                         /\ w.prev[c[j]] = m.prev[c[j]]
  <2>1. /\ \A x \in N : new.next[x] = IF x = n THEN NULL ELSE m.next[x]
        /\ \A x \in N : new.prev[x] = IF x = n THEN last ELSE m.prev[x]
        /\ DOMAIN new.next = N
    BY <1>4 DEF Memory
  <2>2. L # 0 => last = c[L] /\ L \in 1..L
    BY <1>1
  <2>3. \A j \in 1..L : L # 0 /\ (c[j] = last <=> j = L)
    <3> HIDE DEF last, L
    <3> QED BY <1>1, <2>2 DEF Once
  <2> HIDE DEF new, last, w
  <2>4. \A x \in N : w.next[x] = IF L # 0 /\ x = last THEN n ELSE new.next[x]
    BY <1>6, <2>1
  <2> HIDE DEF L
  <2>5. w.next[n] = NULL
    BY <1>1, <1>7, <2>1, <2>2, <2>4
  <2> QED BY <1>1, <1>6, <1>7, <2>1, <2>3, <2>4, <2>5
<1>9. Linked(w, IF p = NULL THEN n ELSE p, With(c, L + 1, n))
  <2> HIDE DEF w
  <2>1. LinksLast(m, w, c, n)
    BY <1>8 DEF LinksLast
  <2> QED BY <1>6, <2>1, LinkLast
<1>10. SameLinks(m, w, N \ (Of(c) \cup {n}))
  <2>1. \A x \in N \ (Of(c) \cup {n}) : new.next[x] = m.next[x] /\ new.prev[x] = m.prev[x]
    BY <1>4 DEF Memory
  <2>2. L # 0 => last \in Of(c)
    BY <1>1 DEF Of
  <2>3. DOMAIN new.next = N
    BY <1>4 DEF Memory
  <2> HIDE DEF new, last, w, L
  <2> QED BY <1>6, <2>1, <2>2, <2>3 DEF SameLinks
<1> HIDE DEF new, last, L
<1> QED BY <1>4, <1>5, <1>6, <1>9, <1>10 DEF Makes, Stores, L

LEMMA LeastOf ==
  ASSUME NEW H \in SUBSET Nat, H # {}
  PROVE  \E i \in H : \A j \in H : i <= j
<1>1. IsWellFoundedOn(Below, Nat)
  BY NatLessThanWellFounded, Zenon DEF OpToRel, Below
<1>2. PICK i \in H : \A j \in H : ~(<<j, i>> \in Below)
  BY <1>1, WFMin
<1>3. \A j \in H : ~(j < i)
  BY <1>2 DEF Below
<1> QED BY <1>3

(* Unlinking the i-th node, which ta_list_remove does.                      *)
LEMMA UnlinkIs ==
  ASSUME NEW N, IsFiniteSet(N), NULL \notin N, NEW D, NEW m \in Memory(N, D),
         NEW p, NEW c, Linked(m, p, c), NEW i \in 1..Len(c)
  PROVE  LET r == Unlink(m, p, c[i]) IN
         /\ Makes(N, D, m, r, Without(c, i), Of(c))
         /\ r.mem.data = m.data
<1> DEFINE L == Len(c)
           n == c[i]
           prev == m.prev[n]
           next == m.next[n]
           r == Unlink(m, p, n)
           w == r.mem
           back == IF n = p THEN NULL ELSE prev
<1>1. /\ Once(c) /\ L \in Nat /\ DOMAIN c = 1..L /\ p = IF L = 0 THEN NULL ELSE c[1]
      /\ \A j \in 1..L : /\ c[j] \in N /\ c[j] # NULL
                         /\ m.next[c[j]] = IF j = L THEN NULL ELSE c[j + 1]
                         /\ m.prev[c[j]] = IF j = 1 THEN NULL ELSE c[j - 1]
  BY LinkedIs
<1>2. /\ n \in N /\ L # 0 /\ 1 \in 1..L
      /\ n = p <=> i = 1
  <2>1. L \in Nat /\ i \in 1..L
    BY <1>1
  <2>2. L # 0 /\ 1 \in 1..L
    BY <2>1, SMTT(30)
  <2> HIDE DEF L
  <2> QED BY <1>1, <2>1, <2>2, SMTT(30) DEF Once
<1>3. /\ prev = IF i = 1 THEN NULL ELSE c[i - 1]
      /\ next = IF i = L THEN NULL ELSE c[i + 1]
  BY <1>1
<1>4. /\ i # 1 => i - 1 \in 1..L
      /\ i # L => i + 1 \in 1..L
  <2>1. L \in Nat /\ i \in 1..L
    BY <1>1
  <2> HIDE DEF L
  <2> QED BY <2>1, SMTT(30)
<1>5. /\ prev = NULL <=> i = 1
      /\ next = NULL <=> i = L
      /\ prev \in N \cup {NULL} /\ next \in N \cup {NULL} /\ back = prev
  BY <1>1, <1>2, <1>3, <1>4
<1>6. /\ r.head = IF n = p THEN next ELSE p
      /\ w = [m EXCEPT !.next = IF prev = NULL THEN @ ELSE [@ EXCEPT ![prev] = next],
                       !.prev = IF next = NULL THEN @ ELSE [@ EXCEPT ![next] = back]]
  BY DEF Unlink, List
<1> HIDE DEF L, n, prev, next, r, w, back
<1>7. /\ w.next = IF prev = NULL THEN m.next ELSE [m.next EXCEPT ![prev] = next]
      /\ w.prev = IF next = NULL THEN m.prev ELSE [m.prev EXCEPT ![next] = back]
      /\ w.data = m.data /\ w \in Memory(N, D)
  BY <1>5, <1>6 DEF Memory
<1>8. /\ \A x \in N : w.next[x] = IF x = prev THEN next ELSE m.next[x]
      /\ \A x \in N : w.prev[x] = IF x = next THEN prev ELSE m.prev[x]
  BY <1>5, <1>7 DEF Memory
<1>9. \A j \in 1..L : /\ c[j] = prev <=> i # 1 /\ j = i - 1
                      /\ c[j] = next <=> i # L /\ j = i + 1
  BY <1>1, <1>3, <1>4 DEF Once
<1>10. LinksOut(m, w, c, i)
  <2> SUFFICES ASSUME NEW j \in 1..L, j # i
               PROVE  /\ w.next[c[j]] = IF j = i - 1 THEN m.next[c[i]] ELSE m.next[c[j]]
                      /\ w.prev[c[j]] = IF j = i + 1 THEN m.prev[c[i]] ELSE m.prev[c[j]]
    BY DEF LinksOut, L
  <2>1. /\ c[j] \in N /\ m.next[c[i]] = next /\ m.prev[c[i]] = prev
    BY <1>1 DEF n, next, prev
  <2>2. (j = i - 1 => i # 1) /\ (j = i + 1 => i # L)
    BY <1>1
  <2> QED BY <1>8, <1>9, <2>1, <2>2
<1>11. Linked(w, IF i = 1 THEN m.next[p] ELSE p, Without(c, i))
  BY <1>7, <1>10, LinkOut
<1>12. r.head = IF i = 1 THEN m.next[p] ELSE p
  BY <1>2, <1>6 DEF next
<1>13. SameLinks(m, w, N \ Of(c))
  <2>1. /\ i # 1 => prev \in Of(c)
        /\ i # L => next \in Of(c)
    BY <1>1, <1>3, <1>4 DEF Of
  <2>2. \A x \in N \ Of(c) : x # prev /\ x # next
    BY <1>5, <2>1
  <2> QED BY <1>8, <2>2 DEF SameLinks
<1> QED BY <1>7, <1>11, <1>12, <1>13 DEF Makes, w, r, n

FirstHeld(m, c, d, i) ==
  /\ i \in 1..Len(c) /\ m.data[c[i]] = d
  /\ \A j \in 1..Len(c) : m.data[c[j]] = d => i <= j

(* ta_list_remove: the first node that holds d goes, if there is one.       *)
FirstGone(N, D, m, p, c, d) ==
  LET r == RemoveData(m, p, d) IN
  \/ r = List(m, p) /\ \A i \in 1..Len(c) : m.data[c[i]] # d
  \/ \E i \in 1..Len(c) : /\ FirstHeld(m, c, d, i)
                          /\ Makes(N, D, m, r, Without(c, i), Of(c))
                          /\ r.mem.data = m.data

LEMMA RemoveDataIs ==
  ASSUME NEW N, IsFiniteSet(N), NULL \notin N, NEW D, NEW m \in Memory(N, D),
         NEW p, NEW c, Linked(m, p, c), NEW d
  PROVE  FirstGone(N, D, m, p, c, d)
<1> DEFINE held == Holding(m, c, d)
           least == CHOOSE i \in held : \A j \in held : i <= j
<1>1. Chain(m, p) = c /\ Len(c) \in Nat /\ DOMAIN c = 1..Len(c)
  BY ChainIs, LinkedIs
<1>2. held = {i \in 1..Len(c) : m.data[c[i]] = d} /\ held \in SUBSET Nat
  BY <1>1 DEF Holding
<1>3. RemoveData(m, p, d) = IF held = {} THEN List(m, p) ELSE Unlink(m, p, c[least])
  BY <1>1 DEF RemoveData
<1>4. CASE held = {}
  BY <1>2, <1>3, <1>4 DEF FirstGone
<1>5. CASE held # {}
  <2>1. \E i \in held : \A j \in held : i <= j
    <3> HIDE DEF held
    <3> QED BY <1>2, <1>5, LeastOf
  <2>2. least \in held /\ \A j \in held : least <= j
    BY <2>1
  <2> HIDE DEF least, held
  <2>3. FirstHeld(m, c, d, least) /\ least \in 1..Len(c)
    BY <1>2, <2>2 DEF FirstHeld
  <2>4. LET r == Unlink(m, p, c[least]) IN
        /\ Makes(N, D, m, r, Without(c, least), Of(c))
        /\ r.mem.data = m.data
    BY <2>3, UnlinkIs
  <2> QED BY <1>3, <1>5, <2>3, <2>4 DEF FirstGone
<1> QED BY <1>4, <1>5

(* ta_list_pop: the last node goes.                                         *)
LEMMA PopNodeIs ==
  ASSUME NEW N, IsFiniteSet(N), NULL \notin N, NEW D, NEW m \in Memory(N, D),
         NEW p, NEW c, Linked(m, p, c), p # NULL
  PROVE  LET r == PopNode(m, p) IN
         /\ Makes(N, D, m, r, Without(c, Len(c)), Of(c))
         /\ r.mem.data = m.data
<1> DEFINE L == Len(c)
           last == c[L]
           prev == m.prev[last]
           r == PopNode(m, p)
           w == r.mem
<1>1. /\ Once(c) /\ L \in Nat /\ L # 0 /\ DOMAIN c = 1..L /\ p = c[1] /\ L \in 1..L /\ 1 \in 1..L
      /\ \A j \in 1..L : /\ c[j] \in N /\ c[j] # NULL
                         /\ m.next[c[j]] = IF j = L THEN NULL ELSE c[j + 1]
                         /\ m.prev[c[j]] = IF j = 1 THEN NULL ELSE c[j - 1]
  BY LinkedIs, SMTT(30)
<1>2. LastNode(m, p) = last
  <2>1. LastNode(m, p) = IF L = 0 THEN NULL ELSE last
    BY LastIs, Zenon
  <2> QED BY <1>1, <2>1
<1>3. /\ last = p <=> L = 1
      /\ prev = IF L = 1 THEN NULL ELSE c[L - 1]
      /\ L # 1 => L - 1 \in 1..L
  <2> HIDE DEF L
  <2>1. last = p <=> L = 1
    BY <1>1 DEF Once
  <2>2. L # 1 => L - 1 \in 1..L
    BY <1>1, SMTT(30)
  <2> QED BY <1>1, <2>1, <2>2
<1>4. /\ prev = NULL <=> L = 1
      /\ last \in N /\ prev \in N \cup {NULL}
  BY <1>1, <1>3
<1>5. /\ r.head = IF L = 1 THEN NULL ELSE p
      /\ w = IF prev = NULL THEN m ELSE [m EXCEPT !.next[prev] = NULL, !.prev[last] = NULL]
  BY <1>2, <1>3, Zenon DEF PopNode, List
<1> HIDE DEF L, last, prev, r, w
<1>6. /\ w.next = IF prev = NULL THEN m.next ELSE [m.next EXCEPT ![prev] = NULL]
      /\ w.prev = IF prev = NULL THEN m.prev ELSE [m.prev EXCEPT ![last] = NULL]
      /\ w.data = m.data /\ w \in Memory(N, D)
  BY <1>4, <1>5 DEF Memory
<1>7. /\ \A x \in N : w.next[x] = IF x = prev THEN NULL ELSE m.next[x]
      /\ \A x \in N \ {last} : w.prev[x] = m.prev[x]
  BY <1>4, <1>6 DEF Memory
<1>8. \A j \in 1..L : /\ c[j] = prev <=> L # 1 /\ j = L - 1
                      /\ c[j] = last <=> j = L
  BY <1>1, <1>3 DEF Once, last
<1>9. m.next[last] = NULL
  BY <1>1 DEF last
<1>10. LinksOut(m, w, c, L)
  <2> SUFFICES ASSUME NEW j \in 1..L, j # L
               PROVE  /\ w.next[c[j]] = IF j = L - 1 THEN m.next[c[L]] ELSE m.next[c[j]]
                      /\ w.prev[c[j]] = IF j = L + 1 THEN m.prev[c[L]] ELSE m.prev[c[j]]
    BY DEF LinksOut, L
  <2>1. j # L + 1 /\ (j = L - 1 => L # 1) /\ m.next[c[L]] = NULL
    BY <1>1, <1>9 DEF last
  <2> QED BY <1>1, <1>7, <1>8, <2>1
<1>11. Linked(w, IF L = 1 THEN m.next[p] ELSE p, Without(c, L))
  <2>1. L \in 1..Len(c)
    BY <1>1 DEF L
  <2> QED BY <1>6, <1>10, <2>1, LinkOut, SMTT(30)
<1>12. r.head = IF L = 1 THEN m.next[p] ELSE p
  BY <1>3, <1>5, <1>9
<1>13. SameLinks(m, w, N \ Of(c))
  <2>1. \A x \in N \ Of(c) : x # prev /\ x # last
    BY <1>1, <1>3, <1>4 DEF Of, last
  <2> QED BY <1>7, <2>1 DEF SameLinks
<1> QED BY <1>6, <1>11, <1>12, <1>13 DEF Makes, w, r, L

(* A node before the first, or where there was none.                        *)
LEMMA LinkFirst ==
  ASSUME NEW N, IsFiniteSet(N), NULL \notin N, NEW D, NEW m \in Memory(N, D),
         NEW p, NEW c, Linked(m, p, c), NEW n \in N \ Of(c), NEW w \in Memory(N, D),
         w.next = IF p = NULL THEN [m.next EXCEPT ![n] = NULL] ELSE [m.next EXCEPT ![n] = p],
         w.prev = IF p = NULL THEN [m.prev EXCEPT ![n] = NULL]
                  ELSE [m.prev EXCEPT ![n] = NULL, ![p] = n]
  PROVE  Makes(N, D, m, List(w, n), With(c, 1, n), Of(c) \cup {n})
<1> DEFINE L == Len(c)
<1>1. /\ Once(c) /\ L \in Nat /\ DOMAIN c = 1..L
      /\ p = NULL <=> L = 0
      /\ L # 0 => p = c[1]
      /\ \A j \in 1..L : c[j] \in N /\ c[j] # NULL
  BY LinkedIs
<1>2. \A j \in 1..L : c[j] # n
  BY <1>1 DEF Of
<1> HIDE DEF L
<1>3. L # 0 => 1 \in 1..L /\ p \in N /\ p \in Of(c)
  <2>1. L # 0 => 1 \in 1..L
    BY <1>1
  <2> QED BY <1>1, <2>1 DEF Of
<1>4. /\ \A x \in N : w.next[x] = IF x = n THEN p ELSE m.next[x]
      /\ \A x \in N : w.prev[x] = IF p # NULL /\ x = p THEN n
                                  ELSE IF x = n THEN NULL ELSE m.prev[x]
  BY <1>1, <1>3 DEF Memory
<1>5. \A j \in 1..L : c[j] = p <=> j = 1
  BY <1>1, <1>3 DEF Once
<1>6. LinksIn(m, w, c, 1, n)
  <2>1. w.next[n] = IF 1 = L + 1 THEN NULL ELSE c[1]
    BY <1>1, <1>4
  <2>2. w.prev[n] = NULL
    <3>1. p # NULL => p # n
      BY <1>1, <1>3
    <3> QED BY <1>4, <3>1
  <2>3. ASSUME NEW j \in 1..L
        PROVE  /\ w.next[c[j]] = IF j = 1 - 1 THEN n ELSE m.next[c[j]]
               /\ w.prev[c[j]] = IF j = 1 THEN n ELSE m.prev[c[j]]
    <3>1. j # 1 - 1 /\ L # 0
      BY <1>1
    <3> QED BY <1>1, <1>2, <1>4, <1>5, <3>1
  <2> QED BY <2>1, <2>2, <2>3 DEF LinksIn, L
<1>7. Linked(w, n, With(c, 1, n))
  <2>1. 1 \in 1..Len(c) + 1
    BY <1>1 DEF L
  <2> QED BY <1>6, <2>1, LinkIn
<1>8. SameLinks(m, w, N \ (Of(c) \cup {n}))
  BY <1>1, <1>3, <1>4 DEF SameLinks
<1> QED BY <1>7, <1>8 DEF Makes, List

(* A node between two others.                                               *)
LEMMA LinkBetween ==
  ASSUME NEW N, IsFiniteSet(N), NULL \notin N, NEW D, NEW m \in Memory(N, D),
         NEW p, NEW c, Linked(m, p, c), NEW n \in N \ Of(c), NEW w \in Memory(N, D),
         NEW i \in 1..Len(c), i # 1,
         w.next = [m.next EXCEPT ![c[i - 1]] = n, ![n] = c[i]],
         w.prev = [m.prev EXCEPT ![n] = c[i - 1], ![c[i]] = n]
  PROVE  Makes(N, D, m, List(w, p), With(c, i, n), Of(c) \cup {n})
<1> DEFINE L == Len(c)
<1>1. /\ Once(c) /\ L \in Nat /\ DOMAIN c = 1..L /\ i \in 1..L /\ i - 1 \in 1..L /\ i # L + 1
      /\ \A j \in 1..L : c[j] \in N
  <2>1. /\ Once(c) /\ L \in Nat /\ DOMAIN c = 1..L /\ i \in 1..L
        /\ \A j \in 1..L : c[j] \in N
    BY LinkedIs
  <2> HIDE DEF L
  <2>2. i - 1 \in 1..L /\ i # L + 1
    BY <2>1
  <2> QED BY <2>1, <2>2
<1>2. \A j \in 1..L : c[j] # n
  BY <1>1 DEF Of
<1> HIDE DEF L
<1>3. c[i] \in N /\ c[i - 1] \in N /\ c[i] \in Of(c) /\ c[i - 1] \in Of(c) /\ n \in N
  BY <1>1 DEF Of
<1>4. /\ \A x \in N : w.next[x] = IF x = n THEN c[i]
                                  ELSE IF x = c[i - 1] THEN n ELSE m.next[x]
      /\ \A x \in N : w.prev[x] = IF x = c[i] THEN n
                                  ELSE IF x = n THEN c[i - 1] ELSE m.prev[x]
  BY <1>3 DEF Memory
<1>5. \A j \in 1..L : (c[j] = c[i] <=> j = i) /\ (c[j] = c[i - 1] <=> j = i - 1)
  BY <1>1 DEF Once
<1>6. LinksIn(m, w, c, i, n)
  <2>1. w.next[n] = c[i] /\ w.prev[n] = c[i - 1]
    BY <1>1, <1>2, <1>3, <1>4
  <2>2. ASSUME NEW j \in 1..L
        PROVE  /\ w.next[c[j]] = IF j = i - 1 THEN n ELSE m.next[c[j]]
               /\ w.prev[c[j]] = IF j = i THEN n ELSE m.prev[c[j]]
    BY <1>1, <1>2, <1>4, <1>5
  <2> QED BY <1>1, <2>1, <2>2 DEF LinksIn, L
<1>7. Linked(w, p, With(c, i, n))
  <2>1. i \in 1..Len(c) + 1
    BY <1>1 DEF L
  <2>2. Linked(w, IF i = 1 THEN n ELSE p, With(c, i, n))
    BY <1>6, <2>1, LinkIn
  <2> QED BY <2>2
<1>8. SameLinks(m, w, N \ (Of(c) \cup {n}))
  BY <1>3, <1>4 DEF SameLinks
<1> QED BY <1>7, <1>8 DEF Makes, List

(* Where ta_list_insert puts a node in a list of L, counted from 1.         *)
Place(L, position) == IF L = 0 THEN 1 ELSE IF position \in 0..L - 1 THEN position + 1 ELSE L + 1

(* ta_list_insert: NULL data is ignored if it would come last in a list     *)
(* that is not empty.                                                       *)
LEMMA InsertNodeIs ==
  ASSUME NEW N, IsFiniteSet(N), NULL \notin N, NEW D, NEW m \in Memory(N, D),
         NEW p, NEW c, Linked(m, p, c), NEW n \in N \ Of(c), NEW d \in D,
         NEW position \in Int
  PROVE  LET r == InsertNode(m, p, n, d, position)
             i == Place(Len(c), position)
         IN  IF d = NULL /\ Len(c) # 0 /\ i = Len(c) + 1 THEN r = List(m, p)
             ELSE /\ i \in 1..Len(c) + 1
                  /\ Makes(N, D, m, r, With(c, i, n), Of(c) \cup {n})
                  /\ Stores(m, r.mem, n, d)
<1> DEFINE L == Len(c)
           new == [m EXCEPT !.next[n] = NULL, !.prev[n] = NULL, !.data[n] = d]
           r == InsertNode(m, p, n, d, position)
           i == Place(L, position)
<1> SUFFICES IF d = NULL /\ L # 0 /\ i = L + 1 THEN r = List(m, p)
             ELSE /\ i \in 1..L + 1
                  /\ Makes(N, D, m, r, With(c, i, n), Of(c) \cup {n})
                  /\ Stores(m, r.mem, n, d)
  OBVIOUS
<1>1. /\ Once(c) /\ L \in Nat /\ DOMAIN c = 1..L
      /\ p = NULL <=> L = 0
      /\ L # 0 => p = c[1]
      /\ \A j \in 1..L : /\ c[j] \in N
                         /\ m.prev[c[j]] = IF j = 1 THEN NULL ELSE c[j - 1]
  BY LinkedIs
<1>2. Chain(m, p) = c
  BY ChainIs
<1>3. /\ new \in Memory(N, D)
      /\ new.next = [m.next EXCEPT ![n] = NULL] /\ new.prev = [m.prev EXCEPT ![n] = NULL]
      /\ new.data = [m.data EXCEPT ![n] = d]
  BY DEF Memory
<1>4. CASE p = NULL
  <2>1. r = List(new, n)
    BY <1>4, Zenon DEF InsertNode
  <2>3. i = 1 /\ L = 0 /\ i \in 1..L + 1
    BY <1>1, <1>4 DEF Place
  <2>2. Makes(N, D, m, List(new, n), With(c, 1, n), Of(c) \cup {n})
    <3> HIDE DEF new
    <3> QED BY <1>3, <1>4, LinkFirst
  <2> HIDE DEF new, r, i
  <2> QED BY <1>3, <2>1, <2>2, <2>3 DEF List, Stores
<1>5. CASE p # NULL /\ position = 0
  <2> DEFINE w == [new EXCEPT !.prev[p] = n, !.next[n] = p]
  <2>1. r = List(w, n)
    BY <1>5, Zenon DEF InsertNode
  <2>2. i = 1 /\ i \in 1..L + 1 /\ i # L + 1 /\ L # 0
    BY <1>1, <1>5 DEF Place
  <2>3. p \in N
    <3>1. 1 \in 1..L
      BY <1>1, <2>2
    <3> QED BY <1>1, <2>2, <3>1
  <2>4. /\ w \in Memory(N, D) /\ w.data = new.data
        /\ w.next = [m.next EXCEPT ![n] = p]
        /\ w.prev = [m.prev EXCEPT ![n] = NULL, ![p] = n]
    <3>1. /\ w \in Memory(N, D) /\ w.data = new.data
          /\ w.next = [new.next EXCEPT ![n] = p] /\ w.prev = [new.prev EXCEPT ![p] = n]
      <4> HIDE DEF new
      <4> QED BY <1>3, <2>3 DEF Memory
    <3> HIDE DEF new, w
    <3> QED BY <1>3, <2>3, <3>1 DEF Memory
  <2>5. Makes(N, D, m, List(w, n), With(c, 1, n), Of(c) \cup {n})
    <3> HIDE DEF new, w
    <3> QED BY <1>5, <2>4, LinkFirst
  <2> HIDE DEF new, w, r, i
  <2> QED BY <1>3, <2>1, <2>2, <2>4, <2>5 DEF List, Stores
<1>6. CASE p # NULL /\ position \in 1..L - 1
  <2> DEFINE node == c[position + 1]
             prev == m.prev[node]
             w == [new EXCEPT !.next[prev] = n, !.next[n] = node,
                              !.prev[n] = prev, !.prev[node] = n]
  <2>1. r = List(w, p)
    <3>1. position # 0
      BY <1>1, <1>6
    <3> QED BY <1>2, <1>6, <3>1, Zenon DEF InsertNode
  <2>2. i = position + 1 /\ i \in 1..L /\ i \in 1..L + 1 /\ i # L + 1 /\ i # 1
        /\ i - 1 \in 1..L
    BY <1>1, <1>6 DEF Place
  <2>3. node = c[i] /\ prev = c[i - 1] /\ node \in N /\ prev \in N
    BY <1>1, <2>2
  <2>4. /\ w \in Memory(N, D) /\ w.data = new.data
        /\ w.next = [m.next EXCEPT ![prev] = n, ![n] = node]
        /\ w.prev = [m.prev EXCEPT ![n] = prev, ![node] = n]
    <3>1. /\ w \in Memory(N, D) /\ w.data = new.data
          /\ w.next = [new.next EXCEPT ![prev] = n, ![n] = node]
          /\ w.prev = [new.prev EXCEPT ![n] = prev, ![node] = n]
      <4> HIDE DEF new, node, prev
      <4> QED BY <1>3, <2>3 DEF Memory
    <3> HIDE DEF new, w, node, prev
    <3> QED BY <1>3, <2>3, <3>1 DEF Memory
  <2>5. Makes(N, D, m, List(w, p), With(c, i, n), Of(c) \cup {n})
    <3> HIDE DEF new, w, i
    <3> QED BY <2>2, <2>3, <2>4, LinkBetween
  <2> HIDE DEF new, w, r, i
  <2> QED BY <1>3, <2>1, <2>2, <2>4, <2>5 DEF List, Stores
<1>7. CASE p # NULL /\ position \notin 0..L - 1
  <2>1. r = AppendNode(m, p, n, d)
    <3>1. position # 0 /\ position \notin 1..L - 1
      BY <1>1, <1>7
    <3> QED BY <1>2, <1>7, <3>1, Zenon DEF InsertNode
  <2>2. i = L + 1 /\ L # 0 /\ i \in 1..L + 1
    BY <1>1, <1>7 DEF Place
  <2>3. CASE d = NULL
    BY <2>1, <2>2, <2>3 DEF AppendNode
  <2>4. CASE d # NULL
    <3>1. /\ Makes(N, D, m, r, With(c, Len(c) + 1, n), Of(c) \cup {n})
          /\ Stores(m, r.mem, n, d)
      <4> HIDE DEF r
      <4> QED BY <2>1, <2>4, AppendNodeIs
    <3> HIDE DEF r, i
    <3> QED BY <2>2, <2>4, <3>1
  <2> QED BY <2>3, <2>4
<1>8. position = 0 \/ position \in 1..L - 1 \/ position \notin 0..L - 1
  BY <1>1
<1> QED BY <1>4, <1>5, <1>6, <1>7, <1>8

LEMMA JoinedEmpty ==
  ASSUME NEW S, NEW c \in Seq(S), NEW d \in Seq(S)
  PROVE  /\ d = <<>> => Joined(c, d) = c
         /\ c = <<>> => Joined(c, d) = d
<1> DEFINE L == Len(c)
           M == Len(d)
<1>1. /\ L \in Nat /\ M \in Nat /\ c = [j \in 1..L |-> c[j]] /\ d = [j \in 1..M |-> d[j]]
      /\ d = <<>> => M = 0
      /\ c = <<>> => L = 0
  BY LenProperties, EmptySeq
<1>2. Joined(c, d) = [j \in 1..L + M |-> IF j <= L THEN c[j] ELSE d[j - L]]
  BY DEF Joined
<1> HIDE DEF L, M
<1>3. CASE d = <<>>
  <2>1. L + M = L /\ \A j \in 1..L : j <= L
    BY <1>1, <1>3
  <2>2. Joined(c, d) = [j \in 1..L |-> c[j]]
    BY <1>2, <2>1
  <2>3. Joined(c, d) = c
    BY <1>1, <2>2
  <2>4. c = <<>> => Joined(c, d) = d
    BY <1>3, <2>3
  <2> QED BY <2>3, <2>4
<1>4. CASE c = <<>>
  <2>1. L + M = M /\ \A j \in 1..M : ~(j <= L) /\ j - L = j
    BY <1>1, <1>4
  <2>2. Joined(c, d) = [j \in 1..M |-> d[j]]
    BY <1>2, <2>1
  <2>3. Joined(c, d) = d
    BY <1>1, <2>2
  <2>4. d = <<>> => Joined(c, d) = c
    BY <1>4, <2>3
  <2> QED BY <2>3, <2>4
<1> QED BY <1>3, <1>4

(* ta_list_extend: the nodes of the second list after those of the first.   *)
LEMMA ExtendListIs ==
  ASSUME NEW N, IsFiniteSet(N), NULL \notin N, NEW D, NEW m \in Memory(N, D),
         NEW p, NEW c, Linked(m, p, c), NEW q, NEW d, Linked(m, q, d),
         Of(c) \cap Of(d) = {}
  PROVE  LET r == ExtendList(m, p, q) IN
         /\ Makes(N, D, m, r, Joined(c, d), Of(c) \cup Of(d))
         /\ r.mem.data = m.data
<1> DEFINE L == Len(c)
           M == Len(d)
           last == IF L = 0 THEN NULL ELSE c[L]
           back == [m EXCEPT !.prev[q] = last]
           r == ExtendList(m, p, q)
           w == r.mem
<1>1. /\ c \in Seq(N) /\ Once(c) /\ L \in Nat /\ DOMAIN c = 1..L
      /\ c = <<>> <=> L = 0
      /\ p = NULL <=> L = 0
      /\ \A j \in 1..L : /\ c[j] \in N /\ c[j] # NULL
                         /\ m.next[c[j]] = IF j = L THEN NULL ELSE c[j + 1]
  BY LinkedIs
<1>2. /\ d \in Seq(N) /\ Once(d) /\ M \in Nat /\ DOMAIN d = 1..M
      /\ d = <<>> <=> M = 0
      /\ q = NULL <=> M = 0
      /\ q = IF M = 0 THEN NULL ELSE d[1]
      /\ \A j \in 1..M : /\ d[j] \in N /\ d[j] # NULL
                         /\ m.prev[d[j]] = IF j = 1 THEN NULL ELSE d[j - 1]
  BY LinkedIs
<1>3. LastNode(m, p) = last
  BY LastIs, SMTT(30)
<1>4. L # 0 => L \in 1..L /\ last = c[L] /\ last \in N /\ last # NULL
  <2>1. L # 0 => L \in 1..L
    <3>1. L \in Nat
      BY <1>1
    <3> HIDE DEF L
    <3> QED BY <3>1, SMTT(30)
  <2> QED BY <1>1, <2>1
<1>5. M # 0 => 1 \in 1..M /\ q \in N
  <2>1. M # 0 => 1 \in 1..M
    BY <1>2
  <2> QED BY <1>2, <2>1
<1>6. r = IF q = NULL THEN List(m, p) ELSE IF last = NULL THEN List(back, q)
          ELSE List([back EXCEPT !.next[last] = q], p)
  <2> HIDE DEF last
  <2> QED BY <1>3 DEF ExtendList
<1> SUFFICES Makes(N, D, m, r, Joined(c, d), Of(c) \cup Of(d)) /\ w.data = m.data
  OBVIOUS
<1>7. CASE q = NULL
  <2>1. r = List(m, p) /\ Joined(c, d) = c
    BY <1>1, <1>2, <1>6, <1>7, JoinedEmpty
  <2> HIDE DEF r
  <2> QED BY <2>1 DEF Makes, List, SameLinks
<1>8. CASE q # NULL /\ L = 0
  <2>1. r = List(back, q) /\ Joined(c, d) = d /\ M # 0
    <3>1. Joined(c, d) = d /\ M # 0
      <4>1. c = <<>> /\ M # 0
        BY <1>1, <1>2, <1>8, Zenon
      <4>2. c \in Seq(N) /\ d \in Seq(N)
        BY <1>1, <1>2
      <4>3. Joined(c, d) = d
        BY <4>1, <4>2, JoinedEmpty
      <4> QED BY <4>1, <4>3
    <3>2. last = NULL
      BY <1>8
    <3> HIDE DEF last, back, r, M
    <3> QED BY <1>6, <1>8, <3>1, <3>2
  <2>2. /\ back \in Memory(N, D) /\ back.next = m.next /\ back.data = m.data
        /\ back.prev = [m.prev EXCEPT ![q] = NULL]
    <3>1. last = NULL
      BY <1>8
    <3> HIDE DEF last, M
    <3> QED BY <1>5, <2>1, <3>1 DEF Memory
  <2>3. m.prev[q] = NULL
    <3> HIDE DEF M
    <3> QED BY <1>2, <1>5, <2>1
  <2>4. \A x \in N : back.prev[x] = m.prev[x]
    <3> HIDE DEF back, M
    <3> QED BY <1>5, <2>1, <2>2, <2>3 DEF Memory
  <2>5. SameLinks(m, back, N)
    BY <2>2, <2>4 DEF SameLinks
  <2>6. Linked(back, q, d)
    <3>1. SameLinks(m, back, Of(d))
      BY <1>2, <2>5 DEF SameLinks, Of
    <3> HIDE DEF back
    <3> QED BY <2>2, <3>1, LinkedElsewhere
  <2> HIDE DEF back, r
  <2> QED BY <2>1, <2>2, <2>5, <2>6 DEF Makes, List, SameLinks
<1>9. CASE q # NULL /\ L # 0
  <2>1. w = [back EXCEPT !.next[last] = q] /\ r.head = p /\ M # 0 /\ p # NULL
    <3>1. M # 0 /\ p # NULL
      BY <1>1, <1>2, <1>9
    <3>2. r = List([back EXCEPT !.next[last] = q], p)
      <4> HIDE DEF last, back, r, M, L
      <4> QED BY <1>4, <1>6, <1>9
    <3> HIDE DEF last, back, r, M, L
    <3> QED BY <3>1, <3>2, SMTT(30) DEF List
  <2>2. /\ w \in Memory(N, D) /\ w.data = m.data
        /\ w.next = [m.next EXCEPT ![last] = q] /\ w.prev = [m.prev EXCEPT ![q] = last]
    <3> HIDE DEF last, M, w, L
    <3> QED BY <1>4, <1>5, <1>9, <2>1 DEF Memory
  <2> HIDE DEF last, w, r, L, M, back
  <2>3. /\ \A x \in N : w.next[x] = IF x = last THEN q ELSE m.next[x]
        /\ \A x \in N : w.prev[x] = IF x = q THEN last ELSE m.prev[x]
    BY <1>4, <1>5, <1>9, <2>1, <2>2 DEF Memory
  <2>4. /\ \A j \in 1..L : (c[j] = last <=> j = L) /\ c[j] # q
        /\ \A j \in 1..M : (d[j] = q <=> j = 1) /\ d[j] # last
    <3>1. \A j \in 1..L, k \in 1..M : c[j] # d[k]
      <4>1. /\ \A j \in 1..L : c[j] \in Of(c)
            /\ \A k \in 1..M : d[k] \in Of(d)
        BY <1>1, <1>2 DEF Of
      <4> QED BY <4>1
    <3>2. \A j \in 1..L : c[j] = last <=> j = L
      BY <1>1, <1>4, <1>9 DEF Once
    <3>3. \A j \in 1..M : d[j] = q <=> j = 1
      BY <1>2, <1>5, <2>1 DEF Once
    <3> QED BY <1>2, <1>4, <1>5, <1>9, <2>1, <3>1, <3>2, <3>3
  <2>5. LinksBoth(m, w, c, d)
    <3>1. ASSUME NEW j \in 1..L
          PROVE  /\ w.next[c[j]] = IF j = L THEN d[1] ELSE m.next[c[j]]
                 /\ w.prev[c[j]] = m.prev[c[j]]
      BY <1>1, <1>2, <2>1, <2>3, <2>4
    <3>2. ASSUME NEW j \in 1..M
          PROVE  /\ w.next[d[j]] = m.next[d[j]]
                 /\ w.prev[d[j]] = IF j = 1 THEN c[L] ELSE m.prev[d[j]]
      BY <1>2, <1>4, <1>9, <2>3, <2>4
    <3> QED BY <3>1, <3>2 DEF LinksBoth, L, M
  <2>6. Linked(w, p, Joined(c, d))
    BY <1>9, <2>1, <2>2, <2>5, LinkBoth
  <2>7. SameLinks(m, w, N \ (Of(c) \cup Of(d)))
    <3>1. last \in Of(c) /\ q \in Of(d)
      BY <1>1, <1>2, <1>4, <1>5, <1>9, <2>1 DEF Of
    <3> QED BY <2>3, <3>1 DEF SameLinks
  <2> QED BY <2>1, <2>2, <2>6, <2>7 DEF Makes, w
<1> QED BY <1>7, <1>8, <1>9

(* ta_list_reverse                                                          *)
LEMMA ReverseListIs ==
  ASSUME NEW N, IsFiniteSet(N), NULL \notin N, NEW D, NEW m \in Memory(N, D),
         NEW p, NEW c, Linked(m, p, c)
  PROVE  LET r == ReverseList(m, p) IN
         /\ Makes(N, D, m, r, Backwards(c), Of(c))
         /\ r.mem.data = m.data
<1> DEFINE Swap(f, g) ==
             [n \in DOMAIN f |-> IF \E i \in DOMAIN c : c[i] = n THEN g[n] ELSE f[n]]
           next == Swap(m.next, m.prev)
           prev == Swap(m.prev, m.next)
           w == [m EXCEPT !.next = next, !.prev = prev]
           head == LastNode(m, p)
<1>1. /\ DOMAIN c = 1..Len(c) /\ \A j \in 1..Len(c) : c[j] \in N
      /\ p = NULL <=> Len(c) = 0
  BY LinkedIs
<1>2. Chain(m, p) = c /\ head = IF p = NULL THEN NULL ELSE c[Len(c)]
  BY <1>1, ChainIs, LastIs, Zenon
<1>3. ReverseList(m, p) = List(w, head)
  BY <1>2, Zenon DEF ReverseList
<1>4. /\ \A x \in N : next[x] = IF x \in Of(c) THEN m.prev[x] ELSE m.next[x]
      /\ \A x \in N : prev[x] = IF x \in Of(c) THEN m.next[x] ELSE m.prev[x]
      /\ next \in [N -> N \cup {NULL}] /\ prev \in [N -> N \cup {NULL}]
  BY DEF Memory, Of
<1> HIDE DEF next, prev
<1>5. w \in Memory(N, D) /\ w.next = next /\ w.prev = prev /\ w.data = m.data
  BY <1>4 DEF Memory
<1> HIDE DEF w, head
<1>6. LinksBack(m, w, c)
  <2>1. \A j \in 1..Len(c) : c[j] \in Of(c)
    BY <1>1 DEF Of
  <2> QED BY <1>1, <1>4, <1>5, <2>1 DEF LinksBack
<1>7. Linked(w, head, Backwards(c))
  BY <1>2, <1>5, <1>6, LinkBack
<1>8. SameLinks(m, w, N \ Of(c))
  BY <1>4, <1>5 DEF SameLinks
<1> QED BY <1>3, <1>5, <1>7, <1>8 DEF Makes, List

(* What the loops of list.c rely on.                                        *)
LEMMA LinkedWellFormed ==
  ASSUME NEW N, IsFiniteSet(N), NULL \notin N, NEW D, NEW m \in Memory(N, D),
         NEW p, NEW c, Linked(m, p, c)
  PROVE  WellFormed(m, p)
<1>1. Chain(m, p) = c
  BY ChainIs
<1>2. c \in Seq(N) /\ Once(c) /\ DOMAIN c = 1..Len(c)
      /\ \A i \in 1..Len(c) : m.prev[c[i]] = IF i = 1 THEN NULL ELSE c[i - 1]
  BY LinkedIs
<1>3. DOMAIN m.next = N
  BY DEF Memory
<1>4. Len(c) <= Cardinality(N)
  BY <1>2, OnceBounded
<1> QED BY <1>1, <1>2, <1>3, <1>4 DEF WellFormed
(* Lists that share no node, each with its head: an operation on one of     *)
(* them that touches, besides its nodes, only nodes that are on no list     *)
(* leaves the others as they are.                                           *)
Apart(N, D, Ls, m, h, cs) ==
  /\ m \in Memory(N, D)
  /\ \A l \in Ls : Linked(m, h[l], cs[l])
  /\ \A k, l \in Ls : k # l => Of(cs[k]) \cap Of(cs[l]) = {}

On(Ls, cs, S) == \E l \in Ls : Of(cs[l]) \cap S # {}
Only(Ls, l, f, x, g) == g[l] = x /\ \A k \in Ls : k # l => g[k] = f[k]

LEMMA ApartChanges ==
  ASSUME NEW N, NULL \notin N, NEW D, NEW Ls, NEW m, NEW h, NEW cs,
         Apart(N, D, Ls, m, h, cs),
         NEW l \in Ls, NEW r, NEW c, NEW S, ~On(Ls, cs, S),
         Makes(N, D, m, r, c, Of(cs[l]) \cup S), Of(c) \subseteq Of(cs[l]) \cup S,
         NEW g, Only(Ls, l, h, r.head, g), NEW ds, Only(Ls, l, cs, c, ds)
  PROVE  Apart(N, D, Ls, r.mem, g, ds)
<1>1. /\ m \in Memory(N, D) /\ r.mem \in Memory(N, D) /\ Linked(r.mem, r.head, c)
      /\ SameLinks(m, r.mem, N \ (Of(cs[l]) \cup S))
      /\ \A k \in Ls : Linked(m, h[k], cs[k])
      /\ \A j, k \in Ls : j # k => Of(cs[j]) \cap Of(cs[k]) = {}
  BY DEF Makes, Apart
<1>2. ASSUME NEW k \in Ls, k # l
      PROVE  Linked(r.mem, h[k], cs[k]) /\ Of(cs[k]) \cap Of(c) = {}
  <2>1. Of(cs[k]) \cap Of(cs[l]) = {} /\ Of(cs[k]) \cap S = {}
    BY <1>1, <1>2 DEF On
  <2>2. Of(cs[k]) \subseteq N
    <3>1. DOMAIN cs[k] = 1..Len(cs[k]) /\ \A i \in 1..Len(cs[k]) : cs[k][i] \in N
      BY <1>1, LinkedIs
    <3> QED BY <3>1 DEF Of
  <2>3. SameLinks(m, r.mem, Of(cs[k]))
    BY <1>1, <2>1, <2>2 DEF SameLinks
  <2> QED BY <1>1, <2>1, <2>3, LinkedElsewhere
<1>3. \A k \in Ls : Linked(r.mem, g[k], ds[k])
  BY <1>1, <1>2 DEF Only
<1>4. \A j, k \in Ls : j # k => Of(ds[j]) \cap Of(ds[k]) = {}
  <2> TAKE j \in Ls, k \in Ls
  <2>1. CASE j # l /\ k # l
    BY <1>1, <2>1 DEF Only
  <2>2. CASE j = l \/ k = l
    BY <1>2, <2>2 DEF Only
  <2> QED BY <2>1, <2>2
<1> QED BY <1>1, <1>3, <1>4 DEF Apart
=============================================================================
