--------------------------- MODULE SrvSelectProofs ----------------------------
(***************************************************************************)
(* Proofs about TaListSort and SrvSelect, for lists of any length and any  *)
(* keys: ta_list_sort sorts, loses no node on the way and keeps the order  *)
(* of equal elements, and the drawing of targets that follows it keeps     *)
(* them all, priority by priority.                                         *)
(*                                                                         *)
(* The argument goes from values to states.  First come runs of keys as    *)
(* functions, with no links: merging two runs of s makes one of 2s.  Then  *)
(* orders of nodes and the links that lead along them: where the output,   *)
(* the first run and the rest are, and what each step does to them.  Then  *)
(* the weights and levels of the drawing.  SrvInv at the end says, for     *)
(* each value of pc, that there is an order of the nodes with such links   *)
(* and such runs; each action has a lemma that it keeps it.                *)
(***************************************************************************)
EXTENDS SrvSelect, TaListOpsProofs

(* The multiples of s, where the runs of a pass begin; and what the provers *)
(* do not know of a quotient and a remainder.                               *)
Mult(s) == {z \in Nat : z % s = 0}

LEMMA DivIs ==
  ASSUME NEW s \in Nat \ {0}, NEW z \in Nat
  PROVE  z \div s \in Nat /\ z = s * (z \div s) + (z % s) /\ z % s \in 0..s - 1
OBVIOUS

LEMMA ModOf ==
  ASSUME NEW s \in Nat \ {0}, NEW k \in Nat, NEW r \in 0..s - 1
  PROVE  (s * k + r) % s = r /\ (s * k + r) \div s = k
<1> DEFINE z == s * k + r
           d == z \div s
           e == z % s
<1>1. z \in Nat /\ d \in Nat /\ e \in 0..s - 1 /\ s * k + r = s * d + e
  BY DivIs
<1> HIDE DEF d, e, z
<1>2. s * (k - d) = e - r /\ k - d \in Int
  BY <1>1
<1>3. CASE k - d >= 1
  <2>1. s * (k - d) >= s
    BY <1>2, <1>3
  <2> QED BY <1>1, <1>2, <2>1
<1>4. CASE k - d <= -1
  <2>1. s * (k - d) <= -s
    BY <1>2, <1>4
  <2> QED BY <1>1, <1>2, <2>1
<1>5. k = d
  BY <1>1, <1>2, <1>3, <1>4
<1> QED BY <1>1, <1>2, <1>5 DEF d, e, z

(* A multiple of s is s times something, and the next multiple is s further *)
(* on.                                                                      *)
LEMMA MultIs ==
  ASSUME NEW s \in Nat \ {0}, NEW z \in Nat
  PROVE  z \in Mult(s) <=> \E k \in Nat : z = s * k
<1>1. ASSUME z \in Mult(s) PROVE \E k \in Nat : z = s * k
  <2>1. z % s = 0 /\ z \div s \in Nat /\ z = s * (z \div s) + (z % s)
    BY <1>1, DivIs DEF Mult
  <2> DEFINE k == z \div s
  <2>2. k \in Nat /\ z = s * k + 0
    BY <2>1
  <2> HIDE DEF k
  <2>3. z = s * k
    BY <2>2
  <2> QED BY <2>2, <2>3
<1>2. ASSUME NEW k \in Nat, z = s * k PROVE z \in Mult(s)
  <2>1. (s * k + 0) % s = 0
    BY ModOf
  <2> QED BY <1>2, <2>1 DEF Mult
<1> QED BY <1>1, <1>2

LEMMA Multiples ==
  ASSUME NEW s \in Nat \ {0}
  PROVE  /\ Mult(s) \subseteq Nat /\ 0 \in Mult(s)
         /\ \A z \in Mult(s) : z + s \in Mult(s)
         /\ \A y, z \in Mult(s) : y <= z /\ z < y + s => z = y
<1>1. 0 \in Mult(s)
  BY MultIs
<1>2. ASSUME NEW z \in Mult(s) PROVE z + s \in Mult(s)
  <2>1. z \in Nat
    BY DEF Mult
  <2>2. PICK k \in Nat : z = s * k
    BY <2>1, MultIs
  <2>3. z + s \in Nat /\ k + 1 \in Nat /\ z + s = s * (k + 1)
    BY <2>1, <2>2
  <2> QED BY <2>3, MultIs
<1>3. ASSUME NEW y \in Mult(s), NEW z \in Mult(s), y <= z, z < y + s PROVE z = y
  <2>1. y \in Nat /\ z \in Nat
    BY DEF Mult
  <2>2. PICK j \in Nat : y = s * j
    BY <2>1, MultIs
  <2>3. PICK k \in Nat : z = s * k
    BY <2>1, MultIs
  <2>4. s * (k - j) = z - y /\ k - j \in Int
    BY <2>2, <2>3
  <2>5. CASE k - j >= 1
    <3>1. s * (k - j) >= s
      BY <2>4, <2>5
    <3> QED BY <1>3, <2>1, <2>4, <3>1
  <2>6. CASE k - j <= -1
    <3>1. s * (k - j) <= -s
      BY <2>4, <2>6
    <3> QED BY <1>3, <2>1, <2>4, <3>1
  <2>7. CASE k - j = 0
    BY <2>1, <2>4, <2>7
  <2> QED BY <2>4, <2>5, <2>6, <2>7
<1> QED BY <1>1, <1>2, <1>3 DEF Mult

(* A multiple of 2s is one of s: two runs of s are a run of 2s.             *)
LEMMA EvenMultiples ==
  ASSUME NEW s \in Nat \ {0}
  PROVE  2 * s \in Nat \ {0} /\ Mult(2 * s) \subseteq Mult(s)
<1>1. 2 * s \in Nat \ {0}
  OBVIOUS
<1>2. ASSUME NEW z \in Mult(2 * s) PROVE z \in Mult(s)
  <2>1. z \in Nat
    BY DEF Mult
  <2>2. PICK k \in Nat : z = (2 * s) * k
    BY <1>1, <2>1, MultIs
  <2>3. 2 * k \in Nat /\ z = s * (2 * k)
    BY <2>2
  <2> QED BY <2>1, <2>3, MultIs
<1> QED BY <1>1, <1>2
-----------------------------------------------------------------------------
(* The keys in the order of the list, f[i] that of its i-th node.           *)
Rising(f, x, y) == \A i, j \in DOMAIN f : x < i /\ i < j /\ j <= y => f[i] <= f[j]
Above(f, l, o, y) == \A i, j \in DOMAIN f : l < i /\ i <= o /\ o < j /\ j <= y => f[i] <= f[j]
RunsTo(f, s, x) == \A z \in Mult(s) : z < x => Rising(f, z, z + s)
RunsFrom(f, s, x) == \A z \in Mult(s) : x <= z => Rising(f, z, z + s)

(* Between two merges of a pass: the first o keys are in runs of 2s, the    *)
(* rest in runs of s, and nmerges merges have led to o.                     *)
Halfway(f, s, n, o, nm) ==
  /\ RunsTo(f, 2 * s, o) /\ RunsFrom(f, s, o)
  /\ o \in 0..n /\ (o \in Mult(2 * s) \/ o = n)
  /\ nm \in 0..o /\ (nm = 0 => o = 0) /\ (nm = 1 => o <= 2 * s)

(* In a merge that began at l: o keys are in the output, the first run goes *)
(* on to mid and the second has at most qs more, and none of these is below *)
(* what is in the output since l.                                           *)
Merging(f, s, n, l, o, mid, qs, nm) ==
  /\ RunsTo(f, 2 * s, l) /\ RunsFrom(f, s, l + 2 * s)
  /\ l \in Mult(2 * s) /\ o \in l..mid /\ mid \in l + 1..n
  /\ mid + qs <= l + 2 * s /\ (mid < n => mid + qs = l + 2 * s)
  /\ Rising(f, l, o) /\ Rising(f, o, mid) /\ Rising(f, mid, mid + qs)
  /\ Above(f, l, o, mid + qs)
  /\ nm \in 1..l + 1 /\ (nm = 1 => l = 0)

(* Part of what rises rises, and so does what is no longer than one key.    *)
LEMMA RisingWithin ==
  ASSUME NEW n \in Nat, NEW f \in [1..n -> Int], NEW x \in Int, NEW y \in Int,
         NEW u \in Int, NEW v \in Int, x <= u, v <= y \/ n <= y, Rising(f, x, y)
  PROVE  Rising(f, u, v)
<1> SUFFICES ASSUME NEW i \in 1..n, NEW j \in 1..n, u < i, i < j, j <= v
             PROVE  f[i] <= f[j]
  BY DEF Rising
<1> QED BY DEF Rising

LEMMA RisingNone ==
  ASSUME NEW n \in Nat, NEW f \in [1..n -> Int], NEW x \in Int, NEW y \in Int, y <= x + 1 \/ n <= x + 1
  PROVE  Rising(f, x, y)
<1> SUFFICES ASSUME NEW i \in 1..n, NEW j \in 1..n, x < i, i < j, j <= y PROVE FALSE
  BY DEF Rising
<1> QED OBVIOUS

(* What a merge says of the sizes, as numbers.                              *)
LEMMA MergingIs ==
  ASSUME NEW n \in Nat, NEW f \in [1..n -> Int], NEW s \in Nat \ {0},
         NEW l, NEW o, NEW mid, NEW qs \in Nat, NEW nm,
         Merging(f, s, n, l, o, mid, qs, nm)
  PROVE  /\ l \in Nat /\ o \in Nat /\ mid \in Nat /\ l <= o /\ o <= mid /\ l < mid /\ mid <= n
         /\ nm \in Nat
<1>1. l \in Nat
  BY EvenMultiples, Multiples DEF Merging
<1>2. o \in l..mid /\ mid \in l + 1..n /\ nm \in 1..l + 1
  BY DEF Merging
<1> QED BY <1>1, <1>2

(* The merge that begins at o has nothing in the output yet.                *)
LEMMA MergingStarts ==
  ASSUME NEW n \in Nat, NEW f \in [1..n -> Int], NEW s \in Nat \ {0},
         NEW o, NEW nm, Halfway(f, s, n, o, nm), o < n,
         NEW mid, mid = IF n - o > s THEN o + s ELSE n
  PROVE  Merging(f, s, n, o, o, mid, s, nm + 1)
<1>1. o \in 0..n /\ o \in Mult(2 * s) /\ nm \in 0..o /\ (nm = 0 => o = 0)
  BY DEF Halfway
<1>2. o \in Mult(s) /\ o + s \in Mult(s) /\ 2 * s \in Nat
  <2>1. o \in Mult(s) /\ 2 * s \in Nat
    BY <1>1, EvenMultiples
  <2> QED BY <2>1, Multiples
<1>3. /\ o \in Nat /\ mid \in Nat /\ o < mid /\ mid <= n /\ mid + s <= o + 2 * s
      /\ mid < n => mid + s = o + 2 * s
      /\ mid = o + s \/ (mid = n /\ mid <= o + s)
  BY <1>1
<1>4. RunsFrom(f, s, o) /\ RunsTo(f, 2 * s, o)
  BY DEF Halfway
<1>5. RunsFrom(f, s, o + 2 * s)
  <2> SUFFICES ASSUME NEW z \in Mult(s), o + 2 * s <= z PROVE Rising(f, z, z + s)
    BY DEF RunsFrom
  <2>1. z \in Nat
    BY Multiples
  <2>2. o <= z
    BY <1>2, <1>3, <2>1
  <2> QED BY <1>4, <2>2 DEF RunsFrom
<1>6. Rising(f, o, o + s)
  <2>1. o <= o
    BY <1>3
  <2> QED BY <1>2, <1>4, <2>1 DEF RunsFrom
<1>7. Rising(f, o + s, o + s + s)
  <2>1. o <= o + s
    BY <1>3
  <2> QED BY <1>2, <1>4, <2>1 DEF RunsFrom
<1>8. Rising(f, o, mid)
  BY <1>3, <1>6, RisingWithin
<1>9. Rising(f, mid, mid + s)
  <2>1. CASE mid = o + s
    BY <1>7, <2>1
  <2>2. CASE mid = n
    BY <1>3, <2>2, RisingNone
  <2> QED BY <1>3, <2>1, <2>2
<1>10. Rising(f, o, o)
  BY <1>3, RisingNone
<1>11. Above(f, o, o, mid + s)
  <2> SUFFICES ASSUME NEW i \in 1..n, o < i, i <= o PROVE FALSE
    BY DEF Above
  <2> QED BY <1>3
<1>12. nm + 1 \in 1..o + 1 /\ (nm + 1 = 1 => o = 0) /\ o \in o..mid /\ mid \in o + 1..n
  BY <1>1, <1>3
<1> QED BY <1>1, <1>3, <1>4, <1>5, <1>8, <1>9, <1>10, <1>11, <1>12 DEF Merging

(* The first key of the first run goes to the output, if none of the second *)
(* run's is below it.                                                       *)
LEMMA MergingFirst ==
  ASSUME NEW n \in Nat, NEW f \in [1..n -> Int], NEW s \in Nat \ {0},
         NEW l, NEW o, NEW mid, NEW qs \in Nat, NEW nm,
         Merging(f, s, n, l, o, mid, qs, nm), o < mid,
         qs = 0 \/ mid = n \/ f[o + 1] <= f[mid + 1]
  PROVE  Merging(f, s, n, l, o + 1, mid, qs, nm)
<1>1. l \in Nat /\ o \in Nat /\ mid \in Nat /\ l <= o /\ o <= mid /\ l < mid /\ mid <= n
  BY MergingIs
<1>2. /\ Rising(f, l, o) /\ Rising(f, o, mid) /\ Rising(f, mid, mid + qs)
      /\ Above(f, l, o, mid + qs)
  BY DEF Merging
<1>3. Rising(f, l, o + 1)
  <2> SUFFICES ASSUME NEW i \in 1..n, NEW j \in 1..n, l < i, i < j, j <= o + 1
               PROVE  f[i] <= f[j]
    BY DEF Rising
  <2>1. CASE j <= o
    BY <1>2, <2>1 DEF Rising
  <2>2. CASE j = o + 1
    <3>1. i <= o /\ o < j /\ j <= mid + qs
      BY <1>1, <2>2
    <3> QED BY <1>2, <3>1 DEF Above
  <2> QED BY <1>1, <2>1, <2>2
<1>4. Rising(f, o + 1, mid)
  <2>1. o \in Int /\ mid \in Int /\ o + 1 \in Int /\ o <= o + 1 /\ mid <= mid
    BY <1>1
  <2> QED BY <1>2, <2>1, RisingWithin
<1>5. ASSUME NEW j \in 1..n, o + 1 < j, j <= mid + qs PROVE f[o + 1] <= f[j]
  <2>1. o + 1 \in 1..n /\ o < o + 1
    BY <1>1
  <2>2. CASE j <= mid
    BY <1>2, <1>5, <2>1, <2>2 DEF Rising
  <2>3. CASE j > mid
    <3>1. mid + 1 \in 1..n /\ f[o + 1] <= f[mid + 1] /\ mid < mid + 1
      BY <1>1, <1>5, <2>3
    <3>2. CASE mid + 1 < j
      <4>1. f[mid + 1] <= f[j]
        BY <1>2, <1>5, <3>1, <3>2 DEF Rising
      <4>2. f[o + 1] \in Int /\ f[mid + 1] \in Int /\ f[j] \in Int
        BY <2>1, <3>1
      <4> QED BY <3>1, <4>1, <4>2
    <3>3. CASE mid + 1 = j
      BY <3>1, <3>3
    <3> QED BY <1>1, <2>3, <3>2, <3>3
  <2> QED BY <1>1, <2>2, <2>3
<1>6. Above(f, l, o + 1, mid + qs)
  <2> SUFFICES ASSUME NEW i \in 1..n, NEW j \in 1..n, l < i, i <= o + 1, o + 1 < j, j <= mid + qs
               PROVE  f[i] <= f[j]
    BY DEF Above
  <2>1. CASE i = o + 1
    BY <1>5, <2>1
  <2>2. CASE i <= o
    <3>1. o < j
      BY <1>1
    <3> QED BY <1>2, <2>2, <3>1 DEF Above
  <2> QED BY <1>1, <2>1, <2>2
<1>7. o + 1 \in l..mid
  BY <1>1
<1> QED BY <1>2, <1>3, <1>4, <1>6, <1>7 DEF Merging

(* The element behind mid moves to before those behind o.                   *)
Origin(o, mid, i) ==
  IF i = o + 1 THEN mid + 1 ELSE IF o + 1 < i /\ i <= mid + 1 THEN i - 1 ELSE i
Shifts(f, g, o, mid) == \A i \in DOMAIN f : g[i] = f[Origin(o, mid, i)]

(* Where in the old order the i-th node of the new one was.                 *)
LEMMA OriginIs ==
  ASSUME NEW n \in Nat, NEW o \in Nat, NEW mid \in Nat, o <= mid, mid < n, NEW i \in 1..n
  PROVE  /\ Origin(o, mid, i) \in 1..n
         /\ i <= o \/ mid + 1 < i => Origin(o, mid, i) = i
         /\ i = o + 1 => Origin(o, mid, i) = mid + 1
         /\ o + 1 < i /\ i <= mid + 1 => Origin(o, mid, i) = i - 1
BY DEF Origin

(* Keys that did not move still rise.                                       *)
LEMMA ShiftsElsewhere ==
  ASSUME NEW n \in Nat, NEW f \in [1..n -> Int], NEW g \in [1..n -> Int],
         NEW o \in Nat, NEW mid \in Nat, o <= mid, Shifts(f, g, o, mid),
         NEW x \in Int, NEW y \in Int, y <= o \/ mid + 1 <= x, Rising(f, x, y)
  PROVE  Rising(g, x, y)
<1> SUFFICES ASSUME NEW i \in 1..n, NEW j \in 1..n, x < i, i < j, j <= y PROVE g[i] <= g[j]
  BY DEF Rising
<1>1. f[i] <= f[j]
  BY DEF Rising
<1>2. ASSUME NEW h \in 1..n, h <= o \/ mid + 1 < h PROVE g[h] = f[h]
  BY <1>2 DEF Shifts, Origin
<1>3. (i <= o \/ mid + 1 < i) /\ (j <= o \/ mid + 1 < j)
  OBVIOUS
<1> QED BY <1>1, <1>2, <1>3

(* The first key of the second run goes to the output, past what is left of *)
(* the first, if it is below it.                                            *)
LEMMA MergingSecond ==
  ASSUME NEW n \in Nat, NEW f \in [1..n -> Int], NEW s \in Nat \ {0},
         NEW l, NEW o, NEW mid, NEW qs \in Nat, NEW nm,
         Merging(f, s, n, l, o, mid, qs, nm), qs > 0, mid < n,
         o = mid \/ f[mid + 1] < f[o + 1],
         NEW g \in [1..n -> Int], Shifts(f, g, o, mid)
  PROVE  Merging(g, s, n, l, o + 1, mid + 1, qs - 1, nm)
<1>1. l \in Nat /\ o \in Nat /\ mid \in Nat /\ l <= o /\ o <= mid /\ l < mid /\ mid <= n
  BY MergingIs
<1>2. /\ RunsTo(f, 2 * s, l) /\ RunsFrom(f, s, l + 2 * s)
      /\ Rising(f, l, o) /\ Rising(f, o, mid) /\ Rising(f, mid, mid + qs)
      /\ Above(f, l, o, mid + qs)
      /\ l \in Mult(2 * s) /\ mid + qs = l + 2 * s /\ 2 * s \in Nat \ {0}
  BY EvenMultiples DEF Merging
<1>3. RunsTo(g, 2 * s, l)
  <2> SUFFICES ASSUME NEW z \in Mult(2 * s), z < l PROVE Rising(g, z, z + 2 * s)
    BY DEF RunsTo
  <2>1. z \in Nat /\ z + 2 * s <= l
    <3>1. z \in Nat
      BY <1>2, Multiples
    <3>2. ~(l < z + 2 * s)
      BY <1>1, <1>2, <3>1, Multiples
    <3> QED BY <1>1, <1>2, <3>1, <3>2
  <2>2. Rising(f, z, z + 2 * s)
    BY <1>2 DEF RunsTo
  <2>3. z \in Int /\ z + 2 * s \in Int /\ z + 2 * s <= o
    BY <1>1, <2>1
  <2> QED BY <1>1, <2>1, <2>2, <2>3, ShiftsElsewhere
<1>4. RunsFrom(g, s, l + 2 * s)
  <2> SUFFICES ASSUME NEW z \in Mult(s), l + 2 * s <= z PROVE Rising(g, z, z + s)
    BY DEF RunsFrom
  <2>1. z \in Nat /\ Rising(f, z, z + s)
    BY <1>2, Multiples DEF RunsFrom
  <2>2. mid + 1 <= z
    BY <1>1, <1>2, <2>1
  <2>3. z \in Int /\ z + s \in Int
    BY <2>1
  <2> QED BY <1>1, <2>1, <2>2, <2>3, ShiftsElsewhere
<1>5. /\ \A i \in 1..n : i <= o => g[i] = f[i]
      /\ g[o + 1] = f[mid + 1]
      /\ \A i \in 1..n : o + 1 < i /\ i <= mid + 1 => i - 1 \in 1..n /\ g[i] = f[i - 1]
      /\ \A i \in 1..n : mid + 1 < i => g[i] = f[i]
      /\ o + 1 \in 1..n /\ mid + 1 \in 1..n
  BY <1>1 DEF Shifts, Origin
<1>6. \A i \in 1..n : f[i] \in Int /\ g[i] \in Int
  OBVIOUS
<1>7. Rising(g, l, o + 1)
  <2> SUFFICES ASSUME NEW i \in 1..n, NEW j \in 1..n, l < i, i < j, j <= o + 1
               PROVE  g[i] <= g[j]
    BY DEF Rising
  <2>1. CASE j <= o
    <3>1. f[i] <= f[j]
      BY <1>2, <2>1 DEF Rising
    <3> QED BY <1>1, <1>5, <2>1, <3>1
  <2>2. CASE j = o + 1
    <3>1. i <= o /\ o < mid + 1 /\ mid + 1 <= mid + qs
      BY <1>1, <2>2
    <3>2. f[i] <= f[mid + 1]
      BY <1>2, <1>5, <3>1 DEF Above
    <3> QED BY <1>5, <2>2, <3>1, <3>2
  <2> QED BY <1>1, <2>1, <2>2
<1>8. Rising(g, o + 1, mid + 1)
  <2> SUFFICES ASSUME NEW i \in 1..n, NEW j \in 1..n, o + 1 < i, i < j, j <= mid + 1
               PROVE  g[i] <= g[j]
    BY DEF Rising
  <2>1. i - 1 \in 1..n /\ j - 1 \in 1..n /\ g[i] = f[i - 1] /\ g[j] = f[j - 1]
    BY <1>1, <1>5
  <2>2. o < i - 1 /\ i - 1 < j - 1 /\ j - 1 <= mid
    BY <1>1
  <2> DEFINE a == i - 1
             b == j - 1
  <2>3. f[a] <= f[b]
    <3>1. a \in 1..n /\ b \in 1..n /\ o < a /\ a < b /\ b <= mid
      BY <2>1, <2>2
    <3> HIDE DEF a, b
    <3> QED BY <1>2, <3>1 DEF Rising
  <2> QED BY <2>1, <2>3
<1>9. Rising(g, mid + 1, mid + 1 + (qs - 1))
  <2>1. Rising(f, mid + 1, mid + qs)
    <3> DEFINE a == mid + 1
               b == mid + qs
    <3>1. mid \in Int /\ a \in Int /\ b \in Int /\ mid <= a /\ b <= b
      BY <1>1
    <3> HIDE DEF a, b
    <3>2. Rising(f, mid, b)
      BY <1>2 DEF b
    <3>3. Rising(f, a, b)
      BY <3>1, <3>2, RisingWithin
    <3> QED BY <3>3 DEF a, b
  <2>2. Rising(g, mid + 1, mid + qs)
    <3>1. mid + 1 \in Int /\ mid + qs \in Int /\ mid + 1 <= mid + 1
      BY <1>1
    <3> QED BY <1>1, <2>1, <3>1, ShiftsElsewhere
  <2>3. mid + 1 + (qs - 1) = mid + qs
    BY <1>1
  <2> QED BY <2>2, <2>3
<1>10. ASSUME NEW j \in 1..n, o + 1 < j, j <= mid + qs PROVE g[o + 1] <= g[j]
  <2>1. CASE j <= mid + 1
    <3>1. g[j] = f[j - 1] /\ j - 1 \in 1..n /\ o < j - 1 /\ j - 1 <= mid
      BY <1>1, <1>5, <1>10, <2>1
    <3>2. f[mid + 1] < f[o + 1]
      BY <1>1, <3>1
    <3>3. f[o + 1] <= f[j - 1]
      <4>1. CASE j - 1 = o + 1
        <5> QED BY <1>5, <1>6, <4>1
      <4>2. CASE o + 1 < j - 1
        <5> QED BY <1>1, <1>2, <1>5, <3>1, <4>2 DEF Rising
      <4> QED BY <1>1, <3>1, <4>1, <4>2
    <3>4. f[o + 1] \in Int /\ f[mid + 1] \in Int /\ f[j - 1] \in Int
      BY <1>5, <1>6, <3>1
    <3> QED BY <1>5, <3>1, <3>2, <3>3, <3>4
  <2>2. CASE j > mid + 1
    <3>1. g[j] = f[j]
      BY <1>5, <2>2
    <3>2. f[mid + 1] <= f[j]
      BY <1>1, <1>2, <1>5, <1>10, <2>2 DEF Rising
    <3> QED BY <1>5, <3>1, <3>2
  <2> QED BY <1>1, <2>1, <2>2
<1>11. Above(g, l, o + 1, mid + 1 + (qs - 1))
  <2>1. mid + 1 + (qs - 1) = mid + qs
    BY <1>1
  <2> SUFFICES ASSUME NEW i \in 1..n, NEW j \in 1..n, l < i, i <= o + 1, o + 1 < j, j <= mid + qs
               PROVE  g[i] <= g[j]
    BY <2>1 DEF Above
  <2>2. CASE i = o + 1
    BY <1>10, <2>2
  <2>3. CASE i <= o
    <3>1. g[i] = f[i] /\ o < j
      BY <1>1, <1>5, <2>3
    <3>2. CASE j <= mid + 1
      <4>1. g[j] = f[j - 1] /\ j - 1 \in 1..n /\ o < j - 1 /\ j - 1 <= mid + qs
        BY <1>1, <1>5, <3>2
      <4>2. f[i] <= f[j - 1]
        BY <1>2, <2>3, <4>1 DEF Above
      <4> QED BY <3>1, <4>1, <4>2
    <3>3. CASE j > mid + 1
      <4>1. g[j] = f[j]
        BY <1>5, <3>3
      <4>2. f[i] <= f[j]
        BY <1>2, <2>3, <3>1 DEF Above
      <4> QED BY <3>1, <4>1, <4>2
    <3> QED BY <1>1, <3>2, <3>3
  <2> QED BY <1>1, <2>2, <2>3
<1>12. /\ o + 1 \in l..mid + 1 /\ mid + 1 \in l + 1..n
       /\ mid + 1 + (qs - 1) = l + 2 * s /\ mid + 1 + (qs - 1) <= l + 2 * s
  BY <1>1, <1>2
<1>13. nm \in 1..l + 1 /\ (nm = 1 => l = 0)
  BY DEF Merging
<1> QED BY <1>2, <1>3, <1>4, <1>7, <1>8, <1>9, <1>11, <1>12, <1>13 DEF Merging

(* When both runs are used up the output has a run of 2s more.              *)
LEMMA MergingEnds ==
  ASSUME NEW n \in Nat, NEW f \in [1..n -> Int], NEW s \in Nat \ {0},
         NEW l, NEW o, NEW qs \in Nat, NEW nm,
         Merging(f, s, n, l, o, o, qs, nm), qs = 0 \/ o = n
  PROVE  Halfway(f, s, n, o, nm)
<1>1. l \in Nat /\ o \in Nat /\ l < o /\ o <= n /\ nm \in Nat
  BY MergingIs
<1>2. /\ RunsTo(f, 2 * s, l) /\ RunsFrom(f, s, l + 2 * s) /\ Rising(f, l, o)
      /\ l \in Mult(2 * s) /\ 2 * s \in Nat \ {0}
      /\ o <= l + 2 * s /\ (o < n => o = l + 2 * s)
      /\ nm \in 1..l + 1 /\ (nm = 1 => l = 0)
  <2>1. /\ o + qs <= l + 2 * s /\ (o < n => o + qs = l + 2 * s) /\ 2 * s \in Nat \ {0}
    BY EvenMultiples DEF Merging
  <2>2. o <= l + 2 * s /\ (o < n => o = l + 2 * s)
    BY <1>1, <2>1
  <2> QED BY <2>1, <2>2 DEF Merging
<1>3. RunsTo(f, 2 * s, o)
  <2> SUFFICES ASSUME NEW z \in Mult(2 * s), z < o PROVE Rising(f, z, z + 2 * s)
    BY DEF RunsTo
  <2>1. z \in Nat
    BY <1>2, Multiples
  <2>2. CASE z < l
    BY <1>2, <2>2 DEF RunsTo
  <2>3. CASE z >= l
    <3>1. z = l
      <4>1. l <= z /\ z < l + 2 * s
        BY <1>1, <1>2, <2>1, <2>3
      <4> QED BY <1>2, <4>1, Multiples
    <3>2. l + 2 * s <= o \/ n <= o
      BY <1>1, <1>2
    <3> QED BY <1>1, <1>2, <3>1, <3>2, RisingWithin
  <2> QED BY <1>1, <2>1, <2>2, <2>3
<1>4. RunsFrom(f, s, o)
  <2> SUFFICES ASSUME NEW z \in Mult(s), o <= z PROVE Rising(f, z, z + s)
    BY DEF RunsFrom
  <2>1. z \in Nat
    BY Multiples
  <2>2. CASE l + 2 * s <= z
    BY <1>2, <2>2 DEF RunsFrom
  <2>3. CASE n <= z
    BY <2>1, <2>3, RisingNone
  <2> QED BY <1>1, <1>2, <2>1, <2>2, <2>3
<1>5. o \in Mult(2 * s) \/ o = n
  <2>1. l + 2 * s \in Mult(2 * s)
    BY <1>2, Multiples
  <2>2. o = n \/ o < n
    BY <1>1
  <2>3. ASSUME o < n PROVE o \in Mult(2 * s)
    <3>1. o = l + 2 * s
      BY <1>2, <2>3
    <3> QED BY <2>1, <3>1, Zenon
  <2> QED BY <2>2, <2>3
<1>6. nm \in 0..o /\ (nm = 0 => o = 0) /\ (nm = 1 => o <= 2 * s) /\ o \in 0..n
  BY <1>1, <1>2
<1> QED BY <1>3, <1>4, <1>5, <1>6 DEF Halfway

(* The last pass has one pair of runs, so that its output is one run.       *)
LEMMA LastPassRises ==
  ASSUME NEW n \in Nat \ {0}, NEW f \in [1..n -> Int], NEW s \in Nat \ {0}, NEW nm,
         Halfway(f, s, n, n, nm), nm <= 1
  PROVE  Rising(f, 0, n)
<1>1. n <= 2 * s /\ 2 * s \in Nat \ {0}
  BY DEF Halfway
<1>2. Rising(f, 0, 0 + 2 * s)
  <2>1. 0 \in Mult(2 * s)
    BY <1>1, Multiples
  <2> QED BY <2>1 DEF Halfway, RunsTo
<1> QED BY <1>1, <1>2, RisingWithin

(* After a pass all runs are of 2s.                                         *)
LEMMA PassDoubles ==
  ASSUME NEW n \in Nat, NEW f \in [1..n -> Int], NEW s \in Nat \ {0}, NEW nm,
         Halfway(f, s, n, n, nm)
  PROVE  RunsFrom(f, 2 * s, 0)
<1> SUFFICES ASSUME NEW z \in Mult(2 * s) PROVE Rising(f, z, z + 2 * s)
  BY DEF RunsFrom
<1>1. z \in Nat /\ 2 * s \in Nat
  BY EvenMultiples, Multiples
<1>2. CASE z < n
  BY <1>2 DEF Halfway, RunsTo
<1>3. CASE n <= z
  BY <1>1, <1>3, RisingNone
<1> QED BY <1>1, <1>2, <1>3
-----------------------------------------------------------------------------
(* The order of the nodes: w[i] is the i-th.                                *)
Orders(n) == {w \in [1..n -> 1..n] : Once(w) /\ \A x \in 1..n : \E i \in 1..n : w[i] = x}

(* The keys in the order w; and that nodes with equal keys are in their     *)
(* first order.                                                             *)
Key(k, w) == [i \in DOMAIN w |-> k[w[i]]]
Stable(k, w) == \A i, j \in DOMAIN w : i < j /\ k[w[i]] = k[w[j]] => w[i] < w[j]

(* The node after mid goes to the place after o, and those between move up. *)
Moved(w, o, mid) == [i \in DOMAIN w |-> w[Origin(o, mid, i)]]

(* An order names every node once.                                          *)
LEMMA OrderIs ==
  ASSUME NEW n \in Nat, NEW w \in Orders(n)
  PROVE  /\ w \in [1..n -> 1..n] /\ DOMAIN w = 1..n /\ Once(w) /\ Of(w) = 1..n
         /\ w \in Seq(1..n) /\ Len(w) = n
         /\ \A i \in 1..n : w[i] \in 1..n /\ w[i] # NULL
         /\ \A i, j \in 1..n : w[i] = w[j] => i = j
         /\ \A x \in 1..n : \E i \in 1..n : w[i] = x
<1>1. /\ w \in [1..n -> 1..n] /\ DOMAIN w = 1..n /\ Once(w)
      /\ \A x \in 1..n : \E i \in 1..n : w[i] = x
  BY DEF Orders
<1>2. w \in Seq(1..n) /\ Len(w) = n
  <2>1. w = [i \in 1..n |-> w[i]] /\ \A i \in 1..n : w[i] \in 1..n
    BY <1>1
  <2> QED BY <2>1, MadeSeq
<1>3. \A i \in 1..n : w[i] \in 1..n /\ w[i] # NULL
  BY <1>1 DEF NULL
<1>4. Of(w) = 1..n
  BY <1>1 DEF Of
<1> QED BY <1>1, <1>2, <1>3, <1>4 DEF Once

LEMMA KeyIs ==
  ASSUME NEW n \in Nat, NEW w \in Orders(n), NEW k \in [1..n -> Int]
  PROVE  Key(k, w) \in [1..n -> Int] /\ \A i \in 1..n : Key(k, w)[i] = k[w[i]] /\ k[w[i]] \in Int
  BY OrderIs DEF Key

(* What the moved order is, that it is one, and what its keys are.          *)
LEMMA MovedAt ==
  ASSUME NEW n \in Nat, NEW w \in Orders(n), NEW o \in Nat, NEW mid \in Nat, o <= mid, mid < n
  PROVE  /\ Moved(w, o, mid) \in [1..n -> 1..n]
         /\ \A i \in 1..n : /\ Origin(o, mid, i) \in 1..n
                            /\ Moved(w, o, mid)[i] = w[Origin(o, mid, i)]
<1>1. DOMAIN w = 1..n /\ \A i \in 1..n : w[i] \in 1..n
  BY OrderIs
<1>2. \A i \in 1..n : Origin(o, mid, i) \in 1..n
  BY OriginIs
<1> QED BY <1>1, <1>2 DEF Moved

LEMMA MovedIs ==
  ASSUME NEW n \in Nat, NEW w \in Orders(n), NEW o \in Nat, NEW mid \in Nat, o <= mid, mid < n
  PROVE  Moved(w, o, mid) \in Orders(n)
<1> DEFINE v == Moved(w, o, mid)
           At(i) == Origin(o, mid, i)
<1>1. v \in [1..n -> 1..n] /\ \A i \in 1..n : At(i) \in 1..n /\ v[i] = w[At(i)]
  BY MovedAt
<1>2. /\ \A i, j \in 1..n : w[i] = w[j] => i = j
      /\ \A x \in 1..n : \E i \in 1..n : w[i] = x
  BY OrderIs
<1>3. ASSUME NEW i \in 1..n, NEW j \in 1..n, At(i) = At(j) PROVE i = j
  BY <1>3 DEF Origin
<1>4. ASSUME NEW i \in 1..n PROVE \E j \in 1..n : At(j) = i
  <2>1. CASE i = mid + 1
    <3>1. o + 1 \in 1..n /\ At(o + 1) = i
      BY <2>1 DEF Origin
    <3> QED BY <3>1
  <2>2. CASE i <= o \/ mid + 1 < i
    <3>1. At(i) = i
      BY <2>2 DEF Origin
    <3> QED BY <3>1
  <2>3. CASE o < i /\ i <= mid
    <3>1. i + 1 \in 1..n /\ At(i + 1) = i
      BY <2>3 DEF Origin
    <3> QED BY <3>1
  <2> QED BY <2>1, <2>2, <2>3
<1> HIDE DEF v, At
<1>5. Once(v)
  <2>1. ASSUME NEW i \in 1..n, NEW j \in 1..n, v[i] = v[j] PROVE At(i) = At(j)
    <3>1. v[i] = w[At(i)] /\ v[j] = w[At(j)] /\ At(i) \in 1..n /\ At(j) \in 1..n
      BY <1>1
    <3> QED BY <1>2, <2>1, <3>1
  <2>2. \A i, j \in 1..n : v[i] = v[j] => i = j
    BY <1>3, <2>1
  <2> QED BY <1>1, <2>2 DEF Once
<1>6. ASSUME NEW x \in 1..n PROVE \E j \in 1..n : v[j] = x
  <2>1. PICK i \in 1..n : w[i] = x
    BY <1>2
  <2>2. PICK j \in 1..n : At(j) = i
    BY <1>4
  <2> QED BY <1>1, <2>1, <2>2
<1> QED BY <1>1, <1>5, <1>6 DEF Orders, v

LEMMA MovedKeys ==
  ASSUME NEW n \in Nat, NEW w \in Orders(n), NEW o \in Nat, NEW mid \in Nat, o <= mid, mid < n,
         NEW k \in [1..n -> Int]
  PROVE  Shifts(Key(k, w), Key(k, Moved(w, o, mid)), o, mid)
<1> DEFINE v == Moved(w, o, mid)
<1>1. \A i \in 1..n : Key(k, w)[i] = k[w[i]]
  BY KeyIs
<1>2. \A i \in 1..n : Key(k, v)[i] = k[v[i]]
  BY KeyIs, MovedIs
<1>3. \A i \in 1..n : Origin(o, mid, i) \in 1..n /\ v[i] = w[Origin(o, mid, i)]
  BY MovedAt
<1>4. DOMAIN Key(k, w) = 1..n
  BY KeyIs
<1> HIDE DEF v
<1>5. ASSUME NEW i \in 1..n PROVE Key(k, v)[i] = Key(k, w)[Origin(o, mid, i)]
  <2>1. Origin(o, mid, i) \in 1..n /\ v[i] = w[Origin(o, mid, i)]
    BY <1>3
  <2> QED BY <1>1, <1>2, <2>1
<1>6. Shifts(Key(k, w), Key(k, v), o, mid)
  BY <1>4, <1>5 DEF Shifts
<1> QED BY <1>6 DEF v

(* Only nodes with a greater key are passed over, so equal ones stay in the *)
(* order in which they were.                                                *)
LEMMA MovedStable ==
  ASSUME NEW n \in Nat, NEW w \in Orders(n), NEW o \in Nat, NEW mid \in Nat, o <= mid, mid < n,
         NEW k \in [1..n -> Int], Stable(k, w), Rising(Key(k, w), o, mid),
         o = mid \/ Key(k, w)[mid + 1] < Key(k, w)[o + 1]
  PROVE  Stable(k, Moved(w, o, mid))
<1> DEFINE v == Moved(w, o, mid)
           f == Key(k, w)
           At(i) == Origin(o, mid, i)
<1>1. v \in [1..n -> 1..n] /\ \A i \in 1..n : At(i) \in 1..n /\ v[i] = w[At(i)]
  BY MovedAt
<1>2. DOMAIN f = 1..n /\ \A i \in 1..n : f[i] = k[w[i]] /\ f[i] \in Int
  BY KeyIs
<1>3. DOMAIN w = 1..n
  BY OrderIs
<1>4. ASSUME NEW i \in 1..n, o < i, i <= mid PROVE f[mid + 1] < f[i]
  <2> HIDE DEF f
  <2>1. mid + 1 \in 1..n /\ o + 1 \in 1..n /\ f[mid + 1] < f[o + 1]
    BY <1>4 DEF f
  <2>2. i = o + 1 \/ f[o + 1] <= f[i]
    <3>1. i = o + 1 \/ o + 1 < i
      BY <1>4
    <3>2. Rising(f, o, mid) /\ o < o + 1
      BY DEF f
    <3> QED BY <1>2, <1>4, <2>1, <3>1, <3>2 DEF Rising
  <2>3. f[o + 1] \in Int /\ f[i] \in Int /\ f[mid + 1] \in Int
    BY <1>2, <2>1
  <2> QED BY <2>1, <2>2, <2>3, SMTT(30)
<1>5. ASSUME NEW i \in 1..n, NEW j \in 1..n, i < j
      PROVE  At(i) < At(j) \/ (At(i) = mid + 1 /\ o < At(j) /\ At(j) <= mid)
  BY <1>5 DEF Origin
<1> HIDE DEF v, f, At
<1>6. ASSUME NEW i \in 1..n, NEW j \in 1..n, i < j, k[v[i]] = k[v[j]] PROVE v[i] < v[j]
  <2>1. At(i) \in 1..n /\ v[i] = w[At(i)] /\ At(j) \in 1..n /\ v[j] = w[At(j)]
    BY <1>1
  <2>2. CASE At(i) < At(j)
    BY <1>3, <1>6, <2>1, <2>2 DEF Stable
  <2>3. CASE At(i) = mid + 1 /\ o < At(j) /\ At(j) <= mid
    <3>1. f[At(i)] < f[At(j)]
      BY <1>4, <2>1, <2>3
    <3>2. f[At(i)] = f[At(j)] /\ f[At(i)] \in Int
      BY <1>2, <1>6, <2>1
    <3> QED BY <3>1, <3>2
  <2> QED BY <1>5, <1>6, <2>2, <2>3
<1>7. DOMAIN v = 1..n
  BY <1>1
<1>8. Stable(k, v)
  BY <1>6, <1>7 DEF Stable
<1> QED BY <1>8 DEF v
-----------------------------------------------------------------------------
(* The links.  The first o nodes are the output; a run is linked as far as  *)
(* it goes; what remains ends in NULL.                                      *)
Output(m, w, h, t, o) ==
  /\ h = IF o = 0 THEN NULL ELSE w[1]
  /\ t = IF o = 0 THEN NULL ELSE w[o]
  /\ \A i \in 1..o : /\ i < o => m.next[w[i]] = w[i + 1]
                     /\ m.prev[w[i]] = IF i = 1 THEN NULL ELSE w[i - 1]
FirstRun(m, w, x, y, h) ==
  /\ x < y => h = w[x + 1]
  /\ \A i \in x + 1..y : i < y => m.next[w[i]] = w[i + 1]
Remaining(m, w, x, n, h) ==
  /\ h = IF x = n THEN NULL ELSE w[x + 1]
  /\ \A i \in x + 1..n : m.next[w[i]] = IF i = n THEN NULL ELSE w[i + 1]

(* Link of TaListSort as a value, and what it changes.                      *)
Linking(m, t, e) ==
  IF t = NULL THEN [m EXCEPT !.prev[e] = NULL] ELSE [m EXCEPT !.next[t] = e, !.prev[e] = t]

LEMMA LinkingIs ==
  ASSUME NEW N, NULL \notin N, NEW D, NEW m \in Memory(N, D), NEW e \in N, NEW t \in N \cup {NULL}
  PROVE  /\ Linking(m, t, e) \in Memory(N, D)
         /\ t # NULL => Linking(m, t, e).next[t] = e
         /\ \A x \in N : x # t => Linking(m, t, e).next[x] = m.next[x]
         /\ Linking(m, t, e).prev[e] = t
         /\ \A x \in N : x # e => Linking(m, t, e).prev[x] = m.prev[x]
         /\ Linking(m, t, e).data = m.data
<1> DEFINE m2 == Linking(m, t, e)
<1>1. /\ m.next \in [N -> N \cup {NULL}] /\ m.prev \in [N -> N \cup {NULL}] /\ m.data \in [N -> D]
      /\ m = [next |-> m.next, prev |-> m.prev, data |-> m.data]
  BY DEF Memory
<1>2. CASE t = NULL
  <2>1. /\ m2.next = m.next /\ m2.prev = [m.prev EXCEPT ![e] = NULL] /\ m2.data = m.data
        /\ m2 = [next |-> m2.next, prev |-> m2.prev, data |-> m2.data]
    BY <1>1, <1>2 DEF Linking
  <2> HIDE DEF m2
  <2>2. m2 \in Memory(N, D)
    BY <1>1, <2>1 DEF Memory
  <2>3. m2.prev[e] = t /\ \A x \in N : x # e => m2.prev[x] = m.prev[x]
    BY <1>1, <1>2, <2>1
  <2> QED BY <1>2, <2>1, <2>2, <2>3 DEF m2
<1>3. CASE t \in N /\ t # NULL
  <2>1. /\ m2.next = [m.next EXCEPT ![t] = e] /\ m2.prev = [m.prev EXCEPT ![e] = t]
        /\ m2.data = m.data
        /\ m2 = [next |-> m2.next, prev |-> m2.prev, data |-> m2.data]
    BY <1>1, <1>3 DEF Linking
  <2> HIDE DEF m2
  <2>2. m2 \in Memory(N, D)
    BY <1>1, <1>3, <2>1 DEF Memory
  <2>3. /\ m2.prev[e] = t /\ \A x \in N : x # e => m2.prev[x] = m.prev[x]
        /\ m2.next[t] = e /\ \A x \in N : x # t => m2.next[x] = m.next[x]
    BY <1>1, <1>3, <2>1
  <2> QED BY <1>3, <2>1, <2>2, <2>3 DEF m2
<1> QED BY <1>2, <1>3

(* The next node is linked behind the output.                               *)
Grows(n, m, h, t, o, v) ==
  LET m2 == Linking(m, t, v[o + 1]) IN
  /\ m2 \in Memory(1..n, 1..n) /\ m2.data = m.data
  /\ Output(m2, v, IF t = NULL THEN v[o + 1] ELSE h, v[o + 1], o + 1)
  /\ \A i \in o + 1..n : m2.next[v[i]] = m.next[v[i]]

(* Behind the output goes the next node of an order v that begins as w.     *)
LEMMA OutputGrows ==
  ASSUME NEW n \in Nat, NEW m \in Memory(1..n, 1..n), NEW w \in Orders(n), NEW v \in Orders(n),
         NEW o \in 0..n - 1, NEW h, NEW t, Output(m, w, h, t, o),
         \A i \in 1..o : v[i] = w[i]
  PROVE  Grows(n, m, h, t, o, v)
<1> DEFINE e == v[o + 1]
           m2 == Linking(m, t, e)
<1>1. /\ \A i \in 1..n : v[i] \in 1..n /\ v[i] # NULL
      /\ \A i, j \in 1..n : v[i] = v[j] => i = j
      /\ o + 1 \in 1..n /\ NULL \notin 1..n
      /\ \A i \in 1..o : i \in 1..n /\ i # o + 1
      /\ \A i \in o + 1..n : i \in 1..n /\ i # o
  <2>1. /\ \A i \in 1..n : v[i] \in 1..n /\ v[i] # NULL
        /\ \A i, j \in 1..n : v[i] = v[j] => i = j
    BY OrderIs
  <2>2. /\ o + 1 \in 1..n /\ NULL \notin 1..n
        /\ \A i \in 1..o : i \in 1..n /\ i # o + 1
        /\ \A i \in o + 1..n : i \in 1..n /\ i # o
    BY DEF NULL
  <2> QED BY <2>1, <2>2
<1>2. /\ h = IF o = 0 THEN NULL ELSE w[1]
      /\ t = IF o = 0 THEN NULL ELSE w[o]
      /\ \A i \in 1..o : /\ i < o => m.next[w[i]] = w[i + 1]
                         /\ m.prev[w[i]] = IF i = 1 THEN NULL ELSE w[i - 1]
  BY DEF Output
<1>3. /\ o = 0 => t = NULL
      /\ o # 0 => o \in 1..n /\ o \in 1..o /\ 1 \in 1..o /\ h = v[1] /\ t = v[o]
      /\ t = NULL <=> o = 0
  BY <1>1, <1>2
<1>4. t \in (1..n) \cup {NULL} /\ e \in 1..n
  BY <1>1, <1>3
<1>5. /\ m2 \in Memory(1..n, 1..n) /\ m2.data = m.data
      /\ t # NULL => m2.next[t] = e
      /\ \A x \in 1..n : x # t => m2.next[x] = m.next[x]
      /\ m2.prev[e] = t
      /\ \A x \in 1..n : x # e => m2.prev[x] = m.prev[x]
  <2> HIDE DEF e
  <2> DEFINE N == 1..n
  <2>1. m \in Memory(N, N) /\ NULL \notin N /\ e \in N /\ t \in N \cup {NULL}
    BY <1>1, <1>4
  <2> HIDE DEF N
  <2>2. /\ Linking(m, t, e) \in Memory(N, N)
        /\ t # NULL => Linking(m, t, e).next[t] = e
        /\ \A x \in N : x # t => Linking(m, t, e).next[x] = m.next[x]
        /\ Linking(m, t, e).prev[e] = t
        /\ \A x \in N : x # e => Linking(m, t, e).prev[x] = m.prev[x]
        /\ Linking(m, t, e).data = m.data
    BY <2>1, LinkingIs
  <2> QED BY <2>2, Zenon DEF N
<1> HIDE DEF m2
<1>6. ASSUME NEW i \in o + 1..n PROVE m2.next[v[i]] = m.next[v[i]]
  <2>1. i \in 1..n /\ i # o /\ v[i] \in 1..n
    BY <1>1
  <2>2. v[i] # t
    BY <1>1, <1>3, <2>1
  <2> QED BY <1>5, <2>1, <2>2
<1>7. ASSUME NEW i \in 1..o + 1, i < o + 1 PROVE m2.next[v[i]] = v[i + 1]
  <2>1. i \in 1..o /\ i \in 1..n /\ o # 0 /\ v[i] \in 1..n
    BY <1>1, <1>7
  <2>2. CASE i = o
    BY <1>3, <1>5, <2>1, <2>2
  <2>3. CASE i < o
    <3>1. v[i] # t
      BY <1>1, <1>3, <2>1, <2>3
    <3>2. i + 1 \in 1..o /\ v[i] = w[i] /\ v[i + 1] = w[i + 1]
      BY <2>1, <2>3
    <3> QED BY <1>2, <1>5, <2>1, <2>3, <3>1, <3>2
  <2> QED BY <2>1, <2>2, <2>3
<1>8. ASSUME NEW i \in 1..o + 1 PROVE m2.prev[v[i]] = IF i = 1 THEN NULL ELSE v[i - 1]
  <2>1. CASE i = o + 1
    BY <1>3, <1>5, <2>1
  <2>2. CASE i # o + 1
    <3>1. i \in 1..o /\ i \in 1..n /\ v[i] # e /\ v[i] \in 1..n
      BY <1>1, <2>2
    <3>2. v[i] = w[i] /\ (i # 1 => v[i - 1] = w[i - 1])
      BY <3>1
    <3> QED BY <1>2, <1>5, <3>1, <3>2
  <2> QED BY <2>1, <2>2
<1>9. (IF t = NULL THEN e ELSE h) = (IF o + 1 = 0 THEN NULL ELSE v[1])
  BY <1>3
<1>10. e = IF o + 1 = 0 THEN NULL ELSE v[o + 1]
  BY <1>3
<1>11. Output(m2, v, IF t = NULL THEN e ELSE h, e, o + 1)
  <2> HIDE DEF e
  <2> QED BY <1>7, <1>8, <1>9, <1>10 DEF Output
<1> QED BY <1>5, <1>6, <1>11 DEF m2, Grows

(* The end of a pass: the last node points nowhere.                         *)
Ending(m, t) == [m EXCEPT !.next[t] = NULL]

LEMMA EndingIs ==
  ASSUME NEW N, NEW D, NEW m \in Memory(N, D), NEW t \in N
  PROVE  /\ Ending(m, t) \in Memory(N, D)
         /\ Ending(m, t).next[t] = NULL
         /\ \A x \in N : x # t => Ending(m, t).next[x] = m.next[x]
         /\ Ending(m, t).prev = m.prev /\ Ending(m, t).data = m.data
<1> DEFINE m2 == Ending(m, t)
<1>1. /\ m.next \in [N -> N \cup {NULL}] /\ m.prev \in [N -> N \cup {NULL}] /\ m.data \in [N -> D]
      /\ m = [next |-> m.next, prev |-> m.prev, data |-> m.data]
  BY DEF Memory
<1>2. /\ m2.next = [m.next EXCEPT ![t] = NULL] /\ m2.prev = m.prev /\ m2.data = m.data
      /\ m2 = [next |-> m2.next, prev |-> m2.prev, data |-> m2.data]
  BY <1>1 DEF Ending
<1> HIDE DEF m2
<1>3. m2 \in Memory(N, D)
  BY <1>1, <1>2 DEF Memory
<1>4. m2.next[t] = NULL /\ \A x \in N : x # t => m2.next[x] = m.next[x]
  BY <1>1, <1>2
<1> QED BY <1>2, <1>3, <1>4 DEF m2

(* The last node of the output ends the list.                               *)
LEMMA OutputEnds ==
  ASSUME NEW n \in Nat \ {0}, NEW m \in Memory(1..n, 1..n), NEW w \in Orders(n),
         NEW h, NEW t, Output(m, w, h, t, n)
  PROVE  LET m2 == Ending(m, t) IN
         m2 \in Memory(1..n, 1..n) /\ m2.data = m.data /\ Linked(m2, h, w)
<1> DEFINE m2 == Ending(m, t)
<1> n \in Nat
  OBVIOUS
<1>1. /\ w \in Seq(1..n) /\ Len(w) = n /\ Once(w) /\ DOMAIN w = 1..n
      /\ \A i \in 1..n : w[i] \in 1..n
      /\ \A i, j \in 1..n : w[i] = w[j] => i = j
  BY OrderIs
<1>a. w # <<>> /\ n \in 1..n
  BY <1>1, EmptySeq
<1>2. /\ h = w[1] /\ t = w[n] /\ t \in 1..n
      /\ \A i \in 1..n : /\ i < n => m.next[w[i]] = w[i + 1]
                         /\ m.prev[w[i]] = IF i = 1 THEN NULL ELSE w[i - 1]
  BY <1>1, <1>a DEF Output
<1>3. /\ m2 \in Memory(1..n, 1..n)
      /\ m2.next[t] = NULL
      /\ \A x \in 1..n : x # t => m2.next[x] = m.next[x]
      /\ m2.prev = m.prev /\ m2.data = m.data
  <2> DEFINE N == 1..n
  <2>1. m \in Memory(N, N) /\ t \in N
    BY <1>2
  <2> HIDE DEF N
  <2>2. /\ Ending(m, t) \in Memory(N, N)
        /\ Ending(m, t).next[t] = NULL
        /\ \A x \in N : x # t => Ending(m, t).next[x] = m.next[x]
        /\ Ending(m, t).prev = m.prev /\ Ending(m, t).data = m.data
    BY <2>1, EndingIs
  <2> QED BY <2>2, Zenon DEF N
<1> HIDE DEF m2
<1>5. DOMAIN m2.next = 1..n
  BY <1>3 DEF Memory
<1>6. ASSUME NEW i \in 1..n PROVE m2.next[w[i]] = IF i = n THEN NULL ELSE w[i + 1]
  <2>1. w[i] = t <=> i = n
    BY <1>1, <1>2, <1>a
  <2>2. i # n => i < n
    OBVIOUS
  <2> QED BY <1>1, <1>2, <1>3, <2>1, <2>2
<1>7. \A i \in 1..n : m2.prev[w[i]] = IF i = 1 THEN NULL ELSE w[i - 1]
  BY <1>2, <1>3
<1>8. h = IF w = <<>> THEN NULL ELSE w[1]
  BY <1>a, <1>2
<1>9. Linked(m2, h, w)
  BY <1>1, <1>5, <1>6, <1>7, <1>8 DEF Linked
<1> QED BY <1>3, <1>9 DEF m2

(* A list as a pass takes it.                                               *)
LEMMA PassTakes ==
  ASSUME NEW n \in Nat, NEW m \in Memory(1..n, 1..n), NEW w \in Orders(n), NEW h, Linked(m, h, w)
  PROVE  Output(m, w, NULL, NULL, 0) /\ Remaining(m, w, 0, n, h)
<1>1. Len(w) = n /\ NULL \notin 1..n
  BY OrderIs DEF NULL
<1>2. /\ h = IF n = 0 THEN NULL ELSE w[1]
      /\ \A i \in 1..n : m.next[w[i]] = IF i = n THEN NULL ELSE w[i + 1]
  <2> DEFINE N == 1..n
  <2>1. m \in Memory(N, N) /\ NULL \notin N
    BY <1>1
  <2> HIDE DEF N
  <2>2. /\ h = IF Len(w) = 0 THEN NULL ELSE w[1]
        /\ \A i \in 1..Len(w) : m.next[w[i]] = IF i = Len(w) THEN NULL ELSE w[i + 1]
    BY <2>1, LinkedIs
  <2> QED BY <1>1, <2>2
<1> QED BY <1>2 DEF Output, Remaining

(* The part of an order from o to n.                                        *)
Part(w, o, n) == [i \in 1..n - o |-> w[o + i]]

IsPart(w, o, y, n) ==
  LET c == Part(w, o, y) IN
  /\ c \in Seq(1..n) /\ Len(c) = y - o /\ Once(c) /\ (c = <<>> <=> y = o)
  /\ \A i \in 1..y - o : c[i] = w[o + i] /\ o + i \in 1..n

LEMMA PartIs ==
  ASSUME NEW n \in Nat, NEW w \in Orders(n), NEW o \in 0..n, NEW y \in o..n
  PROVE  IsPart(w, o, y, n)
<1> DEFINE c == Part(w, o, y)
<1>1. /\ \A i \in 1..n : w[i] \in 1..n
      /\ \A i, j \in 1..n : w[i] = w[j] => i = j
  BY OrderIs
<1>2. y - o \in Nat /\ \A i \in 1..y - o : o + i \in 1..n
  OBVIOUS
<1>3. \A i \in 1..y - o : c[i] = w[o + i] /\ c[i] \in 1..n
  BY <1>1, <1>2 DEF Part
<1>4. c = [i \in 1..y - o |-> c[i]]
  BY DEF Part
<1> HIDE DEF c
<1>5. c \in Seq(1..n) /\ Len(c) = y - o
  BY <1>2, <1>3, <1>4, MadeSeq
<1>6. Once(c)
  <2> SUFFICES ASSUME NEW i \in 1..y - o, NEW j \in 1..y - o, c[i] = c[j] PROVE i = j
    BY <1>4 DEF Once
  <2>1. o + i = o + j
    BY <1>1, <1>2, <1>3
  <2> QED BY <2>1
<1>7. c = <<>> <=> y = o
  BY <1>2, <1>5, EmptySeq
<1> QED BY <1>2, <1>3, <1>5, <1>6, <1>7 DEF IsPart, c

(* From the first of the remaining nodes one reaches the others.            *)
LEMMA RemainingWalk ==
  ASSUME NEW n \in Nat, NEW m \in Memory(1..n, 1..n), NEW w \in Orders(n), NEW o \in 0..n,
         NEW h, Remaining(m, w, o, n, h)
  PROVE  Chain(m, h) = Part(w, o, n)
<1> DEFINE c == Part(w, o, n)
           L == n - o
<1>1. IsFiniteSet(1..n) /\ NULL \notin 1..n /\ m.next \in [1..n -> (1..n) \cup {NULL}]
  BY FS_Interval DEF Memory, NULL
<1>2. /\ c \in Seq(1..n) /\ Len(c) = L /\ Once(c)
      /\ \A i \in 1..L : c[i] = w[o + i] /\ o + i \in 1..n
      /\ c = <<>> <=> n = o
      /\ L \in Nat
  BY PartIs DEF IsPart
<1>3. \A i \in 1..n : w[i] \in 1..n
  BY OrderIs
<1>4. h = IF o = n THEN NULL ELSE w[o + 1]
  BY DEF Remaining
<1>5. ASSUME NEW i \in 1..L PROVE m.next[c[i]] = IF i = L THEN NULL ELSE c[i + 1]
  <2>1. o + i \in o + 1..n /\ (o + i = n <=> i = L) /\ (i # L => i + 1 \in 1..L)
        /\ o + i + 1 = o + (i + 1)
    OBVIOUS
  <2>2. m.next[w[o + i]] = IF o + i = n THEN NULL ELSE w[o + i + 1]
    BY <2>1 DEF Remaining
  <2> QED BY <1>2, <2>1, <2>2
<1> HIDE DEF c
<1>6. h \in (1..n) \cup {NULL}
  <2>1. o # n => o + 1 \in 1..n
    OBVIOUS
  <2> QED BY <1>3, <1>4, <2>1
<1>7. Leads(m.next, h, c)
  <2>1. c # <<>> => 1 \in 1..L
    BY <1>2
  <2>2. \A i \in 1..L - 1 : i \in 1..L /\ i # L
    BY <1>2
  <2> QED BY <1>2, <1>4, <1>5, <2>1, <2>2 DEF Leads
<1>8. IF c = <<>> THEN h = NULL ELSE m.next[c[Len(c)]] = NULL
  <2>1. c # <<>> => L \in 1..L
    BY <1>2
  <2> QED BY <1>2, <1>4, <1>5, <2>1
<1>9. Walk(m.next, h) = c
  BY <1>1, <1>2, <1>6, <1>7, <1>8, WalkVisits
<1> QED BY <1>9 DEF Chain, c
-----------------------------------------------------------------------------
(* The sort between two statements, as a relation of the values of its      *)
(* variables: k the keys, m the memory, h the head, t the tail, s the       *)
(* length of a run, nm the number of merges; w is the order in which the    *)
(* nodes will be when the pass is over and nothing more is moved, the first *)
(* o of them in the output, and l where the output of this merge begins.    *)
Whole(k, m, h, w) == w \in Orders(Len(k)) /\ Linked(m, h, w) /\ Stable(k, w)

AtSplit(k, m, h, t, pp, s, nm, w, o) ==
  /\ w \in Orders(Len(k)) /\ Stable(k, w)
  /\ Output(m, w, h, t, o) /\ Remaining(m, w, o, Len(k), pp)
  /\ Halfway(Key(k, w), s, Len(k), o, nm)

AtMerge(k, m, h, t, pp, qq, ps, qs, s, nm, w, o, l) ==
  /\ w \in Orders(Len(k)) /\ Stable(k, w)
  /\ Output(m, w, h, t, o) /\ FirstRun(m, w, o, o + ps, pp)
  /\ Remaining(m, w, o + ps, Len(k), qq)
  /\ Merging(Key(k, w), s, Len(k), l, o, o + ps, qs, nm)

(* The keys are those of the nodes 1..Len(k).                               *)
LEMMA KeysAre ==
  ASSUME NEW k \in Seq(Int)
  PROVE  Len(k) \in Nat /\ k \in [1..Len(k) -> Int] /\ NULL \notin 1..Len(k) /\ IsFiniteSet(1..Len(k))
BY LenProperties, FS_Interval DEF NULL

(* The links of the list in the order in which it is given.                 *)
LEMMA CountedLinks ==
  ASSUME NEW n \in Nat, NEW m \in Memory(1..n, 1..n), NEW h, NEW w \in Orders(n),
         \A i \in 1..n : w[i] = i,
         \A i \in 1..n : /\ m.next[i] = IF i = n THEN NULL ELSE i + 1
                        /\ m.prev[i] = i - 1,
         h = IF n = 0 THEN NULL ELSE 1
  PROVE  Linked(m, h, w)
<1>1. w \in Seq(1..n) /\ Len(w) = n /\ Once(w) /\ DOMAIN w = 1..n
  BY OrderIs
<1>2. (w = <<>> <=> n = 0) /\ (n # 0 => 1 \in 1..n)
  BY <1>1, EmptySeq
<1>3. h = IF w = <<>> THEN NULL ELSE w[1]
  BY <1>2
<1>4. \A i \in 1..n : m.next[w[i]] = IF i = n THEN NULL ELSE w[i + 1]
  OBVIOUS
<1>5. \A i \in 1..n : m.prev[w[i]] = IF i = 1 THEN NULL ELSE w[i - 1]
  BY DEF NULL
<1>6. DOMAIN m.next = 1..n
  BY DEF Memory
<1> QED BY <1>1, <1>3, <1>4, <1>5, <1>6 DEF Linked

(* At the call, a list in the order of its nodes.                           *)
LEMMA CallFinds ==
  ASSUME NEW k \in Seq(Int), NEW m, NEW h,
         m = [next |-> [n \in 1..Len(k) |-> IF n = Len(k) THEN NULL ELSE n + 1],
              prev |-> [n \in 1..Len(k) |-> n - 1],
              data |-> [n \in 1..Len(k) |-> n]],
         h = IF Len(k) = 0 THEN NULL ELSE 1
  PROVE  /\ m \in Memory(1..Len(k), 1..Len(k))
         /\ \E w : Whole(k, m, h, w) /\ RunsFrom(Key(k, w), 1, 0)
<1> DEFINE n == Len(k)
           w == [i \in 1..n |-> i]
<1>1. n \in Nat /\ k \in [1..n -> Int] /\ NULL = 0
  BY KeysAre DEF NULL
<1>2. m \in Memory(1..n, 1..n)
  <2> HIDE DEF n
  <2>1. /\ m = [next |-> m.next, prev |-> m.prev, data |-> m.data]
        /\ m.next = [i \in 1..n |-> IF i = n THEN NULL ELSE i + 1]
        /\ m.prev = [i \in 1..n |-> i - 1] /\ m.data = [i \in 1..n |-> i]
    BY DEF n
  <2>2. m.next \in [1..n -> (1..n) \cup {NULL}]
    BY <1>1, <2>1
  <2>3. m.prev \in [1..n -> (1..n) \cup {NULL}] /\ m.data \in [1..n -> 1..n]
    BY <1>1, <2>1
  <2> QED BY <2>1, <2>2, <2>3 DEF Memory
<1> HIDE DEF n
<1>3. w \in [1..n -> 1..n] /\ \A i \in 1..n : w[i] = i
  OBVIOUS
<1> HIDE DEF w
<1>4. w \in Orders(n)
  BY <1>3 DEF Orders, Once
<1>5. Stable(k, w)
  BY <1>3 DEF Stable
<1>6. RunsFrom(Key(k, w), 1, 0)
  <2>1. Key(k, w) \in [1..n -> Int]
    BY <1>1, <1>4, KeyIs
  <2>2. ASSUME NEW z \in Mult(1) PROVE Rising(Key(k, w), z, z + 1)
    <3> DEFINE f == Key(k, w)
               y == z + 1
    <3>1. z \in Int /\ y \in Int /\ y <= z + 1 /\ f \in [1..n -> Int]
      BY <2>1 DEF Mult
    <3> HIDE DEF f, y
    <3>2. Rising(f, z, y)
      BY <1>1, <3>1, RisingNone
    <3> QED BY <3>2 DEF f, y
  <2> QED BY <2>2 DEF RunsFrom
<1>7. Linked(m, h, w)
  <2>1. m.next = [i \in 1..n |-> IF i = n THEN NULL ELSE i + 1] /\ m.prev = [i \in 1..n |-> i - 1]
        /\ h = IF n = 0 THEN NULL ELSE 1
    BY DEF n
  <2>2. \A i \in 1..n : /\ m.next[i] = IF i = n THEN NULL ELSE i + 1
                        /\ m.prev[i] = i - 1
    BY <2>1
  <2> QED BY <1>1, <1>2, <1>3, <1>4, <2>1, <2>2, CountedLinks
<1> QED BY <1>2, <1>4, <1>5, <1>6, <1>7 DEF Whole, n

(* A list of at most one node is sorted.                                    *)
LEMMA ShortRises ==
  ASSUME NEW k \in Seq(Int), NEW m \in Memory(1..Len(k), 1..Len(k)), NEW h, NEW w, Whole(k, m, h, w)
  PROVE  /\ h = NULL <=> Len(k) = 0
         /\ h # NULL => h \in 1..Len(k) /\ (m.next[h] = NULL <=> Len(k) = 1)
         /\ Len(k) <= 1 => Rising(Key(k, w), 0, Len(k))
<1> DEFINE n == Len(k)
           N == 1..n
<1>1. n \in Nat /\ k \in [1..n -> Int] /\ NULL \notin N /\ m \in Memory(N, N) /\ w \in Orders(n)
  BY KeysAre DEF Whole
<1>2. Len(w) = n
  BY <1>1, OrderIs
<1>3. /\ h = NULL <=> n = 0
      /\ h = IF n = 0 THEN NULL ELSE w[1]
      /\ \A i \in 1..n : /\ w[i] \in N /\ w[i] # NULL
                         /\ m.next[w[i]] = IF i = n THEN NULL ELSE w[i + 1]
  <2> HIDE DEF N
  <2>1. m \in Memory(N, N) /\ NULL \notin N /\ Linked(m, h, w)
    BY <1>1 DEF Whole
  <2> QED BY <1>2, <2>1, LinkedIs
<1> HIDE DEF n
<1>4. h # NULL => h \in 1..n /\ (m.next[h] = NULL <=> n = 1)
  <2> SUFFICES ASSUME h # NULL PROVE h \in 1..n /\ (m.next[h] = NULL <=> n = 1)
    OBVIOUS
  <2>1. 1 \in 1..n /\ h = w[1]
    BY <1>1, <1>3
  <2>2. n # 1 => 2 \in 1..n
    BY <1>1, <2>1
  <2> QED BY <1>3, <2>1, <2>2
<1>5. n <= 1 => Rising(Key(k, w), 0, n)
  BY <1>1, KeyIs, RisingNone
<1> QED BY <1>3, <1>4, <1>5 DEF n

(* A pass starts with nothing in the output.                                *)
LEMMA PassStarts ==
  ASSUME NEW k \in Seq(Int), NEW m \in Memory(1..Len(k), 1..Len(k)), NEW h, NEW w, Whole(k, m, h, w),
         NEW s \in Nat \ {0}, RunsFrom(Key(k, w), s, 0)
  PROVE  AtSplit(k, m, NULL, NULL, h, s, 0, w, 0)
<1> DEFINE n == Len(k)
<1>1. n \in Nat /\ w \in Orders(n) /\ Stable(k, w) /\ Linked(m, h, w)
  BY KeysAre DEF Whole
<1>2. Output(m, w, NULL, NULL, 0) /\ Remaining(m, w, 0, n, h)
  BY <1>1, PassTakes
<1> HIDE DEF n
<1>3. 0 \in Mult(2 * s) /\ 2 * s \in Nat
  BY EvenMultiples, Multiples
<1>4. RunsTo(Key(k, w), 2 * s, 0)
  BY EvenMultiples, Multiples DEF RunsTo
<1>5. Halfway(Key(k, w), s, n, 0, 0)
  BY <1>1, <1>3, <1>4 DEF Halfway
<1> QED BY <1>1, <1>2, <1>5 DEF AtSplit, n

(* ta_list_sort takes the first run from what remains of the list.          *)
Splits(k, m, h, t, pp, s, nm, w, o) ==
  LET c == Chain(m, pp)
      ps == IF Len(c) > s THEN s ELSE Len(c)
      qq == IF Len(c) > s THEN c[s + 1] ELSE NULL
  IN  /\ AtMerge(k, m, h, t, pp, qq, ps, s, s, nm + 1, w, o, o)
      /\ ps \in 0..Len(k) /\ nm + 1 \in 0..Len(k) /\ qq \in (1..Len(k)) \cup {NULL}

LEMMA SplitLeads ==
  ASSUME NEW k \in Seq(Int), NEW m \in Memory(1..Len(k), 1..Len(k)),
         NEW h, NEW t, NEW pp, NEW s \in Nat \ {0}, NEW nm, NEW w, NEW o \in 0..Len(k),
         AtSplit(k, m, h, t, pp, s, nm, w, o), pp # NULL
  PROVE  Splits(k, m, h, t, pp, s, nm, w, o)
<1> DEFINE c == Chain(m, pp)
           ps == IF Len(c) > s THEN s ELSE Len(c)
           qq == IF Len(c) > s THEN c[s + 1] ELSE NULL
<1>a. /\ c = Chain(m, pp) /\ ps = IF Len(c) > s THEN s ELSE Len(c)
      /\ qq = IF Len(c) > s THEN c[s + 1] ELSE NULL
  OBVIOUS
<1> HIDE DEF c, ps, qq
<1> DEFINE n == Len(k)
           f == Key(k, w)
           mid == o + ps
<1>1. /\ n \in Nat /\ w \in Orders(n) /\ Stable(k, w) /\ f \in [1..n -> Int]
      /\ Output(m, w, h, t, o) /\ Remaining(m, w, o, n, pp) /\ Halfway(f, s, n, o, nm)
      /\ o \in 0..n /\ m \in Memory(1..n, 1..n)
  BY KeysAre, KeyIs DEF AtSplit
<1> HIDE DEF n, f
<1>2. c = Part(w, o, n)
  BY <1>a, <1>1, RemainingWalk
<1>3. /\ Len(c) = n - o /\ \A i \in 1..n - o : c[i] = w[o + i] /\ o + i \in 1..n
  <2>1. n \in o..n
    BY <1>1
  <2>2. /\ Len(Part(w, o, n)) = n - o
        /\ \A i \in 1..n - o : Part(w, o, n)[i] = w[o + i] /\ o + i \in 1..n
    BY <1>1, <2>1, PartIs DEF IsPart
  <2> QED BY <1>2, <2>2
<1>4. o < n /\ pp = w[o + 1]
  <2>1. o # n /\ pp = w[o + 1]
    BY <1>1 DEF Remaining
  <2> QED BY <1>1, <2>1
<1>5. /\ mid = IF n - o > s THEN o + s ELSE n
      /\ mid \in o + 1..n /\ ps \in 0..n
      /\ qq = IF mid = n THEN NULL ELSE w[mid + 1]
  <2>1. CASE n - o > s
    <3>1. s + 1 \in 1..n - o /\ o + (s + 1) = o + s + 1
      BY <1>1, <2>1
    <3> QED BY <1>a, <1>1, <1>3, <2>1, <3>1 DEF mid
  <2>2. CASE ~(n - o > s)
    BY <1>a, <1>1, <1>3, <1>4, <2>2 DEF mid
  <2> QED BY <2>1, <2>2
<1>6. mid \in Nat /\ mid <= n /\ o \in Nat
  BY <1>1, <1>5
<1> HIDE DEF mid
<1>7. Merging(f, s, n, o, o, mid, s, nm + 1)
  BY <1>1, <1>4, <1>5, MergingStarts
<1>8. /\ \A i \in 1..n : w[i] \in 1..n
      /\ \A i \in o + 1..n : m.next[w[i]] = IF i = n THEN NULL ELSE w[i + 1]
  BY <1>1, OrderIs DEF Remaining
<1>9. FirstRun(m, w, o, mid, pp)
  <2>1. \A i \in o + 1..mid : i < mid => i \in o + 1..n /\ i # n
    BY <1>1, <1>6
  <2> QED BY <1>4, <1>8, <2>1 DEF FirstRun
<1>10. Remaining(m, w, mid, n, qq)
  <2>1. \A i \in mid + 1..n : i \in o + 1..n
    BY <1>5, <1>6
  <2> QED BY <1>5, <1>8, <2>1 DEF Remaining
<1>11. qq \in (1..n) \cup {NULL}
  <2>1. mid # n => mid + 1 \in 1..n
    BY <1>1, <1>6
  <2> QED BY <1>5, <1>8, <2>1
<1>12. nm + 1 \in 0..n
  BY <1>1, <1>4 DEF Halfway
<1>13. /\ AtMerge(k, m, h, t, pp, qq, ps, s, s, nm + 1, w, o, o)
       /\ ps \in 0..Len(k) /\ nm + 1 \in 0..Len(k) /\ qq \in (1..Len(k)) \cup {NULL}
  BY <1>1, <1>5, <1>7, <1>9, <1>10, <1>11, <1>12 DEF AtMerge, mid, n, f
<1> QED BY <1>13 DEF Splits, c, ps, qq

(* What a merge knows of its pointers.                                      *)
MergeKnows(k, h, t, pp, qq, ps, w, o) ==
  /\ Len(k) \in Nat /\ w \in Orders(Len(k)) /\ Key(k, w) \in [1..Len(k) -> Int]
  /\ o + ps <= Len(k)
  /\ t \in (1..Len(k)) \cup {NULL} /\ h \in (1..Len(k)) \cup {NULL}
  /\ ps > 0 => /\ o + 1 \in 1..Len(k) /\ pp = w[o + 1] /\ pp \in 1..Len(k)
               /\ Key(k, w)[o + 1] = k[pp]
  /\ qq = NULL <=> o + ps = Len(k)
  /\ qq # NULL => /\ o + ps + 1 \in 1..Len(k) /\ qq = w[o + ps + 1] /\ qq \in 1..Len(k)
                  /\ Key(k, w)[o + ps + 1] = k[qq]

LEMMA MergeIs ==
  ASSUME NEW k \in Seq(Int), NEW m \in Memory(1..Len(k), 1..Len(k)),
         NEW h, NEW t, NEW pp, NEW qq, NEW ps \in Nat, NEW qs \in Nat,
         NEW s \in Nat \ {0}, NEW nm, NEW w, NEW o \in 0..Len(k), NEW l,
         AtMerge(k, m, h, t, pp, qq, ps, qs, s, nm, w, o, l)
  PROVE  MergeKnows(k, h, t, pp, qq, ps, w, o)
<1> DEFINE n == Len(k)
           f == Key(k, w)
<1>1. /\ n \in Nat /\ w \in Orders(n) /\ f \in [1..n -> Int]
      /\ \A i \in 1..n : f[i] = k[w[i]]
      /\ \A i \in 1..n : w[i] \in 1..n /\ w[i] # NULL
      /\ o \in 0..n
  <2>1. n \in Nat /\ k \in [1..n -> Int] /\ w \in Orders(n) /\ o \in 0..n
    BY KeysAre DEF AtMerge
  <2> HIDE DEF n
  <2>2. f \in [1..n -> Int] /\ \A i \in 1..n : f[i] = k[w[i]]
    BY <2>1, KeyIs, SMTT(30)
  <2>3. \A i \in 1..n : w[i] \in 1..n /\ w[i] # NULL
    BY <2>1, OrderIs
  <2> QED BY <2>1, <2>2, <2>3
<1>2. Output(m, w, h, t, o) /\ FirstRun(m, w, o, o + ps, pp) /\ Remaining(m, w, o + ps, n, qq)
      /\ Merging(f, s, n, l, o, o + ps, qs, nm)
  BY DEF AtMerge
<1> HIDE DEF n, f
<1>3. o + ps <= n
  BY <1>1, <1>2, MergingIs
<1>4. t \in (1..n) \cup {NULL} /\ h \in (1..n) \cup {NULL}
  <2>1. o # 0 => 1 \in 1..n /\ o \in 1..n
    BY <1>1
  <2> QED BY <1>1, <1>2, <2>1 DEF Output
<1>5. ps > 0 => o + 1 \in 1..n /\ pp = w[o + 1]
  <2>1. ps > 0 => o + 1 \in 1..n /\ o < o + ps
    BY <1>1, <1>3
  <2> QED BY <1>2, <2>1 DEF FirstRun
<1>6. qq = IF o + ps = n THEN NULL ELSE w[o + ps + 1]
  BY <1>2 DEF Remaining
<1>7. o + ps # n => o + ps + 1 \in 1..n
  BY <1>1, <1>3
<1>8. qq = NULL <=> o + ps = n
  BY <1>1, <1>6, <1>7
<1> QED BY <1>1, <1>3, <1>4, <1>5, <1>6, <1>7, <1>8 DEF n, f, MergeKnows

(* The first run's next node goes to the output.                            *)
LEMMA FirstLeads ==
  ASSUME NEW k \in Seq(Int), NEW m \in Memory(1..Len(k), 1..Len(k)),
         NEW h, NEW t, NEW pp, NEW qq, NEW ps \in Nat, NEW qs \in Nat,
         NEW s \in Nat \ {0}, NEW nm, NEW w, NEW o \in 0..Len(k), NEW l,
         AtMerge(k, m, h, t, pp, qq, ps, qs, s, nm, w, o, l),
         ps > 0, ~(qs > 0 /\ qq # NULL /\ k[pp] > k[qq])
  PROVE  LET m2 == Linking(m, t, pp) IN
         /\ m2 \in Memory(1..Len(k), 1..Len(k)) /\ m2.data = m.data /\ o + 1 \in 0..Len(k)
         /\ AtMerge(k, m2, IF t = NULL THEN pp ELSE h, pp, m.next[pp], qq, ps - 1, qs,
                    s, nm, w, o + 1, l)
<1> DEFINE n == Len(k)
           f == Key(k, w)
           m2 == Linking(m, t, pp)
           h2 == IF t = NULL THEN pp ELSE h
           mid == o + ps
<1>1. /\ n \in Nat /\ w \in Orders(n) /\ f \in [1..n -> Int] /\ mid <= n
      /\ o + 1 \in 1..n /\ pp = w[o + 1] /\ pp \in 1..n /\ f[o + 1] = k[pp]
      /\ qq = NULL <=> mid = n
      /\ qq # NULL => mid + 1 \in 1..n /\ f[mid + 1] = k[qq]
  <2>1. MergeKnows(k, h, t, pp, qq, ps, w, o)
    BY MergeIs
  <2> QED BY <2>1 DEF MergeKnows
<1>2. /\ Stable(k, w) /\ Output(m, w, h, t, o) /\ FirstRun(m, w, o, mid, pp)
      /\ Remaining(m, w, mid, n, qq) /\ Merging(f, s, n, l, o, mid, qs, nm)
      /\ m \in Memory(1..n, 1..n)
  BY DEF AtMerge
<1> HIDE DEF n, f
<1>3. o \in 0..n - 1 /\ o + 1 \in 0..n /\ mid \in Nat /\ o < mid /\ ps - 1 \in Nat
      /\ o + 1 + (ps - 1) = mid
  BY <1>1
<1> HIDE DEF mid
<1>4. /\ m2 \in Memory(1..n, 1..n) /\ m2.data = m.data
      /\ Output(m2, w, h2, pp, o + 1)
      /\ \A i \in o + 1..n : m2.next[w[i]] = m.next[w[i]]
  <2>1. Grows(n, m, h, t, o, w)
    BY <1>1, <1>2, <1>3, OutputGrows
  <2> QED BY <1>1, <2>1, Zenon DEF Grows
<1> HIDE DEF m2, h2
<1>5. Merging(f, s, n, l, o + 1, mid, qs, nm)
  <2>1. qs = 0 \/ mid = n \/ f[o + 1] <= f[mid + 1]
    BY <1>1
  <2> QED BY <1>1, <1>2, <1>3, <2>1, MergingFirst
<1>6. FirstRun(m2, w, o + 1, mid, m.next[pp])
  <2>1. o + 1 < mid => o + 1 \in o + 1..mid
    BY <1>3
  <2>2. \A i \in o + 1 + 1..mid : i \in o + 1..mid /\ i \in o + 1..n
    BY <1>1, <1>3
  <2> QED BY <1>1, <1>2, <1>4, <2>1, <2>2 DEF FirstRun
<1>7. Remaining(m2, w, mid, n, qq)
  <2>1. \A i \in mid + 1..n : i \in o + 1..n
    BY <1>1, <1>3
  <2> QED BY <1>2, <1>4, <2>1 DEF Remaining
<1>8. AtMerge(k, m2, h2, pp, m.next[pp], qq, ps - 1, qs, s, nm, w, o + 1, l)
  BY <1>1, <1>2, <1>3, <1>4, <1>5, <1>6, <1>7 DEF AtMerge, n, f
<1> QED BY <1>3, <1>4, <1>8 DEF m2, h2, n

(* The second run's next node goes to the output, before the rest of the    *)
(* first.                                                                   *)
LEMMA SecondLeads ==
  ASSUME NEW k \in Seq(Int), NEW m \in Memory(1..Len(k), 1..Len(k)),
         NEW h, NEW t, NEW pp, NEW qq, NEW ps \in Nat, NEW qs \in Nat,
         NEW s \in Nat \ {0}, NEW nm, NEW w, NEW o \in 0..Len(k), NEW l,
         AtMerge(k, m, h, t, pp, qq, ps, qs, s, nm, w, o, l),
         qs > 0, qq # NULL, ps = 0 \/ k[pp] > k[qq]
  PROVE  LET m2 == Linking(m, t, qq) IN
         /\ m2 \in Memory(1..Len(k), 1..Len(k)) /\ m2.data = m.data /\ o + 1 \in 0..Len(k)
         /\ AtMerge(k, m2, IF t = NULL THEN qq ELSE h, qq, pp, m.next[qq], ps, qs - 1,
                    s, nm, Moved(w, o, o + ps), o + 1, l)
<1> DEFINE n == Len(k)
           f == Key(k, w)
           m2 == Linking(m, t, qq)
           h2 == IF t = NULL THEN qq ELSE h
           mid == o + ps
           v == Moved(w, o, mid)
           g == Key(k, v)
<1>1. /\ n \in Nat /\ w \in Orders(n) /\ f \in [1..n -> Int] /\ mid <= n
      /\ mid + 1 \in 1..n /\ qq = w[mid + 1] /\ f[mid + 1] = k[qq]
      /\ ps > 0 => o + 1 \in 1..n /\ f[o + 1] = k[pp]
  <2>1. MergeKnows(k, h, t, pp, qq, ps, w, o)
    BY MergeIs
  <2> QED BY <2>1 DEF MergeKnows
<1>2. /\ Stable(k, w) /\ Output(m, w, h, t, o) /\ FirstRun(m, w, o, mid, pp)
      /\ Remaining(m, w, mid, n, qq) /\ Merging(f, s, n, l, o, mid, qs, nm)
      /\ m \in Memory(1..n, 1..n) /\ k \in [1..n -> Int]
  BY KeysAre DEF AtMerge
<1>3. /\ n \in Nat /\ o \in 0..n - 1 /\ o + 1 \in 0..n /\ mid \in Nat /\ o <= mid /\ mid < n
      /\ o \in Nat /\ o + 1 + ps = mid + 1 /\ (ps = 0 <=> o = mid)
  <2>1. o \in 0..n /\ n \in Nat /\ mid + 1 \in 1..n
    BY <1>1
  <2> HIDE DEF n
  <2> QED BY <2>1
<1>4. o = mid \/ f[mid + 1] < f[o + 1]
  <2> HIDE DEF n, mid, f
  <2>1. ps = 0 \/ (f[o + 1] = k[pp] /\ k[pp] > k[qq])
    BY <1>1
  <2> QED BY <1>1, <1>3, <2>1
<1> HIDE DEF n, mid
<1>5. v \in Orders(n) /\ \A i \in 1..n : v[i] = w[Origin(o, mid, i)]
  <2>1. v \in Orders(n)
    BY <1>1, <1>3, MovedIs
  <2>2. \A i \in 1..n : v[i] = w[Origin(o, mid, i)]
    BY <1>1, <1>3, MovedAt
  <2> QED BY <2>1, <2>2
<1>6. g \in [1..n -> Int] /\ Shifts(f, g, o, mid)
  BY <1>1, <1>2, <1>3, <1>5, KeyIs, MovedKeys
<1>7. Stable(k, v)
  <2>1. Rising(Key(k, w), o, mid)
    BY <1>2 DEF Merging
  <2> QED BY <1>1, <1>2, <1>3, <1>4, <2>1, MovedStable
<1> HIDE DEF v, f, g
<1>8. /\ \A i \in 1..o : i \in 1..n /\ v[i] = w[i]
      /\ v[o + 1] = qq
      /\ \A i \in o + 1..mid : i \in 1..n /\ v[i + 1] = w[i]
      /\ \A i \in mid + 2..n : i \in 1..n /\ v[i] = w[i]
  <2>1. /\ \A i \in 1..o : i \in 1..n /\ Origin(o, mid, i) = i
        /\ o + 1 \in 1..n /\ Origin(o, mid, o + 1) = mid + 1
        /\ \A i \in o + 1..mid : i \in 1..n /\ i + 1 \in 1..n /\ Origin(o, mid, i + 1) = i
        /\ \A i \in mid + 2..n : i \in 1..n /\ Origin(o, mid, i) = i
    BY <1>3 DEF Origin
  <2> QED BY <1>1, <1>5, <2>1
<1>9. /\ m2 \in Memory(1..n, 1..n) /\ m2.data = m.data
      /\ Output(m2, v, h2, qq, o + 1)
      /\ \A i \in o + 1..n : m2.next[v[i]] = m.next[v[i]]
  <2>1. \A i \in 1..o : v[i] = w[i]
    BY <1>8
  <2>2. Grows(n, m, h, t, o, v)
    BY <1>1, <1>2, <1>3, <1>5, <2>1, OutputGrows
  <2> QED BY <1>8, <2>2, Zenon DEF Grows
<1> HIDE DEF m2, h2
<1>10. Merging(g, s, n, l, o + 1, mid + 1, qs - 1, nm)
  BY <1>1, <1>2, <1>3, <1>4, <1>6, MergingSecond
<1>11. FirstRun(m2, v, o + 1, mid + 1, pp)
  <2>1. o < mid => o + 1 \in o + 1..mid
    BY <1>3
  <2>2. o + 1 < mid + 1 => pp = v[o + 1 + 1]
    BY <1>2, <1>3, <1>8, <2>1 DEF FirstRun
  <2>3. ASSUME NEW i \in o + 1 + 1..mid + 1, i < mid + 1 PROVE m2.next[v[i]] = v[i + 1]
    <3>1. i \in o + 1..n /\ i - 1 \in o + 1..mid /\ i - 1 < mid /\ i \in o + 1..mid
          /\ i - 1 + 1 = i
      BY <1>3, <2>3
    <3>a. v[i] = v[i - 1 + 1]
      BY <3>1
    <3>2. m.next[w[i - 1]] = w[i]
      BY <1>2, <3>1 DEF FirstRun
    <3>3. v[i - 1 + 1] = w[i - 1] /\ v[i + 1] = w[i]
      BY <1>8, <3>1
    <3> QED BY <1>9, <3>a, <3>1, <3>2, <3>3
  <2> QED BY <2>2, <2>3 DEF FirstRun
<1>12. Remaining(m2, v, mid + 1, n, m.next[qq])
  <2>1. \A i \in mid + 1..n : m.next[w[i]] = IF i = n THEN NULL ELSE w[i + 1]
    BY <1>2 DEF Remaining
  <2>2. m.next[qq] = IF mid + 1 = n THEN NULL ELSE v[mid + 1 + 1]
    <3>1. mid + 1 \in mid + 1..n /\ (mid + 1 # n => mid + 2 \in mid + 2..n)
          /\ mid + 1 + 1 = mid + 2
      BY <1>3
    <3>2. qq = w[mid + 1]
      BY <1>2, <1>3 DEF Remaining
    <3>3. CASE mid + 1 = n
      BY <2>1, <3>1, <3>2, <3>3
    <3>4. CASE mid + 1 # n
      <4>1. v[mid + 2] = w[mid + 2]
        BY <1>8, <3>1, <3>4
      <4> QED BY <2>1, <3>1, <3>2, <3>4, <4>1
    <3> QED BY <3>3, <3>4
  <2>3. ASSUME NEW i \in mid + 1 + 1..n PROVE m2.next[v[i]] = IF i = n THEN NULL ELSE v[i + 1]
    <3>1. i \in o + 1..n /\ i \in mid + 1..n /\ i \in mid + 2..n
          /\ (i # n => i + 1 \in mid + 2..n)
      BY <1>3
    <3>2. m2.next[v[i]] = m.next[v[i]] /\ v[i] = w[i]
      BY <1>8, <1>9, <3>1
    <3>3. i # n => v[i + 1] = w[i + 1]
      BY <1>8, <3>1
    <3> QED BY <2>1, <3>1, <3>2, <3>3
  <2> QED BY <2>2, <2>3 DEF Remaining
<1>13. AtMerge(k, m2, h2, qq, pp, m.next[qq], ps, qs - 1, s, nm, v, o + 1, l)
  BY <1>3, <1>5, <1>7, <1>9, <1>10, <1>11, <1>12 DEF AtMerge, n, g
<1> QED BY <1>3, <1>9, <1>13 DEF m2, h2, v, mid, n

(* Both runs are used up.                                                   *)
LEMMA MergedLeads ==
  ASSUME NEW k \in Seq(Int), NEW m \in Memory(1..Len(k), 1..Len(k)),
         NEW h, NEW t, NEW pp, NEW qq, NEW qs \in Nat,
         NEW s \in Nat \ {0}, NEW nm, NEW w, NEW o \in 0..Len(k), NEW l,
         AtMerge(k, m, h, t, pp, qq, 0, qs, s, nm, w, o, l), qs = 0 \/ qq = NULL
  PROVE  AtSplit(k, m, h, t, qq, s, nm, w, o)
<1> DEFINE n == Len(k)
           f == Key(k, w)
<1>0. o + 0 = o
  OBVIOUS
<1>1. /\ n \in Nat /\ w \in Orders(n) /\ f \in [1..n -> Int] /\ (qq = NULL => o = n)
  <2>1. MergeKnows(k, h, t, pp, qq, 0, w, o)
    BY MergeIs
  <2> QED BY <1>0, <2>1 DEF MergeKnows
<1>2. /\ Stable(k, w) /\ Output(m, w, h, t, o)
      /\ Remaining(m, w, o, n, qq) /\ Merging(f, s, n, l, o, o, qs, nm)
  BY <1>0 DEF AtMerge
<1> HIDE DEF n, f
<1>3. Halfway(f, s, n, o, nm)
  BY <1>1, <1>2, MergingEnds
<1> QED BY <1>1, <1>2, <1>3 DEF AtSplit, n, f

(* The pass is over: the list is whole again, and either it is sorted or    *)
(* its runs are twice as long.                                              *)
LEMMA EndLeads ==
  ASSUME NEW k \in Seq(Int), NEW m \in Memory(1..Len(k), 1..Len(k)), Len(k) > 0,
         NEW h, NEW t, NEW s \in Nat \ {0}, NEW nm, NEW w, NEW o \in 0..Len(k),
         AtSplit(k, m, h, t, NULL, s, nm, w, o)
  PROVE  LET m2 == Ending(m, t) IN
         /\ m2 \in Memory(1..Len(k), 1..Len(k)) /\ m2.data = m.data
         /\ Whole(k, m2, h, w)
         /\ nm <= 1 => Rising(Key(k, w), 0, Len(k))
         /\ RunsFrom(Key(k, w), 2 * s, 0)
<1> DEFINE n == Len(k)
           f == Key(k, w)
           m2 == Ending(m, t)
<1>1. /\ n \in Nat \ {0} /\ w \in Orders(n) /\ k \in [1..n -> Int] /\ m \in Memory(1..n, 1..n)
      /\ o \in 0..n /\ Stable(k, w)
      /\ Output(m, w, h, t, o) /\ Remaining(m, w, o, n, NULL) /\ Halfway(f, s, n, o, nm)
  BY KeysAre DEF AtSplit
<1> HIDE DEF n
<1>2. f \in [1..n -> Int]
  BY <1>1, KeyIs
<1> HIDE DEF f
<1>3. o = n
  <2>1. o # n => o + 1 \in 1..n
    BY <1>1
  <2>a. \A i \in 1..n : w[i] # NULL
    BY <1>1, OrderIs
  <2>2. o # n => w[o + 1] # NULL
    BY <2>1, <2>a
  <2> QED BY <1>1, <2>2 DEF Remaining
<1>4. m2 \in Memory(1..n, 1..n) /\ m2.data = m.data /\ Linked(m2, h, w)
  <2>1. Output(m, w, h, t, n)
    BY <1>1, <1>3
  <2> QED BY <1>1, <2>1, OutputEnds
<1> HIDE DEF m2
<1>5. Halfway(f, s, n, n, nm)
  BY <1>1, <1>3
<1>6. nm <= 1 => Rising(f, 0, n)
  BY <1>1, <1>2, <1>5, LastPassRises
<1>7. RunsFrom(f, 2 * s, 0)
  BY <1>1, <1>2, <1>5, PassDoubles
<1> QED BY <1>1, <1>4, <1>6, <1>7 DEF Whole, m2, f, n
-----------------------------------------------------------------------------
(* What the sort's properties say of an order.                              *)
LEMMA FirstPart ==
  ASSUME NEW n \in Nat, NEW w \in Orders(n), NEW o \in 0..n
  PROVE  /\ Part(w, 0, o) \in Seq(1..n) /\ Len(Part(w, 0, o)) = o /\ Once(Part(w, 0, o))
         /\ \A i \in 1..o : Part(w, 0, o)[i] = w[i] /\ i \in 1..n
<1>1. PICK z \in 0..n : z = 0
  OBVIOUS
<1>2. o \in z..n /\ o - z = o /\ \A i \in 1..o : z + i = i
  BY <1>1
<1>3. /\ Part(w, z, o) \in Seq(1..n) /\ Len(Part(w, z, o)) = o - z /\ Once(Part(w, z, o))
      /\ \A i \in 1..o - z : Part(w, z, o)[i] = w[z + i] /\ z + i \in 1..n
  <2>1. IsPart(w, z, o, n)
    BY <1>2, PartIs
  <2> QED BY <2>1 DEF IsPart
<1>4. /\ Part(w, z, o) \in Seq(1..n) /\ Len(Part(w, z, o)) = o /\ Once(Part(w, z, o))
      /\ \A i \in 1..o : Part(w, z, o)[i] = w[i] /\ i \in 1..n
  BY <1>2, <1>3
<1> QED BY <1>1, <1>4

(* The output, walked back from its tail.                                   *)
LEMMA OutputWalk ==
  ASSUME NEW n \in Nat, NEW m \in Memory(1..n, 1..n), NEW w \in Orders(n), NEW o \in 0..n,
         NEW h, NEW t, Output(m, w, h, t, o)
  PROVE  Walk(m.prev, t) = Backwards(Part(w, 0, o))
<1> DEFINE a == Part(w, 0, o)
           c == Backwards(a)
<1>1. IsFiniteSet(1..n) /\ NULL \notin 1..n /\ m.prev \in [1..n -> (1..n) \cup {NULL}]
  BY FS_Interval DEF Memory, NULL
<1>2. /\ a \in Seq(1..n) /\ Len(a) = o /\ Once(a) /\ o \in Nat
      /\ \A i \in 1..o : a[i] = w[i] /\ i \in 1..n
  <2>1. a \in Seq(1..n) /\ Len(a) = o /\ Once(a)
    BY FirstPart
  <2>2. \A i \in 1..o : a[i] = w[i] /\ i \in 1..n
    BY FirstPart
  <2>3. o \in Nat
    OBVIOUS
  <2> QED BY <2>1, <2>2, <2>3
<1> HIDE DEF a
<1>3. c \in Seq(1..n) /\ Len(c) = o /\ Once(c) /\ (c = <<>> <=> o = 0)
  <2>1. c \in Seq(1..n) /\ Len(c) = o /\ Once(c)
    BY <1>2, BackwardsIs
  <2> HIDE DEF c
  <2> QED BY <2>1, EmptySeq
<1>4. \A i \in 1..o : o + 1 - i \in 1..o /\ c[i] = w[o + 1 - i]
  <2>1. \A i \in 1..o : o + 1 - i \in 1..o
    BY <1>2
  <2> QED BY <1>2, <2>1 DEF Backwards
<1> HIDE DEF c
<1>5. /\ t = IF o = 0 THEN NULL ELSE w[o]
      /\ \A i \in 1..o : m.prev[w[i]] = IF i = 1 THEN NULL ELSE w[i - 1]
  BY DEF Output
<1>6. \A i \in 1..n : w[i] \in 1..n
  BY OrderIs
<1>7. t \in (1..n) \cup {NULL}
  <2>1. o # 0 => o \in 1..n
    BY <1>2
  <2> QED BY <1>5, <1>6, <2>1
<1>8. Leads(m.prev, t, c)
  <2>1. c # <<>> => t = c[1]
    <3>1. o # 0 => 1 \in 1..o /\ o + 1 - 1 = o
      BY <1>2
    <3> QED BY <1>3, <1>4, <1>5, <3>1
  <2>2. ASSUME NEW i \in 1..Len(c) - 1 PROVE m.prev[c[i]] = c[i + 1]
    <3>1. i \in 1..o /\ i + 1 \in 1..o /\ o + 1 - i \in 1..o /\ o + 1 - i # 1
          /\ o + 1 - i - 1 = o + 1 - (i + 1)
      BY <1>2, <1>3
    <3> DEFINE j == o + 1 - i
    <3>2. c[i] = w[j] /\ c[i + 1] = w[j - 1]
      BY <1>4, <3>1
    <3>3. j \in 1..o /\ j # 1
      BY <3>1
    <3> HIDE DEF j
    <3> QED BY <1>5, <3>2, <3>3
  <2> QED BY <2>1, <2>2 DEF Leads
<1>9. IF c = <<>> THEN t = NULL ELSE m.prev[c[Len(c)]] = NULL
  <2>1. o # 0 => o \in 1..o /\ o + 1 - o = 1 /\ 1 \in 1..o
    BY <1>2
  <2> QED BY <1>3, <1>4, <1>5, <2>1
<1>10. Walk(m.prev, t) = c
  BY <1>1, <1>3, <1>7, <1>8, <1>9, WalkVisits
<1> QED BY <1>10 DEF c, a

(* The first run, as far as it is long.                                     *)
LEMMA FirstRunWalk ==
  ASSUME NEW n \in Nat, NEW m \in Memory(1..n, 1..n), NEW w \in Orders(n), NEW o \in 0..n,
         NEW mid \in o..n, NEW h \in (1..n) \cup {NULL}, FirstRun(m, w, o, mid, h)
  PROVE  SubSeq(Chain(m, h), 1, mid - o) = Part(w, o, mid)
<1> DEFINE c == Part(w, o, mid)
           L == mid - o
<1>1. IsFiniteSet(1..n) /\ NULL \notin 1..n /\ m.next \in [1..n -> (1..n) \cup {NULL}]
  BY FS_Interval DEF Memory, NULL
<1>2. /\ c \in Seq(1..n) /\ Len(c) = L /\ Once(c)
      /\ \A i \in 1..L : c[i] = w[o + i] /\ o + i \in 1..n
      /\ c = <<>> <=> mid = o
  BY PartIs DEF IsPart
<1> HIDE DEF c
<1>3. L \in Nat /\ (mid # o => o < mid /\ 1 \in 1..L)
  OBVIOUS
<1>4. Leads(m.next, h, c)
  <2>1. c # <<>> => h = c[1]
    BY <1>2, <1>3 DEF FirstRun
  <2>2. ASSUME NEW i \in 1..Len(c) - 1 PROVE m.next[c[i]] = c[i + 1]
    <3>1. i \in 1..L /\ i + 1 \in 1..L /\ o + i \in o + 1..mid /\ o + i < mid
          /\ o + (i + 1) = o + i + 1
      BY <1>2, <1>3
    <3>2. m.next[w[o + i]] = w[o + i + 1]
      BY <3>1 DEF FirstRun
    <3> QED BY <1>2, <3>1, <3>2
  <2> QED BY <2>1, <2>2 DEF Leads
<1>5. SubSeq(Walk(m.next, h), 1, Len(c)) = c
  <2> DEFINE N == 1..n
             link == m.next
  <2>1. IsFiniteSet(N) /\ NULL \notin N /\ link \in [N -> N \cup {NULL}] /\ h \in N \cup {NULL}
        /\ c \in Seq(N) /\ Once(c) /\ Leads(link, h, c)
    BY <1>1, <1>2, <1>4
  <2> HIDE DEF N, link
  <2>2. Begins(N, Walk(link, h), c)
    BY <2>1, WalkBegins
  <2> QED BY <2>2 DEF link, Begins
<1> QED BY <1>2, <1>5 DEF Chain, c

(* The merged nodes, the first run and the rest are all the nodes.          *)
AllOf(parts, n) == Len(parts) = n /\ {parts[i] : i \in DOMAIN parts} = 1..n

LEMMA PartsKept ==
  ASSUME NEW n \in Nat, NEW w \in Orders(n), NEW o \in 0..n, NEW mid \in o..n
  PROVE  AllOf(Backwards(Part(w, 0, o)) \o Part(w, o, mid) \o Part(w, mid, n), n)
<1> DEFINE parts == Backwards(Part(w, 0, o)) \o Part(w, o, mid) \o Part(w, mid, n)
<1>a. parts = Backwards(Part(w, 0, o)) \o Part(w, o, mid) \o Part(w, mid, n)
  OBVIOUS
<1> HIDE DEF parts
<1> DEFINE a == Part(w, 0, o)
           b == Part(w, o, mid)
           c == Part(w, mid, n)
           r == Backwards(a)
<1>0. o \in Nat /\ mid \in Nat /\ o <= mid /\ mid <= n
  OBVIOUS
<1>1. /\ a \in Seq(1..n) /\ Len(a) = o
      /\ \A i \in 1..o : a[i] = w[i]
  BY FirstPart
<1>2. b \in Seq(1..n) /\ Len(b) = mid - o /\ \A i \in 1..mid - o : b[i] = w[o + i]
  <2>1. IsPart(w, o, mid, n)
    BY PartIs
  <2> QED BY <2>1 DEF IsPart
<1>3. c \in Seq(1..n) /\ Len(c) = n - mid /\ \A i \in 1..n - mid : c[i] = w[mid + i]
  <2>1. mid \in 0..n /\ n \in mid..n
    OBVIOUS
  <2>2. IsPart(w, mid, n, n)
    BY <2>1, PartIs
  <2> QED BY <2>2 DEF IsPart
<1> HIDE DEF a, b, c
<1>4. r \in Seq(1..n) /\ Len(r) = o /\ \A i \in 1..o : r[i] = a[o + 1 - i]
  BY <1>1, BackwardsIs DEF Backwards
<1> HIDE DEF r
<1>5. /\ r \o b \in Seq(1..n) /\ Len(r \o b) = mid
      /\ \A i \in 1..mid : (r \o b)[i] = IF i <= o THEN r[i] ELSE b[i - o]
  <2>1. /\ r \o b \in Seq(1..n) /\ Len(r \o b) = Len(r) + Len(b)
        /\ \A i \in 1..Len(r) + Len(b) : (r \o b)[i] = IF i <= Len(r) THEN r[i] ELSE b[i - Len(r)]
    BY <1>2, <1>4, ConcatProperties, ZenonT(40)
  <2>2. Len(r) + Len(b) = mid /\ Len(r) = o
    BY <1>0, <1>2, <1>4
  <2> QED BY <2>1, <2>2
<1>6. /\ parts \in Seq(1..n) /\ Len(parts) = n
      /\ \A i \in 1..n : parts[i] = IF i <= mid THEN (r \o b)[i] ELSE c[i - mid]
  <2>1. parts = (r \o b) \o c
    BY <1>a DEF r, a, b, c
  <2> DEFINE rb == r \o b
  <2>2. rb \in Seq(1..n) /\ Len(rb) = mid /\ mid + (n - mid) = n
    BY <1>0, <1>5
  <2> HIDE DEF rb
  <2>3. /\ rb \o c \in Seq(1..n) /\ Len(rb \o c) = n
        /\ \A i \in 1..n : (rb \o c)[i] = IF i <= mid THEN rb[i] ELSE c[i - mid]
    <3>1. /\ rb \o c \in Seq(1..n) /\ Len(rb \o c) = Len(rb) + Len(c)
          /\ \A i \in 1..Len(rb) + Len(c) :
               (rb \o c)[i] = IF i <= Len(rb) THEN rb[i] ELSE c[i - Len(rb)]
      BY <1>3, <2>2, ConcatProperties
    <3>2. Len(rb) + Len(c) = n
      BY <1>3, <2>2
    <3> QED BY <2>2, <3>1, <3>2
  <2> QED BY <2>1, <2>3, Zenon DEF rb
<1>7. \A i \in 1..n : parts[i] \in 1..n
  BY <1>6, LenProperties
<1>8. ASSUME NEW x \in 1..n PROVE \E j \in 1..n : parts[j] = x
  <2>1. PICK i \in 1..n : w[i] = x
    BY OrderIs
  <2>2. CASE i <= o
    <3> DEFINE j == o + 1 - i
    <3>1. i \in 1..o /\ j \in 1..o /\ o + 1 - j = i /\ j \in 1..mid /\ j \in 1..n /\ j <= o /\ j <= mid
      BY <1>0, <2>2
    <3> HIDE DEF j
    <3>2. parts[j] = r[j]
      BY <1>5, <1>6, <3>1
    <3> QED BY <1>1, <1>4, <2>1, <3>1, <3>2
  <2>3. CASE o < i /\ i <= mid
    <3>1. i \in 1..mid /\ i - o \in 1..mid - o /\ o + (i - o) = i /\ ~(i <= o)
      BY <1>0, <2>3
    <3> QED BY <1>2, <1>5, <1>6, <2>1, <2>3, <3>1
  <2>4. CASE mid < i
    <3> DEFINE j == i - mid
    <3>1. j \in 1..n - mid /\ mid + j = i /\ ~(i <= mid)
      BY <1>0, <2>4
    <3>2. parts[i] = c[j]
      BY <1>6, <3>1
    <3> HIDE DEF j
    <3> QED BY <1>3, <2>1, <3>1, <3>2
  <2>5. i \in Nat
    OBVIOUS
  <2>6. i <= o \/ (o < i /\ i <= mid) \/ mid < i
    BY <1>0, <2>5
  <2> QED BY <2>2, <2>3, <2>4, <2>6
<1>9. DOMAIN parts = 1..n
  BY <1>6
<1>10. Len(parts) = n /\ {parts[i] : i \in DOMAIN parts} = 1..n
  BY <1>6, <1>7, <1>8, <1>9
<1> QED BY <1>10 DEF AllOf, parts
-----------------------------------------------------------------------------
(* The weights added up: W[j] is the sum of the first j.                    *)
Adds(k, s, c, n, W) ==
  W = [j \in 0..n |-> IF j = 0 THEN 0 ELSE W[j - 1] + (k[c[j]] % s)]

(* There is such a function, by induction over n, so that CHOOSE finds it;  *)
(* for a list of nodes its values are the sums.                             *)
LEMMA AddsExists ==
  ASSUME NEW k, NEW s, NEW c, NEW n \in Nat
  PROVE  \E W : Adds(k, s, c, n, W)
<1> DEFINE Ok == {x \in Nat : \E W : Adds(k, s, c, x, W)}
           e(j) == k[c[j]] % s
<1>1. 0 \in Ok
  <2> DEFINE W == [j \in 0..0 |-> 0]
  <2>1. W = [j \in 0..0 |-> IF j = 0 THEN 0 ELSE W[j - 1] + e(j)]
    <3>1. \A j \in 0..0 : j = 0
      OBVIOUS
    <3> QED BY <3>1
  <2>2. Adds(k, s, c, 0, W)
    BY <2>1 DEF Adds
  <2> QED BY <2>2
<1>2. ASSUME NEW x \in Ok PROVE x + 1 \in Ok
  <2>1. x \in Nat
    OBVIOUS
  <2>2. PICK W : Adds(k, s, c, x, W)
    OBVIOUS
  <2> DEFINE V == [j \in 0..x + 1 |-> IF j <= x THEN W[j] ELSE W[x] + e(x + 1)]
  <2>3. \A j \in 0..x : W[j] = IF j = 0 THEN 0 ELSE W[j - 1] + e(j)
    BY <2>2 DEF Adds
  <2>4. /\ \A j \in 0..x : V[j] = W[j]
        /\ V[x + 1] = W[x] + e(x + 1)
        /\ V = [j \in 0..x + 1 |-> V[j]]
    BY <2>1
  <2> HIDE DEF V, e
  <2>5. ASSUME NEW j \in 0..x + 1 PROVE V[j] = IF j = 0 THEN 0 ELSE V[j - 1] + e(j)
    <3>1. CASE j \in 0..x
      <4>1. j # 0 => j - 1 \in 0..x
        BY <2>1, <3>1
      <4> QED BY <2>3, <2>4, <3>1, <4>1
    <3>2. CASE j = x + 1
      <4>1. j # 0 /\ j - 1 = x /\ x \in 0..x
        BY <2>1, <3>2
      <4> QED BY <2>4, <3>2, <4>1
    <3> QED BY <2>1, <3>1, <3>2
  <2>6. Adds(k, s, c, x + 1, V)
    BY <2>4, <2>5 DEF Adds, e
  <2> QED BY <2>1, <2>6
<1>3. Ok = Nat
  <2> HIDE DEF Ok
  <2>1. Ok \in SUBSET Nat
    BY DEF Ok
  <2> QED BY <1>1, <1>2, <2>1, Induction
<1> QED BY <1>3

WeightsOf(k, s, c) == CHOOSE W : Adds(k, s, c, Len(c), W)

LEMMA WeightsAre ==
  ASSUME NEW c, NEW i
  PROVE  Weights(c, i) = WeightsOf(key, Scale, c)[i]
BY Zenon DEF Weights, Weight, WeightsOf, Adds

Weighs(k, s, c, W) ==
  /\ W[0] = 0
  /\ \A j \in 1..Len(c) : W[j] = W[j - 1] + (k[c[j]] % s) /\ k[c[j]] % s \in Nat
  /\ \A j \in 0..Len(c) : W[j] \in Nat

LEMMA WeightsOfIs ==
  ASSUME NEW N, NEW k \in [N -> Int], NEW s \in Nat \ {0}, NEW c \in Seq(N)
  PROVE  Weighs(k, s, c, WeightsOf(k, s, c))
<1> DEFINE W == WeightsOf(k, s, c)
           L == Len(c)
           e(j) == k[c[j]] % s
<1>1. L \in Nat /\ \A j \in 1..L : c[j] \in N /\ k[c[j]] \in Int /\ e(j) \in Nat
  BY LenProperties
<1>2. Adds(k, s, c, L, W)
  <2>1. \E V : Adds(k, s, c, L, V)
    BY <1>1, AddsExists
  <2> QED BY <2>1, Zenon DEF WeightsOf
<1> HIDE DEF W
<1>3. \A j \in 0..L : W[j] = IF j = 0 THEN 0 ELSE W[j - 1] + e(j)
  BY <1>2 DEF Adds
<1> HIDE DEF L, e
<1>4. W[0] = 0 /\ \A j \in 1..L : W[j] = W[j - 1] + e(j)
  <2>1. 0 \in 0..L /\ \A j \in 1..L : j \in 0..L /\ j # 0
    BY <1>1
  <2> QED BY <1>3, <2>1
<1> DEFINE Ok == {x \in Nat : x <= L => W[x] \in Nat}
<1>5. 0 \in Ok
  BY <1>4
<1>6. ASSUME NEW x \in Ok PROVE x + 1 \in Ok
  <2> SUFFICES ASSUME x + 1 <= L PROVE W[x + 1] \in Nat
    OBVIOUS
  <2>1. x + 1 \in 1..L /\ x <= L /\ x + 1 - 1 = x
    BY <1>1
  <2>2. W[x + 1] = W[x] + e(x + 1) /\ e(x + 1) \in Nat /\ W[x] \in Nat
    BY <1>1, <1>4, <2>1
  <2> QED BY <2>2
<1>7. Ok = Nat
  <2> HIDE DEF Ok
  <2>1. Ok \in SUBSET Nat
    BY DEF Ok
  <2> QED BY <1>5, <1>6, <2>1, Induction
<1>8. \A j \in 0..L : W[j] \in Nat
  <2>1. \A j \in 0..L : j \in Nat /\ j <= L
    BY <1>1
  <2> QED BY <1>7, <2>1
<1> QED BY <1>1, <1>4, <1>8 DEF Weighs, W, L, e

(* The weights of the first j without those of the i-th.                    *)
WeighsWithout(k, s, c, i, j) ==
  LET W == WeightsOf(k, s, c)
      V == WeightsOf(k, s, Without(c, i))
  IN  /\ j < i => V[j] = W[j]
      /\ i <= j + 1 => V[j] = W[j + 1] - (k[c[i]] % s)

LEMMA WeightsWithout ==
  ASSUME NEW N, NEW k \in [N -> Int], NEW s \in Nat \ {0}, NEW c \in Seq(N), Once(c),
         NEW i \in 1..Len(c), NEW j \in 0..Len(c) - 1
  PROVE  WeighsWithout(k, s, c, i, j)
<1> DEFINE W == WeightsOf(k, s, c)
           d == Without(c, i)
           V == WeightsOf(k, s, d)
           L == Len(c)
           e(x) == k[c[x]] % s
           g(x) == k[d[x]] % s
<1>1. /\ L \in Nat /\ i \in 1..L /\ j \in Nat /\ j <= L - 1 /\ i \in Nat
      /\ d \in Seq(N) /\ Len(d) = L - 1
      /\ \A x \in 1..L - 1 : d[x] = IF x < i THEN c[x] ELSE c[x + 1]
  <2>1. d \in Seq(N) /\ Len(d) = L - 1
    BY WithoutIs
  <2>2. \A x \in 1..L - 1 : d[x] = IF x < i THEN c[x] ELSE c[x + 1]
    BY DEF Without
  <2>3. L \in Nat
    BY LenProperties
  <2> HIDE DEF L, d
  <2>4. j \in Nat /\ j <= L - 1 /\ i \in Nat /\ i \in 1..L
    BY <2>3 DEF L
  <2> QED BY <2>1, <2>2, <2>3, <2>4 DEF L, d
<1>2. /\ W[0] = 0 /\ \A x \in 1..L : W[x] = W[x - 1] + e(x) /\ e(x) \in Nat
      /\ \A x \in 0..L : W[x] \in Nat
  <2>1. Weighs(k, s, c, W)
    BY WeightsOfIs
  <2> QED BY <2>1 DEF Weighs
<1> HIDE DEF d
<1>3. /\ V[0] = 0 /\ \A x \in 1..L - 1 : V[x] = V[x - 1] + g(x)
  <2>1. Weighs(k, s, d, V)
    BY <1>1, WeightsOfIs
  <2> QED BY <1>1, <2>1 DEF Weighs
<1>4. \A x \in 1..L - 1 : g(x) = IF x < i THEN e(x) ELSE e(x + 1)
  BY <1>1
<1> HIDE DEF W, V, L, e, g
<1> DEFINE At(x) == V[x] = IF x < i THEN W[x] ELSE W[x + 1] - e(i)
           Ok == {x \in Nat : x <= L - 1 => At(x)}
<1>5. 0 \in Ok
  <2>1. V[0] = 0 /\ W[0] = 0 /\ 0 < i
    BY <1>1, <1>2, <1>3
  <2> QED BY <2>1
<1>6. ASSUME NEW x \in Ok PROVE x + 1 \in Ok
  <2> SUFFICES ASSUME x + 1 <= L - 1 PROVE At(x + 1)
    OBVIOUS
  <2> DEFINE y == x + 1
             z == x + 2
  <2>1. /\ x \in Nat /\ y \in 1..L - 1 /\ y \in 1..L /\ z \in 1..L /\ x <= L - 1
        /\ y - 1 = x /\ z - 1 = y /\ y + 1 = z /\ x + 1 = y
        /\ x \in 0..L /\ y \in 0..L /\ z \in 0..L /\ y \in Nat /\ z \in Nat
        /\ x < y /\ y < z
    BY <1>1
  <2> HIDE DEF y, z
  <2>2. V[y] = V[x] + g(y)
    BY <1>3, <2>1
  <2>a. V[x] = IF x < i THEN W[x] ELSE W[y] - e(i)
    BY <2>1
  <2>3. W[y] = W[x] + e(y) /\ W[z] = W[y] + e(z)
    BY <1>2, <2>1
  <2>4. g(y) = IF y < i THEN e(y) ELSE e(z)
    BY <1>4, <2>1
  <2>5. W[x] \in Nat /\ W[y] \in Nat /\ e(i) \in Nat /\ e(y) \in Nat /\ e(z) \in Nat
    BY <1>1, <1>2, <2>1
  <2>6. V[y] = IF y < i THEN W[y] ELSE W[z] - e(i)
    <3>1. CASE y < i
      <4>1. x < i
        BY <1>1, <2>1, <3>1
      <4>2. V[x] = W[x] /\ g(y) = e(y)
        BY <2>a, <2>4, <3>1, <4>1
      <4> QED BY <2>2, <2>3, <3>1, <4>2
    <3>2. CASE y = i
      <4>a. x < i /\ ~(y < i)
        BY <1>1, <2>1, <3>2
      <4>1. V[x] = W[x] /\ g(y) = e(z) /\ e(y) = e(i)
        BY <2>a, <2>4, <3>2, <4>a
      <4>2. W[z] - e(i) = W[x] + e(z)
        <5> DEFINE a == W[x]
                   b == e(i)
                   h == e(z)
        <5>1. a \in Nat /\ b \in Nat /\ h \in Nat /\ W[z] = a + b + h
          BY <2>3, <2>5, <4>1
        <5> HIDE DEF a, b, h
        <5>2. (a + b + h) - b = a + h
          BY <5>1
        <5> QED BY <5>1, <5>2 DEF a, b, h
      <4> QED BY <2>2, <4>a, <4>1, <4>2
    <3>3. CASE i < y
      <4>a. ~(x < i) /\ ~(y < i)
        BY <1>1, <2>1, <3>3
      <4>1. V[x] = W[y] - e(i) /\ g(y) = e(z)
        BY <2>a, <2>4, <4>a
      <4>2. W[z] - e(i) = W[y] - e(i) + e(z)
        <5> DEFINE a == W[y]
                   b == e(i)
                   h == e(z)
        <5>1. a \in Nat /\ b \in Nat /\ h \in Nat /\ W[z] = a + h
          BY <2>3, <2>5
        <5> HIDE DEF a, b, h
        <5>2. (a + h) - b = (a - b) + h
          BY <5>1
        <5> QED BY <5>1, <5>2 DEF a, b, h
      <4> QED BY <2>2, <4>a, <4>1, <4>2
    <3> QED BY <1>1, <2>1, <3>1, <3>2, <3>3
  <2> QED BY <2>1, <2>6
<1>7. Ok = Nat
  <2> HIDE DEF Ok
  <2>1. Ok \in SUBSET Nat
    BY DEF Ok
  <2> QED BY <1>5, <1>6, <2>1, Induction
<1>8. At(j)
  BY <1>1, <1>7
<1>9. ASSUME i <= j + 1 PROVE V[j] = W[j + 1] - e(i)
  <2>1. CASE j < i
    <3>1. j + 1 = i /\ j \in 0..L /\ i - 1 = j
      BY <1>1, <1>9, <2>1
    <3>2. W[i] = W[j] + e(i) /\ W[j] \in Nat /\ e(i) \in Nat /\ W[j + 1] = W[i]
      BY <1>1, <1>2, <3>1
    <3>3. V[j] = W[j]
      BY <1>8, <2>1
    <3> QED BY <3>2, <3>3
  <2>2. CASE ~(j < i)
    BY <1>8, <2>2
  <2> QED BY <2>1, <2>2
<1> QED BY <1>8, <1>9 DEF WeighsWithout, V, W, e, d
-----------------------------------------------------------------------------
(* A priority, as SrvSelect takes it from a key.                            *)
Prio(k, s, x) == k[x] \div s

(* The first i nodes of c are those of its first priority; c rises by       *)
(* priority; and the places of d that a node has taken before one of an     *)
(* earlier priority, in d or in c.                                          *)
LevelEnds(k, s, c, i) ==
  /\ i \in 1..Len(c)
  /\ \A j \in 1..i : Prio(k, s, c[j]) = Prio(k, s, c[1])
  /\ i < Len(c) => Prio(k, s, c[i + 1]) # Prio(k, s, c[1])
Ascends(k, s, c) == \A i, j \in 1..Len(c) : i < j => Prio(k, s, c[i]) <= Prio(k, s, c[j])
EarlyOf(k, s, d, c) == {i \in 1..Len(d) :
  \/ \E j \in i + 1..Len(d) : Prio(k, s, d[j]) < Prio(k, s, d[i])
  \/ \E j \in 1..Len(c) : Prio(k, s, c[j]) < Prio(k, s, d[i])}

(* A larger key has no smaller priority.                                    *)
LEMMA PrioRises ==
  ASSUME NEW s \in Nat \ {0}, NEW a \in Int, NEW b \in Int, a <= b
  PROVE  a \div s \in Int /\ b \div s \in Int /\ a \div s <= b \div s
<1>1. /\ a \div s \in Int /\ a = s * (a \div s) + (a % s) /\ a % s \in 0..s - 1
      /\ b \div s \in Int /\ b = s * (b \div s) + (b % s) /\ b % s \in 0..s - 1
  OBVIOUS
<1> DEFINE x == a \div s
           y == b \div s
           u == a % s
           v == b % s
<1>2. x \in Int /\ y \in Int /\ u \in 0..s - 1 /\ v \in 0..s - 1 /\ a = s * x + u /\ b = s * y + v
  BY <1>1
<1> HIDE DEF x, y, u, v
<1>3. s * (x - y) = (a - u) - (b - v) /\ x - y \in Int
  BY <1>2
<1>4. CASE x - y >= 1
  <2>1. s * (x - y) >= s
    BY <1>3, <1>4
  <2> QED BY <1>2, <1>3, <2>1
<1>5. x <= y
  BY <1>2, <1>4
<1> QED BY <1>2, <1>5 DEF x, y

(* A list that is not empty has one level that is the first.                *)
LEMMA LevelExists ==
  ASSUME NEW N, NEW c \in Seq(N), c # <<>>, NEW k, NEW s
  PROVE  \E i \in DOMAIN c : LevelEnds(k, s, c, i)
<1> DEFINE L == Len(c)
           P(i) == Prio(k, s, c[i])
           H == {i \in 1..L : i = L \/ P(i + 1) # P(1)}
<1>1. L \in Nat /\ L # 0 /\ DOMAIN c = 1..L
  BY LenProperties, EmptySeq
<1>2. H \in SUBSET Nat /\ H # {}
  <2>1. L \in H
    BY <1>1
  <2> QED BY <2>1
<1>3. PICK i \in H : \A j \in H : i <= j
  <2> HIDE DEF H
  <2> QED BY <1>2, LeastOf
<1> HIDE DEF P, L
<1>4. i \in 1..L /\ i \in Nat /\ i <= L /\ (i < L => P(i + 1) # P(1))
  <2>1. i \in 1..L /\ (i = L \/ P(i + 1) # P(1))
    BY <1>3
  <2> QED BY <1>1, <2>1
<1>5. ASSUME NEW j \in 1..i PROVE P(j) = P(1)
  <2>1. CASE j = 1
    BY <2>1
  <2>2. CASE j # 1
    <3>1. j - 1 \in 1..L /\ j - 1 < i /\ j - 1 # L /\ j - 1 + 1 = j
      BY <1>1, <1>4, <2>2
    <3>2. j - 1 \notin H
      BY <1>3, <3>1, <1>4
    <3>3. P(j - 1 + 1) = P(1)
      BY <3>1, <3>2
    <3> QED BY <3>1, <3>3
  <2> QED BY <2>1, <2>2
<1>6. LevelEnds(k, s, c, i)
  BY <1>4, <1>5 DEF LevelEnds, P, L
<1> QED BY <1>1, <1>4, <1>6

LEMMA LevelUnique ==
  ASSUME NEW c, Len(c) \in Nat, NEW k, NEW s, NEW i, NEW j, LevelEnds(k, s, c, i), LevelEnds(k, s, c, j)
  PROVE  i = j
<1>1. ASSUME NEW x, NEW y, LevelEnds(k, s, c, x), LevelEnds(k, s, c, y), x < y PROVE FALSE
  <2>1. x \in 1..Len(c) /\ y \in 1..Len(c)
    BY <1>1 DEF LevelEnds
  <2>2. x < Len(c) /\ x + 1 \in 1..y
    BY <1>1, <2>1
  <2> QED BY <1>1, <2>2 DEF LevelEnds
<1>2. i \in 1..Len(c) /\ j \in 1..Len(c)
  BY DEF LevelEnds
<1>3. ~(i < j) /\ ~(j < i)
  BY <1>1
<1> QED BY <1>2, <1>3

(* What is sorted by key is sorted by priority.                             *)
LEMMA SortedAscends ==
  ASSUME NEW n \in Nat, NEW k \in [1..n -> Int], NEW s \in Nat \ {0}, NEW w \in Orders(n),
         Rising(Key(k, w), 0, n)
  PROVE  Ascends(k, s, w)
<1>1. Len(w) = n
  BY OrderIs
<1>2. DOMAIN Key(k, w) = 1..n /\ \A i \in 1..n : Key(k, w)[i] = k[w[i]] /\ k[w[i]] \in Int
  BY KeyIs
<1> SUFFICES ASSUME NEW i \in 1..n, NEW j \in 1..n, i < j
             PROVE  Prio(k, s, w[i]) <= Prio(k, s, w[j])
  BY <1>1 DEF Ascends
<1>3. 0 < i /\ j <= n
  OBVIOUS
<1>4. Key(k, w)[i] <= Key(k, w)[j]
  BY <1>2, <1>3 DEF Rising
<1> QED BY <1>2, <1>4, PrioRises DEF Prio

(* The i-th of c is drawn, n being the end of c's first level.              *)
LEMMA LevelsKept ==
  ASSUME NEW N, NEW c \in Seq(N), NEW d \in Seq(N), Once(c), NEW k \in [N -> Int], NEW s \in Nat \ {0},
         Ascends(k, s, c), NEW n, LevelEnds(k, s, c, n), NEW i \in 1..Len(c)
  PROVE  /\ Ascends(k, s, Without(c, i))
         /\ i <= n /\ n - 1 > 0 => LevelEnds(k, s, Without(c, i), n - 1)
         /\ n < i => LevelEnds(k, s, Without(c, i), n)
         /\ EarlyOf(k, s, With(d, Len(d) + 1, c[i]), Without(c, i))
              \subseteq EarlyOf(k, s, d, c) \cup {Len(d) + 1}
         /\ i <= n => EarlyOf(k, s, With(d, Len(d) + 1, c[i]), Without(c, i))
                        \subseteq EarlyOf(k, s, d, c)
<1> DEFINE L == Len(c)
           M == Len(d)
           c2 == Without(c, i)
           d2 == With(d, M + 1, c[i])
           P(x) == Prio(k, s, x)
<1>1. /\ L \in Nat /\ n \in 1..L /\ i \in 1..L /\ i \in Nat /\ n \in Nat /\ n <= L /\ i <= L
      /\ \A x \in 1..L : c[x] \in N
      /\ M \in Nat /\ \A x \in 1..M : d[x] \in N
  BY LenProperties DEF LevelEnds
<1>2. \A x \in N : P(x) \in Int
  <2>1. \A x \in N : k[x] \in Int /\ k[x] <= k[x]
    OBVIOUS
  <2> QED BY <2>1, PrioRises DEF Prio
<1>3. Len(c2) = L - 1 /\ \A x \in 1..L - 1 : c2[x] = IF x < i THEN c[x] ELSE c[x + 1]
  BY <1>1, WithoutIs DEF Without
<1>4. Len(d2) = M + 1 /\ \A x \in 1..M + 1 : d2[x] = IF x < M + 1 THEN d[x] ELSE c[i]
  <2> DEFINE x == c[i]
             j == Len(d) + 1
  <2>1. j \in 1..Len(d) + 1 /\ x \in N
    BY <1>1
  <2> HIDE DEF x, j
  <2>a. Len(With(d, j, x)) = Len(d) + 1
    BY <2>1, WithIs
  <2>2. Len(d2) = M + 1
    BY <2>a DEF x, j
  <2>3. \A y \in 1..M + 1 : d2[y] = IF y < M + 1 THEN d[y] ELSE c[i]
    BY <1>1, SMTT(30) DEF With
  <2> QED BY <2>2, <2>3
<1>5. \A x, y \in 1..L : x < y => P(c[x]) <= P(c[y])
  BY DEF Ascends
<1>6. /\ \A x \in 1..n : P(c[x]) = P(c[1])
      /\ n < L => P(c[n + 1]) # P(c[1])
  BY DEF LevelEnds
<1> DEFINE E == EarlyOf(k, s, d, c)
           E2 == EarlyOf(k, s, d2, c2)
<1>a. /\ \A x \in E2 : /\ x \in 1..M + 1
                       /\ \/ \E y \in x + 1..M + 1 : P(d2[y]) < P(d2[x])
                          \/ \E y \in 1..L - 1 : P(c2[y]) < P(d2[x])
      /\ \A x \in 1..M : \/ \E y \in x + 1..M : P(d[y]) < P(d[x])
                         \/ \E y \in 1..L : P(c[y]) < P(d[x])
                         => x \in E
  BY <1>3, <1>4, Zenon DEF EarlyOf
<1> HIDE DEF c2, d2, P, L, M, E, E2
<1>b. L \in Nat /\ n \in Nat /\ n \in 1..L
  BY <1>1
<1>7. \A y \in 1..L : P(c[1]) <= P(c[y])
  <2>1. 1 \in 1..L /\ P(c[1]) \in Int
    BY <1>1, <1>2
  <2> SUFFICES ASSUME NEW y \in 1..L PROVE P(c[1]) <= P(c[y])
    OBVIOUS
  <2>2. y = 1 \/ 1 < y
    BY <1>1
  <2> QED BY <1>5, <2>1, <2>2
<1>8. \A x \in 1..L - 1 : \E z \in 1..L : c2[x] = c[z]
  <2> SUFFICES ASSUME NEW x \in 1..L - 1 PROVE \E z \in 1..L : c2[x] = c[z]
    OBVIOUS
  <2>1. x \in 1..L /\ x + 1 \in 1..L
    BY <1>b
  <2> QED BY <1>3, <2>1
<1>9. ASSUME NEW x \in 1..L - 1, NEW y \in 1..L - 1, x < y PROVE P(c2[x]) <= P(c2[y])
  <2>1. /\ x \in 1..L /\ x + 1 \in 1..L /\ y \in 1..L /\ y + 1 \in 1..L
        /\ x < y /\ x + 1 < y + 1 /\ x < y + 1
    BY <1>1, <1>9
  <2>2. x < i \/ ~(y < i)
    BY <1>1, <1>9
  <2> QED BY <1>3, <1>5, <2>1, <2>2
<1>10. ASSUME i <= n, n - 1 > 0 PROVE LevelEnds(k, s, c2, n - 1)
  <2>1. n - 1 \in 1..L - 1 /\ 1 \in 1..n - 1
    BY <1>1, <1>10
  <2>2. ASSUME NEW x \in 1..n - 1 PROVE P(c2[x]) = P(c[1])
    <3>1. x \in 1..L - 1 /\ x \in 1..n /\ x + 1 \in 1..n
      BY <1>1
    <3> QED BY <1>3, <1>6, <3>1
  <2>3. ASSUME n - 1 < L - 1 PROVE P(c2[n - 1 + 1]) # P(c[1])
    <3>1. n \in 1..L - 1 /\ ~(n < i) /\ n < L /\ n - 1 + 1 = n
      BY <1>1, <1>10, <2>3
    <3> QED BY <1>3, <1>6, <3>1
  <2>4. P(c2[1]) = P(c[1])
    BY <2>1, <2>2
  <2> QED BY <1>3, <2>1, <2>2, <2>3, <2>4 DEF LevelEnds, P
<1>11. ASSUME n < i PROVE LevelEnds(k, s, c2, n)
  <2>1. n \in 1..L - 1 /\ 1 \in 1..n /\ n < L
    BY <1>1, <1>11
  <2>2. ASSUME NEW x \in 1..n PROVE P(c2[x]) = P(c[1])
    <3>1. x \in 1..L - 1 /\ x < i
      BY <1>1, <1>11
    <3> QED BY <1>3, <1>6, <3>1
  <2>3. ASSUME n < L - 1 PROVE P(c2[n + 1]) # P(c[1])
    <3>1. n + 1 \in 1..L - 1 /\ n + 1 \in 1..L /\ n + 2 \in 1..L /\ n + 1 < n + 2 /\ 1 \in 1..L
          /\ n + 1 + 1 = n + 2
      BY <1>b, <2>3
    <3>2. /\ P(c[n + 1]) \in Int /\ P(c[n + 2]) \in Int /\ P(c[1]) \in Int
          /\ P(c[1]) <= P(c[n + 1]) /\ P(c[n + 1]) # P(c[1]) /\ P(c[n + 1]) <= P(c[n + 2])
      BY <1>1, <1>2, <1>5, <1>6, <1>7, <2>1, <3>1
    <3>3. P(c[n + 2]) # P(c[1])
      BY <3>2
    <3>4. c2[n + 1] = c[n + 1] \/ c2[n + 1] = c[n + 2]
      BY <1>3, <3>1
    <3> QED BY <3>2, <3>3, <3>4
  <2>4. P(c2[1]) = P(c[1])
    BY <2>1, <2>2
  <2> QED BY <1>3, <2>1, <2>2, <2>3, <2>4 DEF LevelEnds, P
<1>12. ASSUME NEW x \in E2, x # M + 1 PROVE x \in E
  <2>1. x \in 1..M /\ d2[x] = d[x]
    <3>1. x \in 1..M + 1
      BY <1>a
    <3> QED BY <1>1, <1>4, <1>12, <3>1
  <2>2. ASSUME NEW y \in x + 1..M + 1, P(d2[y]) < P(d2[x]) PROVE x \in E
    <3>1. CASE y = M + 1
      <4>1. y \in 1..M + 1 /\ ~(y < M + 1)
        BY <1>1, <3>1
      <4>2. d2[y] = c[i]
        BY <1>4, <4>1
      <4> QED BY <1>1, <1>a, <2>1, <2>2, <4>2
    <3>2. CASE y # M + 1
      <4>1. y \in 1..M + 1 /\ y < M + 1 /\ y \in x + 1..M
        BY <1>1, <2>1, <3>2
      <4>2. d2[y] = d[y]
        BY <1>4, <4>1
      <4> QED BY <1>a, <2>1, <2>2, <4>1, <4>2
    <3> QED BY <3>1, <3>2
  <2>3. ASSUME NEW y \in 1..L - 1, P(c2[y]) < P(d2[x]) PROVE x \in E
    <3>1. PICK z \in 1..L : c2[y] = c[z]
      BY <1>8
    <3> QED BY <1>a, <2>1, <2>3, <3>1
  <2> QED BY <1>a, <2>2, <2>3
<1>13. ASSUME i <= n, M + 1 \in E2 PROVE FALSE
  <2>1. M + 1 \in 1..M + 1 /\ ~(M + 1 < M + 1) /\ i \in 1..n /\ M + 1 + 1..M + 1 = {}
    BY <1>1, <1>13
  <2>2. d2[M + 1] = c[i] /\ P(c[i]) = P(c[1])
    BY <1>4, <1>6, <2>1
  <2>3. PICK y \in 1..L - 1 : P(c2[y]) < P(c[1])
    BY <1>a, <1>13, <2>1, <2>2
  <2>4. PICK z \in 1..L : c2[y] = c[z]
    BY <1>8
  <2>5. P(c[z]) < P(c[1]) /\ P(c[1]) <= P(c[z]) /\ P(c[z]) \in Int /\ P(c[1]) \in Int
    <3>1. 1 \in 1..L
      BY <1>1
    <3> QED BY <1>1, <1>2, <1>7, <2>3, <2>4, <3>1
  <2> QED BY <2>5
<1>14. E2 \subseteq E \cup {M + 1} /\ (i <= n => E2 \subseteq E)
  BY <1>12, <1>13
<1> QED BY <1>3, <1>9, <1>10, <1>11, <1>14 DEF Ascends, c2, d2, P, L, M, E, E2
-----------------------------------------------------------------------------
(* The draw: c is left on the list, d is drawn.                             *)
Drawing(k, m, h, ou, la, c, d) ==
  /\ Linked(m, h, c)
  /\ d \in Seq(1..Len(k)) /\ Once(d)
  /\ Of(c) \cap Of(d) = {} /\ Of(c) \cup Of(d) = 1..Len(k) /\ Len(c) + Len(d) = Len(k)
  /\ ou = IF d = <<>> THEN NULL ELSE d[1]
  /\ la = IF d = <<>> THEN NULL ELSE d[Len(d)]
  /\ Leads(m.next, ou, d)

(* The level that is drawn from ends at l, and no more than it has is       *)
(* counted; what is counted is all of it as long as nothing is overdrawn.   *)
Counted(k, s, c, l, nm, sm, od) ==
  /\ LevelEnds(k, s, c, l) /\ nm <= l /\ sm \in Int /\ sm <= WeightsOf(k, s, c)[l]
  /\ od = {} => nm = l /\ sm = WeightsOf(k, s, c)[l]

(* The order by priority of what is drawn, d, and what is left, c.          *)
Levels(k, s, c, d, nm, sm, od) ==
  /\ Ascends(k, s, c) /\ EarlyOf(k, s, d, c) \subseteq od
  /\ nm > 0 => \E l \in 1..Len(c) : Counted(k, s, c, l, nm, sm, od)

(* When the sort has returned nothing is drawn.                             *)
LEMMA DrawStarts ==
  ASSUME NEW k \in Seq(Int), NEW m, NEW h, NEW w, Whole(k, m, h, w)
  PROVE  Drawing(k, m, h, NULL, NULL, w, <<>>)
<1>1. Len(k) \in Nat /\ w \in Orders(Len(k)) /\ Linked(m, h, w)
  BY KeysAre DEF Whole
<1>2. Of(w) = 1..Len(k) /\ Len(w) = Len(k)
  BY <1>1, OrderIs
<1>3. <<>> \in Seq(1..Len(k)) /\ Len(<<>>) = 0 /\ DOMAIN <<>> = {}
  BY EmptySeq
<1>4. Once(<<>>) /\ Of(<<>>) = {}
  BY <1>3 DEF Once, Of
<1>5. Leads(m.next, NULL, <<>>)
  BY <1>3 DEF Leads
<1>6. Of(w) \cap Of(<<>>) = {} /\ Of(w) \cup Of(<<>>) = 1..Len(k) /\ Len(w) + Len(<<>>) = Len(k)
  BY <1>1, <1>2, <1>3, <1>4
<1> QED BY <1>1, <1>3, <1>4, <1>5, <1>6 DEF Drawing

(* What a draw knows of its pointers.                                       *)
DrawKnows(k, m, h, ou, la, c, d) ==
  /\ Len(k) \in Nat /\ c \in Seq(1..Len(k)) /\ Once(c) /\ Len(c) \in Nat /\ DOMAIN c = 1..Len(c)
  /\ \A i \in 1..Len(c) : c[i] \in 1..Len(k)
  /\ Len(d) \in Nat /\ DOMAIN d = 1..Len(d) /\ (d = <<>> <=> Len(d) = 0)
  /\ \A i \in 1..Len(d) : d[i] \in 1..Len(k)
  /\ h \in (1..Len(k)) \cup {NULL} /\ ou \in (1..Len(k)) \cup {NULL}
  /\ la \in (1..Len(k)) \cup {NULL}
  /\ (ou = NULL <=> Len(d) = 0) /\ (la = NULL <=> Len(d) = 0) /\ (h = NULL <=> Len(c) = 0)
  /\ Chain(m, h) = c

(* And any drawing is known so far.                                         *)
LEMMA DrawIs ==
  ASSUME NEW k \in Seq(Int), NEW m \in Memory(1..Len(k), 1..Len(k)), NEW h, NEW ou, NEW la,
         NEW c, NEW d, Drawing(k, m, h, ou, la, c, d)
  PROVE  DrawKnows(k, m, h, ou, la, c, d)
<1> DEFINE n == Len(k)
           N == 1..n
<1>1. n \in Nat /\ IsFiniteSet(N) /\ NULL \notin N /\ m \in Memory(N, N)
  BY KeysAre
<1>2. Linked(m, h, c) /\ d \in Seq(N)
  BY DEF Drawing
<1>3. /\ ou = IF d = <<>> THEN NULL ELSE d[1]
      /\ la = IF d = <<>> THEN NULL ELSE d[Len(d)]
  BY DEF Drawing
<1> HIDE DEF N
<1>4. /\ c \in Seq(N) /\ Once(c) /\ Len(c) \in Nat /\ DOMAIN c = 1..Len(c)
      /\ h = IF Len(c) = 0 THEN NULL ELSE c[1]
      /\ h = NULL <=> Len(c) = 0
      /\ \A i \in 1..Len(c) : c[i] \in N
  BY <1>1, <1>2, LinkedIs
<1>5. Chain(m, h) = c
  BY <1>1, <1>2, ChainIs
<1>6. h \in N \cup {NULL}
  <2>1. Len(c) # 0 => 1 \in 1..Len(c)
    BY <1>4
  <2> QED BY <1>4, <2>1
<1>7. /\ Len(d) \in Nat /\ DOMAIN d = 1..Len(d) /\ (d = <<>> <=> Len(d) = 0)
      /\ \A i \in 1..Len(d) : d[i] \in N
  BY <1>2, LenProperties, EmptySeq
<1>8. d # <<>> => 1 \in 1..Len(d) /\ Len(d) \in 1..Len(d)
  BY <1>7
<1>9. /\ ou \in N \cup {NULL} /\ (ou = NULL <=> Len(d) = 0)
      /\ la \in N \cup {NULL} /\ (la = NULL <=> Len(d) = 0)
  BY <1>1, <1>3, <1>7, <1>8
<1> QED BY <1>1, <1>4, <1>5, <1>6, <1>7, <1>9 DEF DrawKnows, N

(* The output begins with what has been drawn.                              *)
LEMMA DrawWalk ==
  ASSUME NEW k \in Seq(Int), NEW m \in Memory(1..Len(k), 1..Len(k)), NEW h, NEW ou, NEW la,
         NEW c, NEW d, Drawing(k, m, h, ou, la, c, d)
  PROVE  /\ Len(Chain(m, ou)) >= Len(k) - Len(c)
         /\ SubSeq(Chain(m, ou), 1, Len(k) - Len(c)) = d
         /\ ToSet(d \o c) = 1..Len(k)
<1> DEFINE n == Len(k)
           N == 1..n
           link == m.next
<1>1. n \in Nat /\ IsFiniteSet(N) /\ NULL \notin N /\ link \in [N -> N \cup {NULL}]
  BY KeysAre DEF Memory
<1>2. /\ d \in Seq(N) /\ Once(d) /\ Leads(link, ou, d) /\ Len(c) + Len(d) = n
      /\ Of(c) \cup Of(d) = N
  BY DEF Drawing
<1>3. /\ ou \in N \cup {NULL} /\ c \in Seq(N) /\ Len(c) \in Nat /\ DOMAIN c = 1..Len(c)
      /\ Len(d) \in Nat /\ DOMAIN d = 1..Len(d)
  BY DrawIs DEF DrawKnows
<1> HIDE DEF N, link, n
<1>4. Begins(N, Walk(link, ou), d)
  BY <1>1, <1>2, <1>3, WalkBegins
<1>5. n - Len(c) = Len(d)
  BY <1>1, <1>2, <1>3
<1>6. Len(Chain(m, ou)) >= n - Len(c) /\ SubSeq(Chain(m, ou), 1, n - Len(c)) = d
  BY <1>3, <1>4, <1>5 DEF Chain, Begins, link
<1>7. ToSet(d \o c) = N
  <2> DEFINE s == d \o c
             L == Len(d)
             M == Len(c)
  <2>1. /\ s \in Seq(N) /\ Len(s) = L + M
        /\ \A i \in 1..L + M : s[i] = IF i <= L THEN d[i] ELSE c[i - L]
    BY <1>2, <1>3, ConcatProperties
  <2> HIDE DEF s
  <2>2. DOMAIN s = 1..L + M /\ \A i \in 1..L + M : s[i] \in N
    BY <2>1, LenProperties
  <2>3. ASSUME NEW x \in N PROVE \E i \in DOMAIN s : s[i] = x
    <3>1. CASE x \in Of(d)
      <4>1. PICK i \in 1..L : d[i] = x
        BY <1>3, <3>1 DEF Of
      <4>2. i \in 1..L + M /\ i <= L
        BY <1>3
      <4> QED BY <2>1, <2>2, <4>1, <4>2
    <3>2. CASE x \in Of(c)
      <4>1. PICK i \in 1..M : c[i] = x
        BY <1>3, <3>2 DEF Of
      <4> DEFINE j == i + L
      <4>2. j \in 1..L + M /\ ~(j <= L) /\ j - L = i
        BY <1>3
      <4> HIDE DEF j
      <4>3. s[j] = c[i]
        BY <2>1, <4>2
      <4> QED BY <2>2, <4>1, <4>2, <4>3
    <3> QED BY <1>2, <3>1, <3>2
  <2>4. ToSet(s) = {s[i] : i \in DOMAIN s}
    BY DEF ToSet
  <2>5. {s[i] : i \in DOMAIN s} = N
    BY <2>2, <2>3
  <2> QED BY <2>4, <2>5 DEF s
<1> QED BY <1>6, <1>7 DEF n, N

(* ta_list_remove takes the i-th node off, whose data only it holds.        *)
Removed(m, h, c, i, n, r) ==
  /\ Makes(1..n, 1..n, m, r, Without(c, i), Of(c))
  /\ r.mem.data = m.data

LEMMA DrawRemoves ==
  ASSUME NEW n \in Nat, NEW m \in Memory(1..n, 1..n), m.data = [x \in 1..n |-> x],
         NEW h, NEW c, Linked(m, h, c), NEW i \in 1..Len(c),
         NEW r, r = RemoveData(m, h, m.data[c[i]])
  PROVE  Removed(m, h, c, i, n, r)
<1> DEFINE N == 1..n
           t == m.data[c[i]]
<1>1. IsFiniteSet(N) /\ NULL \notin N /\ m \in Memory(N, N)
  BY FS_Interval DEF NULL
<1>2. \A x \in N : m.data[x] = x
  OBVIOUS
<1> HIDE DEF N
<1>3. \A j \in 1..Len(c) : c[j] \in N
  BY <1>1, LinkedIs
<1>4. t = c[i] /\ Once(c) /\ DOMAIN c = 1..Len(c)
  <2>1. Once(c) /\ DOMAIN c = 1..Len(c)
    BY <1>1, LinkedIs
  <2> QED BY <1>2, <1>3, <2>1
<1> HIDE DEF t
<1>5. \/ r = List(m, h) /\ \A j \in 1..Len(c) : m.data[c[j]] # t
      \/ \E j \in 1..Len(c) : /\ FirstHeld(m, c, t, j)
                              /\ Makes(N, N, m, r, Without(c, j), Of(c))
                              /\ r.mem.data = m.data
  <2>1. FirstGone(N, N, m, h, c, t)
    BY <1>1, RemoveDataIs
  <2>2. r = RemoveData(m, h, t)
    BY DEF t
  <2> QED BY <2>1, <2>2 DEF FirstGone
<1>6. m.data[c[i]] = t
  BY DEF t
<1>7. PICK j \in 1..Len(c) : /\ FirstHeld(m, c, t, j)
                             /\ Makes(N, N, m, r, Without(c, j), Of(c))
                             /\ r.mem.data = m.data
  BY <1>5, <1>6
<1>8. j = i
  <2>1. m.data[c[j]] = c[i]
    BY <1>4, <1>7 DEF FirstHeld
  <2>2. c[j] = c[i]
    BY <1>2, <1>3, <2>1
  <2> QED BY <1>4, <2>2 DEF Once
<1> QED BY <1>7, <1>8 DEF Removed, N

(* The memory once t is hung behind la.                                     *)
Hung(m, la, t) == [m EXCEPT !.next[la] = t]

Hangs(N, D, m, la, t) ==
  LET m2 == Hung(m, la, t) IN
  /\ m2 \in Memory(N, D) /\ m2.prev = m.prev /\ m2.data = m.data
  /\ m2.next[la] = t /\ \A x \in N : x # la => m2.next[x] = m.next[x]

(* A node hung behind the last one drawn.                                   *)
LEMMA HungIs ==
  ASSUME NEW N, NEW D, NEW m \in Memory(N, D), NEW t \in N, NEW la \in N
  PROVE  Hangs(N, D, m, la, t)
<1> DEFINE m2 == Hung(m, la, t)
<1>1. /\ m.next \in [N -> N \cup {NULL}] /\ m.prev \in [N -> N \cup {NULL}] /\ m.data \in [N -> D]
      /\ m = [next |-> m.next, prev |-> m.prev, data |-> m.data]
  BY DEF Memory
<1>2. /\ m2.next = [m.next EXCEPT ![la] = t] /\ m2.prev = m.prev /\ m2.data = m.data
      /\ m2 = [next |-> m2.next, prev |-> m2.prev, data |-> m2.data]
  BY <1>1 DEF Hung
<1> HIDE DEF m2
<1>3. m2 \in Memory(N, D)
  BY <1>1, <1>2 DEF Memory
<1>4. m2.next[la] = t /\ \A x \in N : x # la => m2.next[x] = m.next[x]
  BY <1>1, <1>2
<1> QED BY <1>2, <1>3, <1>4 DEF Hangs, m2

(* The i-th of c goes to the end of d.                                      *)
AfterDraw(r, ou, la, t) == IF ou = NULL THEN r.mem ELSE Hung(r.mem, la, t)

(* The winner goes from the list to the end of the output.                  *)
PickKeeps(k, m, h, ou, la, c, d, i) ==
  LET t == c[i]
      m2 == AfterDraw(RemoveData(m, h, m.data[t]), ou, la, t)
  IN  /\ m2 \in Memory(1..Len(k), 1..Len(k)) /\ m2.data = m.data
      /\ Drawing(k, m2, RemoveData(m, h, m.data[t]).head, IF ou = NULL THEN t ELSE ou, t,
                 Without(c, i), With(d, Len(d) + 1, t))

LEMMA PickLeads ==
  ASSUME NEW k \in Seq(Int), NEW m \in Memory(1..Len(k), 1..Len(k)),
         m.data = [x \in 1..Len(k) |-> x],
         NEW h, NEW ou, NEW la, NEW c, NEW d, Drawing(k, m, h, ou, la, c, d),
         NEW i \in 1..Len(c)
  PROVE  PickKeeps(k, m, h, ou, la, c, d, i)
<1> DEFINE t == c[i]
           r == RemoveData(m, h, m.data[t])
<1>a. t = c[i] /\ r = RemoveData(m, h, m.data[t])
  OBVIOUS
<1> HIDE DEF t, r
<1> DEFINE n == Len(k)
           N == 1..n
           L == Len(d)
           m2 == AfterDraw(r, ou, la, t)
           c2 == Without(c, i)
           d2 == With(d, L + 1, t)
           ou2 == IF ou = NULL THEN t ELSE ou
           m1 == r.mem
<1>1. DrawKnows(k, m, h, ou, la, c, d)
  BY DrawIs
<1>2. /\ n \in Nat /\ c \in Seq(N) /\ Once(c) /\ Len(c) \in Nat /\ t \in N
      /\ L \in Nat /\ DOMAIN d = 1..L /\ (d = <<>> <=> L = 0) /\ \A j \in 1..L : d[j] \in N
      /\ (ou = NULL <=> L = 0) /\ la \in N \cup {NULL} /\ (la = NULL <=> L = 0)
      /\ DOMAIN c = 1..Len(c)
  BY <1>a, <1>1 DEF DrawKnows
<1>3. /\ d \in Seq(N) /\ Once(d) /\ Of(c) \cap Of(d) = {} /\ Of(c) \cup Of(d) = N
      /\ Len(c) + L = n /\ Linked(m, h, c)
      /\ ou = IF d = <<>> THEN NULL ELSE d[1]
      /\ la = IF d = <<>> THEN NULL ELSE d[L]
      /\ Leads(m.next, ou, d)
  BY DEF Drawing
<1>4. Makes(N, N, m, r, c2, Of(c)) /\ m1.data = m.data
  <2>1. Removed(m, h, c, i, n, r)
    BY <1>a, <1>2, <1>3, DrawRemoves
  <2> QED BY <2>1 DEF Removed
<1>5. m1 \in Memory(N, N) /\ Linked(m1, r.head, c2) /\ SameLinks(m, m1, N \ Of(c))
  BY <1>4 DEF Makes
<1>6. c2 \in Seq(N) /\ Len(c2) = Len(c) - 1 /\ Of(c2) = Of(c) \ {t}
  <2>1. c \in Seq(N) /\ Once(c) /\ i \in 1..Len(c)
    BY <1>2
  <2> HIDE DEF N
  <2>2. c2 \in Seq(N) /\ Len(c2) = Len(c) - 1
    BY <2>1, WithoutIs
  <2>3. Of(c2) = Of(c) \ {c[i]}
    BY <2>1, WithoutIs
  <2> QED BY <1>a, <2>2, <2>3
<1>7. t \in Of(c) /\ t \notin Of(d)
  <2>1. t \in Of(c)
    BY <1>a, <1>2 DEF Of
  <2> QED BY <1>3, <2>1
<1>8. /\ d2 \in Seq(N) /\ Len(d2) = L + 1 /\ Of(d2) = Of(d) \cup {t} /\ Once(d2)
      /\ DOMAIN d2 = 1..L + 1
      /\ \A j \in 1..L : d2[j] = d[j]
      /\ d2[L + 1] = t
  <2> DEFINE j == Len(d) + 1
  <2>1. j \in 1..Len(d) + 1
    BY <1>2
  <2> HIDE DEF j
  <2>a. d \in Seq(N) /\ t \in N
    BY <1>2, <1>3
  <2>2. /\ With(d, j, t) \in Seq(N) /\ Len(With(d, j, t)) = Len(d) + 1
        /\ DOMAIN With(d, j, t) = 1..Len(d) + 1
        /\ Of(With(d, j, t)) = Of(d) \cup {t}
        /\ (t \notin Of(d) /\ Once(d) => Once(With(d, j, t)))
    <3>1. With(d, j, t) \in Seq(N) /\ Len(With(d, j, t)) = Len(d) + 1
      BY <2>1, <2>a, WithIs
    <3>2. DOMAIN With(d, j, t) = 1..Len(d) + 1 /\ Of(With(d, j, t)) = Of(d) \cup {t}
      BY <2>1, <2>a, WithIs
    <3>3. t \notin Of(d) /\ Once(d) => Once(With(d, j, t))
      BY <2>1, <2>a, WithIs
    <3> QED BY <3>1, <3>2, <3>3
  <2>3. \A x \in 1..L + 1 : d2[x] = IF x < L + 1 THEN d[x] ELSE t
    <3>1. d2 = [x \in 1..L + 1 |-> IF x < L + 1 THEN d[x] ELSE IF x = L + 1 THEN t ELSE d[x - 1]]
      BY DEF With
    <3>a. L \in Nat
      BY <1>2
    <3> HIDE DEF d2, L
    <3>2. \A x \in 1..L + 1 : x < L + 1 \/ x = L + 1
      BY <3>a
    <3> QED BY <3>1, <3>2
  <2>b. L \in Nat /\ L + 1 \in 1..L + 1 /\ ~(L + 1 < L + 1)
        /\ \A x \in 1..L : x \in 1..L + 1 /\ x < L + 1
    <3>1. L \in Nat
      BY <1>2
    <3> HIDE DEF L
    <3> QED BY <3>1
  <2> HIDE DEF d2
  <2>4. (\A x \in 1..L : d2[x] = d[x]) /\ d2[L + 1] = t
    BY <2>3, <2>b
  <2> QED BY <1>3, <1>7, <2>2, <2>4 DEF j, d2
<1> HIDE DEF c2, d2, n, N, m1
<1>9. /\ m2 \in Memory(N, N) /\ m2.data = m.data
      /\ L # 0 => m2.next[la] = t
      /\ \A x \in N : L = 0 \/ x # la => m2.next[x] = m1.next[x]
      /\ m2.prev = m1.prev
  <2>1. CASE L = 0
    <3>1. m2 = m1
      BY <1>2, <2>1 DEF AfterDraw, m1
    <3> QED BY <1>4, <1>5, <2>1, <3>1
  <2>2. CASE L # 0
    <3>1. m2 = Hung(m1, la, t) /\ la \in N
      BY <1>2, <2>2 DEF AfterDraw, m1
    <3> HIDE DEF m2
    <3>2. /\ Hung(m1, la, t) \in Memory(N, N)
          /\ Hung(m1, la, t).next[la] = t
          /\ \A x \in N : x # la => Hung(m1, la, t).next[x] = m1.next[x]
          /\ Hung(m1, la, t).prev = m1.prev /\ Hung(m1, la, t).data = m1.data
      <4>1. m1 \in Memory(N, N) /\ t \in N /\ la \in N
        BY <1>2, <1>5, <3>1
      <4>2. Hangs(N, N, m1, la, t)
        BY <4>1, HungIs
      <4> QED BY <4>2 DEF Hangs
    <3> QED BY <1>4, <2>2, <3>1, <3>2
  <2> QED BY <2>1, <2>2
<1> HIDE DEF m2
<1>10. L # 0 => la = d[L] /\ L \in 1..L /\ la \in Of(d)
  <2>1. L # 0 => L \in 1..L /\ la = d[L]
    <3>1. L \in Nat
      BY <1>2
    <3> HIDE DEF L
    <3> QED BY <1>2, <1>3, <3>1
  <2> QED BY <1>2, <2>1 DEF Of
<1>11. Linked(m2, r.head, c2)
  <2>1. \A x \in Of(c2) : x \in N /\ (L = 0 \/ x # la)
    BY <1>3, <1>6, <1>10
  <2>2. SameLinks(m1, m2, Of(c2))
    BY <1>9, <2>1 DEF SameLinks
  <2> QED BY <1>5, <1>9, <2>2, LinkedElsewhere
<1>12. \A j \in 1..L : d[j] \in N \ Of(c) /\ m1.next[d[j]] = m.next[d[j]]
  <2>1. \A j \in 1..L : d[j] \in Of(d)
    BY <1>2 DEF Of
  <2> QED BY <1>2, <1>3, <1>5, <2>1 DEF SameLinks
<1>13. Leads(m2.next, ou2, d2)
  <2>1. ou2 = d2[1]
    <3>1. L # 0 => 1 \in 1..L
      BY <1>2
    <3>2. L = 0 => L + 1 = 1
      OBVIOUS
    <3> QED BY <1>2, <1>3, <1>8, <3>1, <3>2
  <2>2. ASSUME NEW j \in 1..Len(d2) - 1 PROVE m2.next[d2[j]] = d2[j + 1]
    <3>1. j \in 1..L /\ L # 0
      BY <1>2, <1>8
    <3>2. CASE j = L
      BY <1>8, <1>9, <1>10, <3>1, <3>2
    <3>3. CASE j # L
      <4>1. j \in 1..Len(d) - 1 /\ j + 1 \in 1..L
        <5>1. L \in Nat
          BY <1>2
        <5> QED BY <3>1, <3>3, <5>1
      <4>2. m.next[d[j]] = d[j + 1]
        BY <1>3, <4>1 DEF Leads
      <4>3. d[j] # la
        <5>1. la = d[L] /\ j \in DOMAIN d /\ L \in DOMAIN d
          BY <1>2, <1>3, <3>1
        <5> QED BY <1>3, <3>3, <5>1 DEF Once
      <4> QED BY <1>8, <1>9, <1>12, <3>1, <4>1, <4>2, <4>3
    <3> QED BY <3>2, <3>3
  <2> QED BY <2>1, <2>2 DEF Leads
<1>14. /\ Of(c2) \cap Of(d2) = {} /\ Of(c2) \cup Of(d2) = N
       /\ Len(c2) + Len(d2) = n
  <2>1. Of(c2) \cap Of(d2) = {} /\ Of(c2) \cup Of(d2) = N
    BY <1>3, <1>6, <1>7, <1>8
  <2>2. Len(c) \in Nat /\ L \in Nat /\ Len(c2) = Len(c) - 1 /\ Len(d2) = L + 1 /\ Len(c) + L = n
    BY <1>2, <1>3, <1>6, <1>8
  <2>3. Len(c2) + Len(d2) = n
    BY <2>2
  <2> QED BY <2>1, <2>3
<1>15. d2 # <<>> /\ ou2 = d2[1] /\ t = d2[Len(d2)]
  <2>1. d2 # <<>>
    BY <1>2, <1>8, EmptySeq
  <2> QED BY <1>8, <1>13, <2>1 DEF Leads
<1>16. Drawing(k, m2, r.head, ou2, t, c2, d2)
  BY <1>8, <1>11, <1>13, <1>14, <1>15 DEF Drawing, n, N
<1>17. /\ AfterDraw(r, ou, la, t) \in Memory(1..Len(k), 1..Len(k))
       /\ AfterDraw(r, ou, la, t).data = m.data
       /\ Drawing(k, AfterDraw(r, ou, la, t), r.head, IF ou = NULL THEN t ELSE ou, t,
                  Without(c, i), With(d, Len(d) + 1, t))
  BY <1>9, <1>16 DEF m2, n, N, c2, d2
<1> QED BY <1>17 DEF PickKeeps, t, r
-----------------------------------------------------------------------------
(* The invariant.  What the values are, and, for each value of pc, what the *)
(* links and the keys are then.                                             *)
Typed(k, m, h, pp, qq, t, ps, qs, s, nm) ==
  /\ k \in Seq(Int)
  /\ m \in Memory(1..Len(k), 1..Len(k)) /\ m.data = [x \in 1..Len(k) |-> x]
  /\ h \in (1..Len(k)) \cup {NULL} /\ pp \in (1..Len(k)) \cup {NULL}
  /\ qq \in (1..Len(k)) \cup {NULL} /\ t \in (1..Len(k)) \cup {NULL}
  /\ ps \in 0..Len(k) /\ s \in Nat \ {0} /\ qs \in 0..s /\ nm \in 0..Len(k)

(* The same of the variables, one predicate for each value of pc.  In the   *)
(* order w of the nodes the first o are in the output.                      *)
Values == Typed(key, mem, list, p, q, tail, psize, qsize, split_point, nmerges)
AtCall ==
  split_point = 1 /\ \E w : Whole(key, mem, list, w) /\ RunsFrom(Key(key, w), 1, 0)
AtPass ==
  Len(key) > 0 /\ \E w : Whole(key, mem, list, w) /\ RunsFrom(Key(key, w), split_point, 0)
AtReturn ==
  \E w : Whole(key, mem, list, w) /\ Rising(Key(key, w), 0, Len(key))
InSplit ==
  Len(key) > 0 /\ \E w : \E o \in 0..Len(key) :
    AtSplit(key, mem, list, tail, p, split_point, nmerges, w, o)
InMerge ==
  Len(key) > 0 /\ \E w : \E o \in 0..Len(key) : \E l :
    AtMerge(key, mem, list, tail, p, q, psize, qsize, split_point, nmerges, w, o, l)
InDraw ==
  \E c, d : /\ Drawing(key, mem, list, out, last, c, d) /\ num \in 0..Len(c)
            /\ Levels(key, Scale, c, d, num, sum, overdrawn)

(* The search has run off the list, with a number that overdraws.           *)
OffTheList == Len(key) - Len(Chain(mem, list)) + 1 \in overdrawn

Undrawn == out = NULL /\ last = NULL /\ num = 0
Sorting == {"call", "pass", "split", "merge", "return"}

(* The inductive invariant.                                                 *)
SrvInv ==
  /\ Values
  /\ pc = "call" => AtCall
  /\ pc = "pass" => AtPass
  /\ pc = "return" => AtReturn
  /\ pc = "split" => InSplit
  /\ pc = "merge" => InMerge
  /\ pc \in Sorting => Undrawn
  /\ pc = "draw" => InDraw
  /\ pc = "crash" => OffTheList

(* It holds of the list as it is read from the answer, and every step of    *)
(* the sort and of the drawing keeps it.                                    *)
LEMMA SrvInvInit == SrvInit => SrvInv
<1> SUFFICES ASSUME SrvInit PROVE SrvInv
  OBVIOUS
<1>1. key \in Seq(Int)
  <2>1. PICK n \in 0..MaxLen : key \in [1..n -> Keys]
    BY DEF SrvInit, Init
  <2>2. n \in Nat
    BY LenAssumption
  <2>3. \A i \in 1..n : key[i] \in Int
    BY <2>1, KeysAssumption
  <2>4. key = [i \in 1..n |-> key[i]]
    BY <2>1
  <2> QED BY <2>2, <2>3, <2>4, MadeSeq
<1> DEFINE n == Len(key)
<1>2. /\ mem = [next |-> [x \in 1..n |-> IF x = n THEN NULL ELSE x + 1],
                prev |-> [x \in 1..n |-> x - 1],
                data |-> [x \in 1..n |-> x]]
      /\ list = IF n = 0 THEN NULL ELSE 1
  BY DEF SrvInit, Init, Nodes, Size
<1>3. /\ p = NULL /\ q = NULL /\ tail = NULL /\ psize = 0 /\ qsize = 0 /\ split_point = 1
      /\ nmerges = 0 /\ pc = "call" /\ out = NULL /\ last = NULL /\ num = 0
  BY DEF SrvInit, Init
<1>4. n \in Nat
  BY <1>1, KeysAre
<1>5. /\ mem \in Memory(1..n, 1..n)
      /\ \E w : Whole(key, mem, list, w) /\ RunsFrom(Key(key, w), 1, 0)
  BY <1>1, <1>2, CallFinds
<1>6. mem.data = [x \in 1..n |-> x]
  BY <1>2
<1> HIDE DEF n
<1>7. list \in (1..n) \cup {NULL} /\ 0 \in 0..n /\ 1 \in Nat \ {0} /\ 0 \in 0..1
  BY <1>2, <1>4
<1>8. Values
  BY <1>1, <1>3, <1>5, <1>6, <1>7 DEF Values, Typed, n
<1>9. AtCall /\ Undrawn
  BY <1>3, <1>5 DEF AtCall, Undrawn
<1> QED BY <1>3, <1>8, <1>9 DEF SrvInv

LEMMA CallKeeps == SrvInv /\ Call /\ UNCHANGED drawing => SrvInv'
<1> SUFFICES ASSUME SrvInv, Call, UNCHANGED drawing PROVE SrvInv'
  OBVIOUS
<1>1. /\ pc = "call" /\ UNCHANGED <<key, mem, list, p, q, tail, psize, qsize, split_point, nmerges>>
      /\ pc' = IF list = NULL THEN "return" ELSE IF mem.next[list] = NULL THEN "return" ELSE "pass"
      /\ UNCHANGED <<out, last, num, sum, overdrawn>>
  BY DEF Call, drawing
<1>2. Values /\ AtCall /\ Undrawn
  BY <1>1 DEF SrvInv, Sorting
<1>3. key \in Seq(Int) /\ mem \in Memory(1..Len(key), 1..Len(key))
  BY <1>2 DEF Values, Typed
<1>4. PICK w : Whole(key, mem, list, w) /\ RunsFrom(Key(key, w), 1, 0)
  BY <1>2 DEF AtCall
<1>5. Values' /\ Undrawn'
  BY <1>1, <1>2 DEF Values, Undrawn
<1>6. Len(key) \in Nat
  BY <1>3, KeysAre
<1>7. /\ list = NULL <=> Len(key) = 0
      /\ list # NULL => list \in 1..Len(key) /\ (mem.next[list] = NULL <=> Len(key) = 1)
      /\ Len(key) <= 1 => Rising(Key(key, w), 0, Len(key))
  BY <1>3, <1>4, ShortRises
<1>8. CASE pc' = "return"
  <2>a. list = NULL \/ (list # NULL /\ mem.next[list] = NULL)
    BY <1>1, <1>8
  <2>1. Len(key) <= 1
    <3>1. CASE list = NULL
      <4>1. Len(key) = 0
        BY <1>7, <3>1
      <4> QED BY <4>1
    <3>2. CASE list # NULL
      <4>1. Len(key) = 1
        BY <1>7, <2>a, <3>2
      <4> QED BY <4>1
    <3> QED BY <3>1, <3>2
  <2>2. AtReturn'
    BY <1>1, <1>4, <1>7, <2>1 DEF AtReturn
  <2> QED BY <1>5, <1>8, <2>2 DEF SrvInv
<1>9. CASE pc' = "pass"
  <2>a. list # NULL
    BY <1>1, <1>9
  <2>1. Len(key) > 0
    BY <1>6, <1>7, <2>a
  <2>2. split_point = 1
    BY <1>2 DEF AtCall
  <2>3. AtPass'
    BY <1>1, <1>4, <2>1, <2>2 DEF AtPass
  <2> QED BY <1>5, <1>9, <2>3 DEF SrvInv
<1> QED BY <1>1, <1>8, <1>9

LEMMA PassKeeps == SrvInv /\ Pass /\ UNCHANGED drawing => SrvInv'
<1> SUFFICES ASSUME SrvInv, Pass, UNCHANGED drawing PROVE SrvInv'
  OBVIOUS
<1>1. /\ pc = "pass" /\ UNCHANGED <<key, mem, q, psize, qsize, split_point>>
      /\ p' = list /\ list' = NULL /\ tail' = NULL /\ nmerges' = 0 /\ pc' = "split"
      /\ UNCHANGED <<out, last, num, sum, overdrawn>>
  BY DEF Pass, drawing
<1>2. Values /\ AtPass /\ Undrawn
  BY <1>1 DEF SrvInv, Sorting
<1>3. /\ key \in Seq(Int) /\ mem \in Memory(1..Len(key), 1..Len(key)) /\ split_point \in Nat \ {0}
      /\ Len(key) \in Nat
  BY <1>2, KeysAre DEF Values, Typed
<1>4. PICK w : Whole(key, mem, list, w) /\ RunsFrom(Key(key, w), split_point, 0)
  BY <1>2 DEF AtPass
<1>5. AtSplit(key, mem, NULL, NULL, list, split_point, 0, w, 0)
  BY <1>3, <1>4, PassStarts
<1>6. 0 \in 0..Len(key)
  BY <1>3
<1>7. Values' /\ Undrawn'
  BY <1>1, <1>2, <1>6 DEF Values, Typed, Undrawn
<1>8. InSplit'
  BY <1>1, <1>2, <1>5, <1>6 DEF InSplit, AtPass
<1> QED BY <1>1, <1>7, <1>8 DEF SrvInv

LEMMA SplitKeeps == SrvInv /\ Split /\ UNCHANGED drawing => SrvInv'
<1> SUFFICES ASSUME SrvInv, Split, UNCHANGED drawing PROVE SrvInv'
  OBVIOUS
<1> DEFINE c == Chain(mem, p)
<1>1. /\ pc = "split" /\ p # NULL /\ UNCHANGED <<key, mem, list, p, tail, split_point>>
      /\ nmerges' = nmerges + 1 /\ qsize' = split_point /\ pc' = "merge"
      /\ psize' = IF Len(c) > split_point THEN split_point ELSE Len(c)
      /\ q' = IF Len(c) > split_point THEN c[split_point + 1] ELSE NULL
      /\ UNCHANGED <<out, last, num, sum, overdrawn>>
  BY DEF Split, drawing
<1>2. Values /\ InSplit /\ Undrawn
  BY <1>1 DEF SrvInv, Sorting
<1>3. /\ key \in Seq(Int) /\ mem \in Memory(1..Len(key), 1..Len(key)) /\ split_point \in Nat \ {0}
  BY <1>2 DEF Values, Typed
<1>4. PICK w : \E o \in 0..Len(key) : AtSplit(key, mem, list, tail, p, split_point, nmerges, w, o)
  BY <1>2 DEF InSplit
<1>a. PICK o \in 0..Len(key) : AtSplit(key, mem, list, tail, p, split_point, nmerges, w, o)
  BY <1>4
<1> DEFINE ps == IF Len(c) > split_point THEN split_point ELSE Len(c)
           qq == IF Len(c) > split_point THEN c[split_point + 1] ELSE NULL
<1>b. psize' = ps /\ q' = qq
  BY <1>1
<1>5. /\ AtMerge(key, mem, list, tail, p, qq, ps, split_point, split_point, nmerges + 1, w, o, o)
      /\ ps \in 0..Len(key) /\ nmerges + 1 \in 0..Len(key) /\ qq \in (1..Len(key)) \cup {NULL}
  <2>1. Splits(key, mem, list, tail, p, split_point, nmerges, w, o)
    BY <1>1, <1>3, <1>a, SplitLeads
  <2> QED BY <2>1 DEF Splits
<1> HIDE DEF c, ps, qq
<1>6. Values' /\ Undrawn'
  <2>1. split_point \in 0..split_point
    BY <1>3
  <2> QED BY <1>1, <1>2, <1>b, <1>5, <2>1 DEF Values, Typed, Undrawn
<1>7. InMerge'
  BY <1>1, <1>2, <1>b, <1>5 DEF InMerge, InSplit
<1> QED BY <1>1, <1>6, <1>7 DEF SrvInv

LEMMA TakeFirstKeeps == SrvInv /\ TakeFirst /\ UNCHANGED drawing => SrvInv'
<1> SUFFICES ASSUME SrvInv, TakeFirst, UNCHANGED drawing PROVE SrvInv'
  OBVIOUS
<1> DEFINE m2 == Linking(mem, tail, p)
           h2 == IF tail = NULL THEN p ELSE list
           p2 == mem.next[p]
<1>1. /\ pc = "merge" /\ pc' = "merge" /\ psize > 0 /\ ~QFirst
      /\ UNCHANGED <<key, q, qsize, split_point, nmerges>>
      /\ mem' = m2 /\ list' = h2 /\ tail' = p /\ p' = p2 /\ psize' = psize - 1
      /\ UNCHANGED <<out, last, num, sum, overdrawn>>
  BY Zenon DEF TakeFirst, Link, Linking, drawing
<1>2. Values /\ InMerge /\ Undrawn
  BY <1>1 DEF SrvInv, Sorting
<1>3. /\ key \in Seq(Int) /\ mem \in Memory(1..Len(key), 1..Len(key)) /\ split_point \in Nat \ {0}
      /\ psize \in 0..Len(key) /\ qsize \in 0..split_point /\ Len(key) \in Nat
      /\ p \in (1..Len(key)) \cup {NULL} /\ list \in (1..Len(key)) \cup {NULL}
  BY <1>2, KeysAre DEF Values, Typed
<1>4. PICK w, l : \E o \in 0..Len(key) :
        AtMerge(key, mem, list, tail, p, q, psize, qsize, split_point, nmerges, w, o, l)
  BY <1>2 DEF InMerge
<1>5. PICK o \in 0..Len(key) :
        AtMerge(key, mem, list, tail, p, q, psize, qsize, split_point, nmerges, w, o, l)
  BY <1>4
<1>6. /\ psize \in Nat /\ qsize \in Nat /\ psize - 1 \in 0..Len(key)
      /\ ~(qsize > 0 /\ q # NULL /\ key[p] > key[q])
  BY <1>1, <1>3 DEF QFirst, Second
<1>7. /\ m2 \in Memory(1..Len(key), 1..Len(key)) /\ m2.data = mem.data /\ o + 1 \in 0..Len(key)
      /\ AtMerge(key, m2, h2, p, p2, q, psize - 1, qsize, split_point, nmerges, w, o + 1, l)
  BY <1>1, <1>3, <1>5, <1>6, FirstLeads
<1>8. p \in 1..Len(key)
  <2>1. MergeKnows(key, list, tail, p, q, psize, w, o)
    BY <1>3, <1>5, <1>6, MergeIs
  <2> QED BY <1>1, <2>1 DEF MergeKnows
<1>9. p2 \in (1..Len(key)) \cup {NULL} /\ h2 \in (1..Len(key)) \cup {NULL}
  BY <1>3, <1>8 DEF Memory
<1> HIDE DEF m2, h2, p2
<1>10. Values' /\ Undrawn'
  BY <1>1, <1>2, <1>6, <1>7, <1>8, <1>9 DEF Values, Typed, Undrawn
<1>11. InMerge'
  BY <1>1, <1>2, <1>7 DEF InMerge
<1> QED BY <1>1, <1>10, <1>11 DEF SrvInv

LEMMA TakeSecondKeeps == SrvInv /\ TakeSecond /\ UNCHANGED drawing => SrvInv'
<1> SUFFICES ASSUME SrvInv, TakeSecond, UNCHANGED drawing PROVE SrvInv'
  OBVIOUS
<1> DEFINE m2 == Linking(mem, tail, q)
           h2 == IF tail = NULL THEN q ELSE list
           q2 == mem.next[q]
<1>1. /\ pc = "merge" /\ pc' = "merge" /\ Second /\ QFirst
      /\ UNCHANGED <<key, p, psize, split_point, nmerges>>
      /\ mem' = m2 /\ list' = h2 /\ tail' = q /\ q' = q2 /\ qsize' = qsize - 1
      /\ UNCHANGED <<out, last, num, sum, overdrawn>>
  BY Zenon DEF TakeSecond, Link, Linking, drawing
<1>2. Values /\ InMerge /\ Undrawn
  BY <1>1 DEF SrvInv, Sorting
<1>3. /\ key \in Seq(Int) /\ mem \in Memory(1..Len(key), 1..Len(key)) /\ split_point \in Nat \ {0}
      /\ psize \in 0..Len(key) /\ qsize \in 0..split_point /\ Len(key) \in Nat
      /\ q \in (1..Len(key)) \cup {NULL} /\ list \in (1..Len(key)) \cup {NULL}
  BY <1>2, KeysAre DEF Values, Typed
<1>4. PICK w, l : \E o \in 0..Len(key) :
        AtMerge(key, mem, list, tail, p, q, psize, qsize, split_point, nmerges, w, o, l)
  BY <1>2 DEF InMerge
<1>5. PICK o \in 0..Len(key) :
        AtMerge(key, mem, list, tail, p, q, psize, qsize, split_point, nmerges, w, o, l)
  BY <1>4
<1>6. /\ psize \in Nat /\ qsize \in Nat /\ qsize - 1 \in 0..split_point
      /\ qsize > 0 /\ q # NULL /\ (psize = 0 \/ key[p] > key[q])
  BY <1>1, <1>3 DEF QFirst, Second
<1> DEFINE w2 == Moved(w, o, o + psize)
<1>7. /\ m2 \in Memory(1..Len(key), 1..Len(key)) /\ m2.data = mem.data /\ o + 1 \in 0..Len(key)
      /\ AtMerge(key, m2, h2, q, p, q2, psize, qsize - 1, split_point, nmerges, w2, o + 1, l)
  BY <1>1, <1>3, <1>5, <1>6, SecondLeads
<1>8. q \in 1..Len(key)
  BY <1>3, <1>6
<1>9. q2 \in (1..Len(key)) \cup {NULL} /\ h2 \in (1..Len(key)) \cup {NULL}
  BY <1>3, <1>8 DEF Memory
<1> HIDE DEF m2, h2, q2, w2
<1>10. Values' /\ Undrawn'
  BY <1>1, <1>2, <1>6, <1>7, <1>8, <1>9 DEF Values, Typed, Undrawn
<1>11. InMerge'
  BY <1>1, <1>2, <1>7 DEF InMerge
<1> QED BY <1>1, <1>10, <1>11 DEF SrvInv

LEMMA MergedKeeps == SrvInv /\ Merged /\ UNCHANGED drawing => SrvInv'
<1> SUFFICES ASSUME SrvInv, Merged, UNCHANGED drawing PROVE SrvInv'
  OBVIOUS
<1>1. /\ pc = "merge" /\ pc' = "split" /\ psize = 0 /\ ~Second /\ p' = q
      /\ UNCHANGED <<key, mem, list, q, tail, psize, qsize, split_point, nmerges>>
      /\ UNCHANGED <<out, last, num, sum, overdrawn>>
  BY DEF Merged, drawing
<1>2. Values /\ InMerge /\ Undrawn
  BY <1>1 DEF SrvInv, Sorting
<1>3. /\ key \in Seq(Int) /\ mem \in Memory(1..Len(key), 1..Len(key)) /\ split_point \in Nat \ {0}
      /\ qsize \in 0..split_point
  BY <1>2 DEF Values, Typed
<1>4. PICK w, l : \E o \in 0..Len(key) :
        AtMerge(key, mem, list, tail, p, q, psize, qsize, split_point, nmerges, w, o, l)
  BY <1>2 DEF InMerge
<1>5. PICK o \in 0..Len(key) :
        AtMerge(key, mem, list, tail, p, q, 0, qsize, split_point, nmerges, w, o, l)
  BY <1>1, <1>4
<1>6. qsize \in Nat /\ (qsize = 0 \/ q = NULL)
  BY <1>1, <1>3 DEF Second
<1>7. AtSplit(key, mem, list, tail, q, split_point, nmerges, w, o)
  BY <1>3, <1>5, <1>6, MergedLeads
<1>8. Values' /\ Undrawn'
  BY <1>1, <1>2 DEF Values, Typed, Undrawn
<1>9. InSplit'
  BY <1>1, <1>2, <1>7 DEF InSplit, InMerge
<1> QED BY <1>1, <1>8, <1>9 DEF SrvInv

LEMMA EndPassKeeps == SrvInv /\ EndPass /\ UNCHANGED drawing => SrvInv'
<1> SUFFICES ASSUME SrvInv, EndPass, UNCHANGED drawing PROVE SrvInv'
  OBVIOUS
<1> DEFINE m2 == Ending(mem, tail)
<1>1. /\ pc = "split" /\ p = NULL /\ mem' = m2
      /\ UNCHANGED <<key, list, p, q, tail, psize, qsize, nmerges>>
      /\ \/ nmerges <= 1 /\ pc' = "return" /\ split_point' = split_point
         \/ pc' = "pass" /\ split_point' = 2 * split_point
      /\ UNCHANGED <<out, last, num, sum, overdrawn>>
  <2>1. Values
    BY DEF SrvInv
  <2>2. split_point \in Nat
    BY <2>1 DEF Values, Typed
  <2>3. split_point * 2 = 2 * split_point
    BY <2>2
  <2> QED BY <2>3 DEF EndPass, Ending, LastPass, Longer, drawing
<1>2. Values /\ InSplit /\ Undrawn
  BY <1>1 DEF SrvInv, Sorting
<1>3. /\ key \in Seq(Int) /\ mem \in Memory(1..Len(key), 1..Len(key)) /\ split_point \in Nat \ {0}
      /\ qsize \in 0..split_point
  BY <1>2 DEF Values, Typed
<1>4. PICK w : \E o \in 0..Len(key) :
        AtSplit(key, mem, list, tail, p, split_point, nmerges, w, o)
  BY <1>2 DEF InSplit
<1>5. PICK o \in 0..Len(key) : AtSplit(key, mem, list, tail, NULL, split_point, nmerges, w, o)
  BY <1>1, <1>4
<1>6. /\ m2 \in Memory(1..Len(key), 1..Len(key)) /\ m2.data = mem.data
      /\ Whole(key, m2, list, w)
      /\ (nmerges <= 1 => Rising(Key(key, w), 0, Len(key)))
      /\ RunsFrom(Key(key, w), 2 * split_point, 0)
  BY <1>2, <1>3, <1>5, EndLeads DEF InSplit
<1> HIDE DEF m2
<1>7. Undrawn'
  BY <1>1, <1>2 DEF Undrawn
<1>8. CASE nmerges <= 1 /\ pc' = "return" /\ split_point' = split_point
  <2>1. Values'
    BY <1>1, <1>2, <1>6, <1>8 DEF Values, Typed
  <2>2. AtReturn'
    BY <1>1, <1>6, <1>8 DEF AtReturn
  <2> QED BY <1>7, <1>8, <2>1, <2>2 DEF SrvInv
<1>9. CASE pc' = "pass" /\ split_point' = 2 * split_point
  <2>1. 2 * split_point \in Nat \ {0} /\ qsize \in 0..(2 * split_point)
    BY <1>3
  <2>2. Values'
    BY <1>1, <1>2, <1>6, <1>9, <2>1 DEF Values, Typed
  <2>3. AtPass'
    BY <1>1, <1>2, <1>6, <1>9 DEF AtPass, InSplit
  <2> QED BY <1>7, <1>9, <2>2, <2>3 DEF SrvInv
<1> QED BY <1>1, <1>8, <1>9

(* SameLevel is where the level of the first node ends.                     *)
LEMMA SameLevelEnds ==
  ASSUME NEW N, NEW c \in Seq(N), c # <<>>
  PROVE  LevelEnds(key, Scale, c, SameLevel(c))
<1> DEFINE Ends(i) == /\ \A j \in 1..i : Priority(c[j]) = Priority(c[1])
                      /\ i < Len(c) => Priority(c[i + 1]) # Priority(c[1])
<1>1. DOMAIN c = 1..Len(c)
  BY LenProperties
<1>2. \A i \in DOMAIN c : LevelEnds(key, Scale, c, i) <=> Ends(i)
  BY <1>1 DEF LevelEnds, Prio, Priority
<1>3. PICK i \in DOMAIN c : LevelEnds(key, Scale, c, i)
  BY LevelExists
<1>4. SameLevel(c) = CHOOSE j \in DOMAIN c : Ends(j)
  BY Zenon DEF SameLevel
<1> HIDE DEF Ends
<1>5. SameLevel(c) \in DOMAIN c /\ Ends(SameLevel(c))
  BY Zenon, <1>2, <1>3, <1>4
<1> QED BY <1>2, <1>5

(* A level of equal priority begins.                                        *)
LEMMA LevelKeeps == SrvInv /\ Level => SrvInv'
<1> SUFFICES ASSUME SrvInv, Level PROVE SrvInv'
  OBVIOUS
<1> DEFINE N == 1..Len(key)
<1>1. /\ pc = "return" \/ (pc = "draw" /\ num = 0)
      /\ list # NULL /\ pc' = "draw"
      /\ num' = SameLevel(Chain(mem, list))
      /\ sum' = Weights(Chain(mem, list), SameLevel(Chain(mem, list)))
      /\ UNCHANGED <<key, mem, list, p, q, tail, psize, qsize, split_point, nmerges>>
      /\ UNCHANGED <<out, last, overdrawn>>
  BY DEF Level
<1>2. Values
  BY DEF SrvInv
<1>3. /\ key \in Seq(Int) /\ mem \in Memory(N, N) /\ Len(key) \in Nat /\ key \in [N -> Int]
  BY <1>2, KeysAre DEF Values, Typed
<1>4. Scale \in Nat \ {0}
  BY ScaleAssumption
<1>5. \E c, d : /\ Drawing(key, mem, list, out, last, c, d)
                /\ Ascends(key, Scale, c) /\ EarlyOf(key, Scale, d, c) \subseteq overdrawn
  <2>1. CASE pc = "return"
    <3>1. AtReturn /\ Undrawn
      BY <2>1 DEF SrvInv, Sorting
    <3>2. PICK w : Whole(key, mem, list, w) /\ Rising(Key(key, w), 0, Len(key))
      BY <3>1 DEF AtReturn
    <3>3. Drawing(key, mem, list, out, last, w, <<>>)
      BY <1>3, <3>1, <3>2, DrawStarts DEF Undrawn
    <3>4. w \in Orders(Len(key))
      BY <3>2 DEF Whole
    <3>5. Ascends(key, Scale, w)
      BY <1>3, <1>4, <3>2, <3>4, SortedAscends
    <3>6. EarlyOf(key, Scale, <<>>, w) \subseteq overdrawn
      <4>1. 1..Len(<<>>) = {}
        OBVIOUS
      <4> QED BY <4>1 DEF EarlyOf
    <3> QED BY <3>3, <3>5, <3>6
  <2>2. CASE pc = "draw"
    BY <2>2 DEF SrvInv, InDraw, Levels
  <2> QED BY <1>1, <2>1, <2>2
<1>6. PICK c, d : /\ Drawing(key, mem, list, out, last, c, d)
                  /\ Ascends(key, Scale, c) /\ EarlyOf(key, Scale, d, c) \subseteq overdrawn
  BY <1>5
<1>7. /\ c \in Seq(N) /\ Chain(mem, list) = c /\ c # <<>> /\ Len(c) \in Nat
  <2>1. DrawKnows(key, mem, list, out, last, c, d)
    BY <1>3, <1>6, DrawIs
  <2> QED BY <1>1, <2>1 DEF DrawKnows
<1> HIDE DEF N
<1> DEFINE l == SameLevel(c)
<1>8. num' = l /\ sum' = WeightsOf(key, Scale, c)[l]
  BY <1>1, <1>7, WeightsAre
<1>9. LevelEnds(key, Scale, c, l)
  BY <1>7, SameLevelEnds
<1> HIDE DEF l
<1>10. l \in 1..Len(c) /\ l \in 0..Len(c) /\ l <= l
  BY <1>7, <1>9 DEF LevelEnds
<1>11. Values'
  BY <1>1, <1>2 DEF Values
<1>12. InDraw'
  <2>1. sum' \in Int /\ sum' <= WeightsOf(key, Scale, c)[l]
    <3>1. Weighs(key, Scale, c, WeightsOf(key, Scale, c))
      BY <1>3, <1>4, <1>7, WeightsOfIs DEF N
    <3>2. WeightsOf(key, Scale, c)[l] \in Nat
      BY <1>10, <3>1 DEF Weighs
    <3> QED BY <1>8, <3>2
  <2>2. Counted(key, Scale, c, l, num', sum', overdrawn)
    BY <1>8, <1>9, <1>10, <2>1 DEF Counted
  <2>3. Levels(key, Scale, c, d, num', sum', overdrawn)
    BY <1>6, <1>10, <2>2 DEF Levels
  <2>4. Drawing(key, mem, list, out, last, c, d) /\ num' \in 0..Len(c)
    BY <1>6, <1>8, <1>10
  <2> QED BY <1>1, <2>3, <2>4 DEF InDraw
<1> QED BY <1>1, <1>11, <1>12 DEF SrvInv, Sorting

(* A number drawn up to the weights of a level falls on a node of it.       *)
LEMMA DrawFalls ==
  ASSUME NEW N, NEW c \in Seq(N), key \in [N -> Int], NEW n \in 1..Len(c),
         NEW r \in Int, r <= WeightsOf(key, Scale, c)[n]
  PROVE  n \in FallsOn(c, r)
<1> DEFINE W == WeightsOf(key, Scale, c)
           L == Len(c)
<1>1. L \in Nat /\ DOMAIN c = 1..L
  BY LenProperties
<1>2. Weighs(key, Scale, c, W)
  BY ScaleAssumption, WeightsOfIs
<1>3. n \in 1..L /\ n \in 0..L /\ n - 1 \in 0..L /\ r <= W[n]
  BY <1>1
<1>4. /\ W[n] = W[n - 1] + (key[c[n]] % Scale) /\ key[c[n]] % Scale \in Nat
      /\ W[n - 1] \in Nat
  BY <1>2, <1>3 DEF Weighs
<1>5. Weights(c, n - 1) = W[n - 1] /\ Weight(c[n]) = key[c[n]] % Scale
  BY WeightsAre DEF Weight
<1> HIDE DEF W, L
<1>6. Weight(c[n]) >= r - Weights(c, n - 1)
  <2> DEFINE a == W[n - 1]
             b == key[c[n]] % Scale
  <2>1. a \in Nat /\ b \in Nat /\ r <= a + b
    BY <1>3, <1>4
  <2> HIDE DEF a, b
  <2>2. b >= r - a
    BY <2>1
  <2> QED BY <1>5, <2>2 DEF a, b
<1> QED BY <1>1, <1>3, <1>6 DEF FallsOn

(* What is counted of the level at hand, once the i-th of c is drawn: of    *)
(* the level when the number did not overdraw.                              *)
LEMMA CountedNext ==
  ASSUME NEW N, NEW c \in Seq(N), NEW d \in Seq(N), Once(c), NEW k \in [N -> Int],
         NEW s \in Nat \ {0}, NEW l \in 1..Len(c), NEW nm \in 1..Len(c), NEW sm, NEW od, NEW od2,
         Ascends(k, s, c), EarlyOf(k, s, d, c) \subseteq od, Counted(k, s, c, l, nm, sm, od),
         NEW i \in 1..Len(c), od \subseteq od2, l < i => Len(d) + 1 \in od2
  PROVE  Levels(k, s, Without(c, i), With(d, Len(d) + 1, c[i]), nm - 1, sm - (k[c[i]] % s), od2)
<1> DEFINE c2 == Without(c, i)
           d2 == With(d, Len(d) + 1, c[i])
           W == WeightsOf(k, s, c)
           V == WeightsOf(k, s, c2)
           w == k[c[i]] % s
<1>1. /\ LevelEnds(k, s, c, l) /\ nm <= l /\ sm \in Int /\ sm <= W[l]
      /\ od = {} => nm = l /\ sm = W[l]
  BY DEF Counted
<1>2. /\ Ascends(k, s, c2)
      /\ i <= l /\ l - 1 > 0 => LevelEnds(k, s, c2, l - 1)
      /\ l < i => LevelEnds(k, s, c2, l)
      /\ EarlyOf(k, s, d2, c2) \subseteq EarlyOf(k, s, d, c) \cup {Len(d) + 1}
      /\ i <= l => EarlyOf(k, s, d2, c2) \subseteq EarlyOf(k, s, d, c)
  BY <1>1, LevelsKept
<1>3. Len(c) \in Nat /\ Len(c2) = Len(c) - 1
  BY LenProperties, WithoutIs
<1>4. ASSUME NEW j \in 0..Len(c) - 1
      PROVE  (j < i => V[j] = W[j]) /\ (i <= j + 1 => V[j] = W[j + 1] - w)
  <2>1. WeighsWithout(k, s, c, i, j)
    BY WeightsWithout
  <2> QED BY <2>1 DEF WeighsWithout
<1>a. ASSUME NEW a \in Int, NEW b \in Int, a <= b, NEW v \in Nat
      PROVE  a - v \in Int /\ a - v <= b - v /\ a - v <= b
  BY <1>a
<1>5. W[l] \in Nat /\ W[l] \in Int /\ w \in Nat
  <2>1. Weighs(k, s, c, W)
    BY WeightsOfIs
  <2>2. l \in 0..Len(c)
    BY <1>3
  <2>3. W[l] \in Nat /\ w \in Nat
    BY <2>1, <2>2 DEF Weighs
  <2> HIDE DEF W, w
  <2> QED BY <2>3
<1> HIDE DEF c2, d2, W, V, w
<1>6. CASE i <= l
  <2>1. EarlyOf(k, s, d2, c2) \subseteq od2
    BY <1>2, <1>6
  <2>2. ASSUME nm - 1 > 0 PROVE Counted(k, s, c2, l - 1, nm - 1, sm - w, od2) /\ l - 1 \in 1..Len(c2)
    <3>1. l - 1 > 0 /\ l - 1 \in 0..Len(c) - 1 /\ i <= l - 1 + 1 /\ l - 1 + 1 = l /\ nm - 1 <= l - 1
          /\ l - 1 \in 1..Len(c2)
      BY <1>1, <1>3, <1>6, <2>2
    <3>2. V[l - 1] = W[l] - w
      BY <1>4, <3>1
    <3>3. sm - w \in Int /\ sm - w <= W[l] - w
      BY <1>1, <1>5, <1>a
    <3>b. sm - w <= V[l - 1]
      BY <3>2, <3>3
    <3>4. od2 = {} => nm - 1 = l - 1 /\ sm - w = V[l - 1]
      BY <1>1, <3>2
    <3> QED BY <1>2, <1>6, <3>1, <3>3, <3>b, <3>4 DEF Counted, V
  <2> QED BY <1>2, <2>1, <2>2 DEF Levels, c2, d2, w
<1>7. CASE l < i
  <2>1. EarlyOf(k, s, d2, c2) \subseteq od2
    BY <1>2, <1>7
  <2>2. l \in 1..Len(c2) /\ l \in 0..Len(c) - 1 /\ nm - 1 <= l
    BY <1>1, <1>3, <1>7
  <2>3. V[l] = W[l]
    BY <1>4, <1>7, <2>2
  <2>a. sm - w \in Int /\ sm - w <= W[l]
    BY <1>1, <1>5, <1>a
  <2>4. sm - w \in Int /\ sm - w <= V[l]
    BY <2>3, <2>a
  <2>5. Counted(k, s, c2, l, nm - 1, sm - w, od2)
    BY <1>2, <1>7, <2>2, <2>4 DEF Counted, V
  <2> QED BY <1>2, <2>1, <2>2, <2>5 DEF Levels, c2, d2, w
<1> QED BY <1>3, <1>6, <1>7

(* A target is drawn, or none where the number overdraws.                   *)
LEMMA DrawKeeps == SrvInv /\ Draw => SrvInv'
<1> SUFFICES ASSUME SrvInv, Draw PROVE SrvInv'
  OBVIOUS
<1> DEFINE N == 1..Len(key)
<1>1. /\ pc = "draw" /\ num > 0
      /\ UNCHANGED <<key, p, q, tail, psize, qsize, split_point, nmerges>>
  BY DEF Draw
<1>2. Values /\ InDraw
  BY <1>1 DEF SrvInv
<1>3. /\ key \in Seq(Int) /\ mem \in Memory(N, N) /\ Len(key) \in Nat /\ key \in [N -> Int]
      /\ mem.data = [x \in N |-> x]
  BY <1>2, KeysAre DEF Values, Typed
<1>4. Scale \in Nat \ {0}
  BY ScaleAssumption
<1>5. PICK c, d : /\ Drawing(key, mem, list, out, last, c, d) /\ num \in 0..Len(c)
                  /\ Levels(key, Scale, c, d, num, sum, overdrawn)
  BY <1>2 DEF InDraw
<1>6. /\ c \in Seq(N) /\ Chain(mem, list) = c /\ Once(c) /\ Len(c) \in Nat /\ DOMAIN c = 1..Len(c)
      /\ \A i \in 1..Len(c) : c[i] \in N
      /\ d \in Seq(N) /\ num \in 1..Len(c) /\ Len(d) \in Nat /\ Size - Len(c) = Len(d)
  <2>1. DrawKnows(key, mem, list, out, last, c, d)
    BY <1>3, <1>5, DrawIs
  <2>2. num \in 1..Len(c)
    BY <1>1, <1>5, <2>1 DEF DrawKnows
  <2>3. Len(c) + Len(d) = Len(key)
    BY <1>5 DEF Drawing
  <2>4. Size - Len(c) = Len(d)
    BY <2>1, <2>3 DEF Size, DrawKnows
  <2> QED BY <1>5, <2>1, <2>2, <2>4 DEF DrawKnows, Drawing
<1> DEFINE od(r) == IF Overdraws(r) THEN overdrawn \cup {Len(d) + 1} ELSE overdrawn
<1>7. PICK r \in Draws :
        /\ \/ \E i \in DOMAIN c : Winner(c, r, i) /\ Pick(c[i]) /\ UNCHANGED pc
           \/ FallsOn(c, r) = {} /\ pc' = "crash" /\ UNCHANGED <<mem, list, out, last, num, sum>>
        /\ overdrawn' = od(r)
  BY <1>6 DEF Draw
<1>8. PICK l \in 1..Len(c) : Counted(key, Scale, c, l, num, sum, overdrawn)
  BY <1>1, <1>5 DEF Levels
<1>9. sum \in Int /\ r \in Int
  <2>1. sum \in Int
    BY <1>8 DEF Counted
  <2> QED BY <2>1 DEF Draws
<1>a. l \in FallsOn(c, r) \/ Overdraws(r)
  <2> SUFFICES ASSUME ~Overdraws(r) PROVE l \in FallsOn(c, r)
    OBVIOUS
  <2> DEFINE W == WeightsOf(key, Scale, c)
  <2>1. Weighs(key, Scale, c, W)
    BY <1>3, <1>4, <1>6, WeightsOfIs
  <2>2. l \in 0..Len(c)
    BY <1>6
  <2>3. W[l] \in Nat /\ sum <= W[l]
    BY <1>8, <2>1, <2>2 DEF Weighs, Counted
  <2> HIDE DEF W, N
  <2>4. r <= W[l]
    BY <1>9, <2>3 DEF Overdraws
  <2> QED BY <1>3, <1>6, <1>9, <2>4, DrawFalls DEF W
<1>b. CASE FallsOn(c, r) = {} /\ pc' = "crash" /\ UNCHANGED <<mem, list, out, last, num, sum>>
  <2>1. Overdraws(r)
    BY <1>a, <1>b
  <2>2. Values'
    BY <1>1, <1>2, <1>b DEF Values
  <2>3. Chain(mem, list)' = c /\ Len(key') - Len(c) + 1 \in overdrawn'
    <3>1. Chain(mem, list)' = Chain(mem', list')
      BY DEF Chain, Walk
    <3> QED BY <1>1, <1>6, <1>7, <1>b, <2>1, <3>1 DEF Size
  <2>4. OffTheList'
    BY <2>3 DEF OffTheList
  <2> QED BY <1>b, <2>2, <2>4 DEF SrvInv, Sorting
<1>10. ASSUME NEW i \in DOMAIN c, Winner(c, r, i), Pick(c[i]), UNCHANGED pc
       PROVE  SrvInv'
  <2> DEFINE t == c[i]
             rest == RemoveData(mem, list, mem.data[t])
             m2 == AfterDraw(rest, out, last, t)
             h2 == rest.head
             o2 == IF out = NULL THEN t ELSE out
             c2 == Without(c, i)
             d2 == With(d, Len(d) + 1, t)
  <2>1. /\ list' = h2 /\ mem' = m2 /\ out' = o2 /\ last' = t
        /\ num' = num - 1 /\ sum' = sum - (key[t] % Scale)
    BY <1>10 DEF Pick, AfterDraw, Hung, SumLeft, Weight
  <2>2. i \in 1..Len(c) /\ t \in N
    BY <1>6
  <2>3. /\ m2 \in Memory(N, N) /\ m2.data = mem.data
        /\ Drawing(key, m2, h2, o2, t, c2, d2)
    <3>1. PickKeeps(key, mem, list, out, last, c, d, i)
      <4>1. Drawing(key, mem, list, out, last, c, d)
        BY <1>5
      <4> QED BY <1>3, <2>2, <4>1, PickLeads
    <3> QED BY <3>1 DEF PickKeeps
  <2>4. Len(c2) = Len(c) - 1
    <3>1. c \in Seq(N) /\ Once(c) /\ i \in 1..Len(c)
      BY <1>6, <2>2
    <3> HIDE DEF N, t, od
    <3> QED BY <3>1, WithoutIs
  <2>5. h2 \in N \cup {NULL}
    <3> HIDE DEF m2, h2, o2, c2, d2, t
    <3>1. DrawKnows(key, m2, h2, o2, t, c2, d2)
      BY <1>3, <2>3, DrawIs
    <3> QED BY <3>1 DEF DrawKnows
  <2>6. Levels(key, Scale, c2, d2, num - 1, sum - (key[t] % Scale), overdrawn')
    <3>1. l < i => Overdraws(r)
      <4>1. l < i => l \in 1..i - 1
        BY <1>6, <2>2
      <4> QED BY <1>a, <1>10, <4>1 DEF Winner
    <3>2. overdrawn \subseteq overdrawn' /\ (l < i => Len(d) + 1 \in overdrawn')
      BY <1>7, <3>1
    <3>3. Ascends(key, Scale, c) /\ EarlyOf(key, Scale, d, c) \subseteq overdrawn
      BY <1>5 DEF Levels
    <3>4. key \in [N -> Int] /\ c \in Seq(N) /\ d \in Seq(N) /\ Once(c) /\ num \in 1..Len(c)
      BY <1>3, <1>6
    <3> HIDE DEF N, od
    <3> QED BY <1>4, <1>8, <2>2, <3>2, <3>3, <3>4, CountedNext
  <2>7. num - 1 \in 0..Len(c2)
    BY <1>6, <2>4
  <2> HIDE DEF m2, h2, o2, c2, d2, t, N, rest
  <2>8. Values'
    <3>1. Typed(key, m2, h2, p, q, tail, psize, qsize, split_point, nmerges)
      BY <1>2, <1>3, <2>3, <2>5 DEF Values, Typed, N
    <3> QED BY <1>1, <2>1, <3>1 DEF Values
  <2>9. InDraw'
    <3>1. \E cc, dd : /\ Drawing(key, m2, h2, o2, t, cc, dd) /\ num - 1 \in 0..Len(cc)
                      /\ Levels(key, Scale, cc, dd, num - 1, sum - (key[t] % Scale), overdrawn')
      BY <2>3, <2>6, <2>7
    <3> QED BY <1>1, <2>1, <3>1 DEF InDraw
  <2> QED BY <1>1, <1>10, <2>8, <2>9 DEF SrvInv, Sorting
<1> QED BY <1>7, <1>b, <1>10

(* SrvInv is inductive.                                                     *)
LEMMA SrvInvStep == SrvInv /\ [SrvNext]_srvVars => SrvInv'
<1> SUFFICES ASSUME SrvInv, [SrvNext]_srvVars PROVE SrvInv'
  OBVIOUS
<1>1. CASE Sort
  <2>1. UNCHANGED drawing
    BY <1>1 DEF Sort
  <2> QED
    BY <1>1, <2>1, CallKeeps, PassKeeps, SplitKeeps, TakeFirstKeeps, TakeSecondKeeps,
       MergedKeeps, EndPassKeeps DEF Sort, SortStep
<1>2. CASE Level
  BY <1>2, LevelKeeps
<1>3. CASE Draw
  BY <1>3, DrawKeeps
<1>4. CASE UNCHANGED srvVars
  BY <1>4 DEF SrvInv, Values, AtCall, AtPass, AtReturn, InSplit, InMerge, InDraw, OffTheList,
              Undrawn, srvVars, vars, drawing
<1> QED BY <1>1, <1>2, <1>3, <1>4 DEF SrvNext, Rest
-----------------------------------------------------------------------------
(* What follows from the invariant.                                         *)
LEMMA PartsAreKept == SrvInv => NoNodeLost
<1> SUFFICES ASSUME SrvInv, pc = "merge",
                    NEW parts, parts = Walk(mem.prev, tail) \o SubSeq(Chain(mem, p), 1, psize)
                                         \o Chain(mem, q)
             PROVE  Len(parts) = Size /\ {parts[i] : i \in DOMAIN parts} = Nodes
  BY DEF NoNodeLost
<1> DEFINE n == Len(key)
<1>1. Values /\ InMerge
  BY DEF SrvInv
<1>2. /\ key \in Seq(Int) /\ mem \in Memory(1..n, 1..n) /\ split_point \in Nat \ {0}
      /\ psize \in 0..n /\ qsize \in 0..split_point /\ n \in Nat /\ p \in (1..n) \cup {NULL}
  BY <1>1, KeysAre DEF Values, Typed
<1>3. PICK w, l : \E o \in 0..Len(key) :
        AtMerge(key, mem, list, tail, p, q, psize, qsize, split_point, nmerges, w, o, l)
  BY <1>1 DEF InMerge
<1>4. PICK o \in 0..Len(key) :
        AtMerge(key, mem, list, tail, p, q, psize, qsize, split_point, nmerges, w, o, l)
  BY <1>3
<1>5. MergeKnows(key, list, tail, p, q, psize, w, o)
  BY <1>2, <1>4, MergeIs
<1> DEFINE mid == o + psize
<1>6. /\ w \in Orders(n) /\ Output(mem, w, list, tail, o) /\ FirstRun(mem, w, o, mid, p)
      /\ Remaining(mem, w, mid, n, q)
  BY <1>4 DEF AtMerge
<1>7. mid \in o..n /\ mid \in 0..n /\ mid - o = psize
  BY <1>2, <1>5 DEF MergeKnows
<1> HIDE DEF n, mid
<1>8. Walk(mem.prev, tail) = Backwards(Part(w, 0, o))
  BY <1>2, <1>4, <1>6, OutputWalk DEF n
<1>9. SubSeq(Chain(mem, p), 1, psize) = Part(w, o, mid)
  <2>1. SubSeq(Chain(mem, p), 1, mid - o) = Part(w, o, mid)
    BY <1>2, <1>4, <1>6, <1>7, FirstRunWalk DEF n
  <2> QED BY <1>7, <2>1
<1>10. Chain(mem, q) = Part(w, mid, n)
  BY <1>2, <1>6, <1>7, RemainingWalk
<1>11. parts = Backwards(Part(w, 0, o)) \o Part(w, o, mid) \o Part(w, mid, n)
  BY <1>8, <1>9, <1>10
<1>12. o \in 0..n
  BY DEF n
<1>13. AllOf(parts, n)
  BY <1>2, <1>6, <1>7, <1>11, <1>12, PartsKept
<1> QED BY <1>13 DEF AllOf, Size, Nodes, n

(* A stable order of rising keys is the order of ta_list_sort.              *)
LEMMA RisingOrders ==
  ASSUME NEW n \in Nat, NEW k \in [1..n -> Int], NEW w \in Orders(n), Stable(k, w),
         NEW x \in Int, NEW y \in Int, Rising(Key(k, w), x, y),
         NEW i \in 1..n, NEW j \in 1..n, x < i, i < j, j <= y
  PROVE  k[w[i]] < k[w[j]] \/ (k[w[i]] = k[w[j]] /\ w[i] < w[j])
<1>1. /\ DOMAIN w = 1..n /\ k[w[i]] \in Int /\ k[w[j]] \in Int
      /\ Key(k, w)[i] = k[w[i]] /\ Key(k, w)[j] = k[w[j]] /\ DOMAIN Key(k, w) = 1..n
  <2>1. DOMAIN w = 1..n
    BY OrderIs
  <2>2. Key(k, w) \in [1..n -> Int] /\ \A h \in 1..n : Key(k, w)[h] = k[w[h]] /\ k[w[h]] \in Int
    BY KeyIs
  <2> QED BY <2>1, <2>2
<1>2. k[w[i]] <= k[w[j]]
  BY <1>1 DEF Rising
<1>3. k[w[i]] = k[w[j]] => w[i] < w[j]
  BY <1>1 DEF Stable
<1> QED BY <1>1, <1>2, <1>3

(* So is a run of them.                                                     *)
RunOrders(k, w, x, y) ==
  LET r == SubSeq(w, x, y) IN
  \A i, j \in DOMAIN r : i < j => k[r[i]] < k[r[j]] \/ (k[r[i]] = k[r[j]] /\ r[i] < r[j])

LEMMA RunIsInOrder ==
  ASSUME NEW n \in Nat, NEW k \in [1..n -> Int], NEW w \in Orders(n), Stable(k, w),
         NEW x \in 1..n, NEW y \in x..n, NEW z \in Int, Rising(Key(k, w), x - 1, z), y <= z
  PROVE  RunOrders(k, w, x, y)
<1> DEFINE r == SubSeq(w, x, y)
           L == y - x + 1
<1>1. w \in Seq(1..n) /\ Len(w) = n /\ \A i \in x..y : w[i] \in 1..n
  <2>1. w \in Seq(1..n) /\ Len(w) = n /\ \A i \in 1..n : w[i] \in 1..n
    BY OrderIs
  <2>2. \A i \in x..y : i \in 1..n
    OBVIOUS
  <2> QED BY <2>1, <2>2
<1>2. r \in Seq(1..n) /\ Len(r) = L /\ \A i \in 1..L : r[i] = w[x + i - 1]
  <2>1. x \in Int /\ y \in Int /\ x <= y
    OBVIOUS
  <2>2. /\ r \in Seq(1..n) /\ Len(r) = IF x <= y THEN y - x + 1 ELSE 0
        /\ \A i \in 1..y - x + 1 : r[i] = w[x + i - 1]
    BY <1>1, <2>1, SubSeqProperties
  <2> QED BY <2>1, <2>2
<1>3. DOMAIN r = 1..L
  BY <1>2, LenProperties
<1> HIDE DEF r
<1>4. ASSUME NEW i \in 1..L, NEW j \in 1..L, i < j
      PROVE  k[r[i]] < k[r[j]] \/ (k[r[i]] = k[r[j]] /\ r[i] < r[j])
  <2> DEFINE a == x + i - 1
             b == x + j - 1
  <2>1. a \in 1..n /\ b \in 1..n /\ x - 1 < a /\ a < b /\ b <= z
    BY <1>4
  <2>2. r[i] = w[a] /\ r[j] = w[b]
    BY <1>2
  <2> HIDE DEF a, b, L
  <2> DEFINE u == x - 1
  <2>3. u \in Int /\ u < a /\ Rising(Key(k, w), u, z)
    BY <2>1
  <2> HIDE DEF u
  <2>4. k[w[a]] < k[w[b]] \/ (k[w[a]] = k[w[b]] /\ w[a] < w[b])
    BY <2>1, <2>3, RisingOrders
  <2> QED BY <2>2, <2>4
<1> QED BY <1>3, <1>4 DEF RunOrders, r

(* So every run from a multiple of split_point on is sorted.                *)
LEMMA RunsAreSorted == SrvInv => RunsSorted
<1> SUFFICES ASSUME SrvInv, pc = "pass", NEW start \in DOMAIN Chain(mem, list),
                    (start - 1) % split_point = 0
             PROVE  LET c == Chain(mem, list) IN
                    InOrder(SubSeq(c, start, IF start + split_point > Len(c) THEN Len(c)
                                             ELSE start + split_point - 1))
  BY DEF RunsSorted
<1> DEFINE n == Len(key)
<1>1. Values /\ AtPass
  BY DEF SrvInv
<1>2. /\ key \in Seq(Int) /\ mem \in Memory(1..n, 1..n) /\ split_point \in Nat \ {0}
      /\ n \in Nat /\ key \in [1..n -> Int] /\ IsFiniteSet(1..n) /\ NULL \notin 1..n
  BY <1>1, KeysAre DEF Values, Typed
<1>3. PICK w : Whole(key, mem, list, w) /\ RunsFrom(Key(key, w), split_point, 0)
  BY <1>1 DEF AtPass
<1>4. w \in Orders(n) /\ Linked(mem, list, w) /\ Stable(key, w)
  BY <1>3 DEF Whole
<1> HIDE DEF n
<1>5. Chain(mem, list) = w
  BY <1>2, <1>4, ChainIs
<1>6. Len(w) = n /\ DOMAIN w = 1..n
  BY <1>2, <1>4, OrderIs
<1> DEFINE s == split_point
           e == IF start + s > n THEN n ELSE start + s - 1
           z == start - 1 + s
<1>7. start \in 1..n /\ start - 1 \in Mult(s)
  BY <1>2, <1>5, <1>6 DEF Mult
<1>8. Rising(Key(key, w), start - 1, z)
  <2>1. 0 <= start - 1
    BY <1>2, <1>7
  <2> QED BY <1>3, <1>7, <2>1 DEF RunsFrom
<1>9. e \in start..n /\ e <= z /\ z \in Int
  <2>1. n \in Nat /\ s \in Nat /\ s > 0 /\ start \in 1..n
    BY <1>2, <1>7
  <2> HIDE DEF s
  <2>2. CASE start + s > n
    BY <2>1, <2>2
  <2>3. CASE ~(start + s > n)
    BY <2>1, <2>3
  <2> QED BY <2>2, <2>3
<1> HIDE DEF e, z
<1>10. RunOrders(key, w, start, e)
  BY <1>2, <1>4, <1>7, <1>8, <1>9, RunIsInOrder
<1>11. InOrder(SubSeq(w, start, e))
  BY <1>10 DEF RunOrders, InOrder
<1> QED BY <1>5, <1>6, <1>11 DEF e

(* The order in which the sort returns is sorted throughout.                *)
LEMMA ReturnIsSorted == SrvInv => Sorted
<1> SUFFICES ASSUME SrvInv, pc = "return"
             PROVE  /\ Len(Chain(mem, list)) = Size /\ InOrder(Chain(mem, list))
                    /\ WellFormed(mem, list)
  BY DEF Sorted
<1> DEFINE n == Len(key)
<1>1. Values /\ AtReturn
  BY DEF SrvInv
<1>2. /\ mem \in Memory(1..n, 1..n) /\ n \in Nat /\ key \in [1..n -> Int]
      /\ IsFiniteSet(1..n) /\ NULL \notin 1..n
  BY <1>1, KeysAre DEF Values, Typed
<1>3. PICK w : Whole(key, mem, list, w) /\ Rising(Key(key, w), 0, Len(key))
  BY <1>1 DEF AtReturn
<1>4. w \in Orders(n) /\ Linked(mem, list, w) /\ Stable(key, w) /\ Rising(Key(key, w), 0, n)
  BY <1>3 DEF Whole
<1> HIDE DEF n
<1>5. Chain(mem, list) = w
  BY <1>2, <1>4, ChainIs
<1>6. WellFormed(mem, list)
  BY <1>2, <1>4, LinkedWellFormed
<1>7. Len(w) = n /\ DOMAIN w = 1..n
  BY <1>2, <1>4, OrderIs
<1>8. InOrder(w)
  <2> SUFFICES ASSUME NEW i \in 1..n, NEW j \in 1..n, i < j
               PROVE  key[w[i]] < key[w[j]] \/ (key[w[i]] = key[w[j]] /\ w[i] < w[j])
    BY <1>7 DEF InOrder
  <2>1. 0 \in Int /\ n \in Int /\ 0 < i /\ j <= n
    BY <1>2
  <2> QED BY <1>2, <1>4, <2>1, RisingOrders
<1> QED BY <1>5, <1>6, <1>7, <1>8 DEF Size, n

(* The two lists that the drawing makes of the targets, and their levels.   *)
LEMMA DrawnAndLeft ==
  ASSUME SrvInv, pc = "draw"
  PROVE  \E c, d : /\ Left = c /\ Drawn = d /\ Len(Chain(mem, out)) >= Size - Len(Left)
                   /\ ToSet(d \o c) = Nodes
                   /\ Len(c) \in Nat /\ DOMAIN c = 1..Len(c) /\ DOMAIN d = 1..Len(d)
                   /\ Levels(key, Scale, c, d, num, sum, overdrawn)
                   /\ c \in Seq(Nodes) /\ num \in 0..Len(c)
<1>1. Values /\ InDraw
  BY DEF SrvInv
<1>2. key \in Seq(Int) /\ mem \in Memory(1..Len(key), 1..Len(key))
  BY <1>1 DEF Values, Typed
<1>3. PICK c, d : /\ Drawing(key, mem, list, out, last, c, d) /\ num \in 0..Len(c)
                  /\ Levels(key, Scale, c, d, num, sum, overdrawn)
  BY <1>1 DEF InDraw
<1>4. /\ Chain(mem, list) = c /\ Len(c) \in Nat /\ DOMAIN c = 1..Len(c) /\ DOMAIN d = 1..Len(d)
      /\ c \in Seq(1..Len(key))
  <2>1. DrawKnows(key, mem, list, out, last, c, d)
    BY <1>2, <1>3, DrawIs
  <2> QED BY <2>1 DEF DrawKnows
<1>5. /\ Len(Chain(mem, out)) >= Len(key) - Len(c)
      /\ SubSeq(Chain(mem, out), 1, Len(key) - Len(c)) = d
      /\ ToSet(d \o c) = 1..Len(key)
  BY <1>2, <1>3, DrawWalk
<1>6. Left = c /\ Drawn = d /\ Size = Len(key) /\ Nodes = 1..Len(key)
  BY <1>4, <1>5 DEF Left, Drawn, Size, Nodes
<1> QED BY <1>3, <1>4, <1>5, <1>6

LEMMA LevelsAreInOrder == SrvInv => LevelsInOrder
<1> SUFFICES ASSUME SrvInv PROVE LevelsInOrder
  OBVIOUS
<1> DEFINE level == SameLevel(Left)
<1>1. pc = "crash" => Size - Len(Left) + 1 \in overdrawn
  BY DEF SrvInv, OffTheList, Left, Size
<1>2. ASSUME pc = "draw"
      PROVE  /\ Early(Drawn, Left) \subseteq overdrawn
             /\ num > 0 => /\ num <= level /\ sum <= Weights(Left, level)
                           /\ overdrawn = {} => num = level /\ sum = Weights(Left, level)
  <2>1. PICK c, d : /\ Left = c /\ Drawn = d /\ Len(c) \in Nat /\ DOMAIN c = 1..Len(c)
                    /\ DOMAIN d = 1..Len(d)
                    /\ Levels(key, Scale, c, d, num, sum, overdrawn)
                    /\ c \in Seq(Nodes) /\ num \in 0..Len(c)
    BY <1>2, DrawnAndLeft
  <2>2. Early(d, c) = EarlyOf(key, Scale, d, c)
    BY <2>1, Zenon DEF Early, EarlyOf, Prio, Priority
  <2>3. EarlyOf(key, Scale, d, c) \subseteq overdrawn
    BY <2>1 DEF Levels
  <2>4. ASSUME num > 0
        PROVE  /\ num <= level /\ sum <= Weights(c, level)
               /\ overdrawn = {} => num = level /\ sum = Weights(c, level)
    <3>1. PICK l \in 1..Len(c) : Counted(key, Scale, c, l, num, sum, overdrawn)
      BY <2>1, <2>4 DEF Levels
    <3>2. c # <<>>
      BY <2>1, <2>4, LenProperties
    <3>3. LevelEnds(key, Scale, c, level)
      BY <2>1, <3>2, SameLevelEnds
    <3>4. LevelEnds(key, Scale, c, l)
      BY <3>1 DEF Counted
    <3>5. l = level
      BY <2>1, <3>3, <3>4, LevelUnique
    <3>6. Weights(c, level) = WeightsOf(key, Scale, c)[level]
      BY WeightsAre
    <3> HIDE DEF level
    <3> QED BY <3>1, <3>5, <3>6 DEF Counted
  <2> QED BY <2>1, <2>2, <2>3, <2>4
<1> QED BY <1>1, <1>2 DEF LevelsInOrder
-----------------------------------------------------------------------------
(* Every pointer of the sort and of the drawing is a node of the list or    *)
(* NULL, and the sizes and counts of the sort stay within the list or, as   *)
(* qsize does, within split_point (list.c:295-391, srv.c:119-180).          *)
THEOREM SrvTypes == SrvSpec => []TypeOK
<1>1. SrvInv => TypeOK
  BY DEF SrvInv, Values, Typed, Memory, TypeOK, Pointers, Nodes, Size
<1> QED BY <1>1, SrvInvInit, SrvInvStep, PTL DEF SrvSpec

(* While two runs are merged every node can be reached, once: backwards     *)
(* from tail, in the first run, or on the rest of the list                  *)
(* (list.c:330-371).                                                        *)
THEOREM SortLosesNoNode == SrvSpec => []NoNodeLost
<1> QED BY PartsAreKept, SrvInvInit, SrvInvStep, PTL DEF SrvSpec

(* Whatever the length of the list, every pass of ta_list_sort finds the    *)
(* runs of split_point nodes sorted (list.c:307-388).                       *)
THEOREM PassesFindRuns == SrvSpec => []RunsSorted
<1> QED BY RunsAreSorted, SrvInvInit, SrvInvStep, PTL DEF SrvSpec

(* ta_list_sort returns the whole list, sorted, equal elements in the order *)
(* they had, and linked both ways (list.c:295-391).                         *)
THEOREM SortSorts == SrvSpec => []Sorted
<1> QED BY ReturnIsSorted, SrvInvInit, SrvInvStep, PTL DEF SrvSpec

(* While the targets are drawn, each is in the output or on the list, and   *)
(* none in both, whatever numbers rand() gives (srv.c:137-177).             *)
THEOREM DrawKeepsTargets == SrvSpec => []TargetsKept
<1>1. SrvInv => TargetsKept
  <2> SUFFICES ASSUME SrvInv, pc = "draw"
               PROVE  /\ Len(Chain(mem, out)) >= Size - Len(Left)
                      /\ ToSet(Drawn \o Left) = Nodes
    BY DEF TargetsKept
  <2> QED BY DrawnAndLeft
<1> QED BY <1>1, SrvInvInit, SrvInvStep, PTL DEF SrvSpec

(* A target comes out before one of an earlier priority, and the search     *)
(* runs off the list, only where the number drawn was above the sum of the  *)
(* weights, as the rounding of rand()/RAND_MAX allows (srv.c:145-177).      *)
THEOREM PrioritiesInOrder == SrvSpec => []LevelsInOrder
<1>1. SrvInv => LevelsInOrder
  BY LevelsAreInOrder
<1> QED BY <1>1, SrvInvInit, SrvInvStep, PTL DEF SrvSpec
=============================================================================
