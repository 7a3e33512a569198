------------------------------ MODULE HashTable ------------------------------
(***************************************************************************)
(* The hash table of src/hashtable.c.  All pairs are on one circular list; *)
(* a bucket is the part of it between two of its nodes, `first' and        *)
(* `last', or empty if both point to the list's sentinel.  The list is a   *)
(* sequence here, so unlinking a node and linking it in before another are *)
(* what they are; what can go wrong is the buckets' pointers into it.      *)
(*                                                                         *)
(* There is at most one pair per key, since setting a key deletes the old   *)
(* pair before it allocates a new one, so a pair is named by its key here.  *)
(* What free_key and free_value do to the application's memory is left out: *)
(* the one user of the table in the library passes NULL for both.           *)
(***************************************************************************)
EXTENDS Naturals, SequencesExt, FiniteSetsExt

CONSTANTS
  Keys, Vals,
  None,                 \* "no value"
  Sentinel,             \* the node that is no pair
  Hash,                 \* key -> hash value
  Primes,               \* how many buckets the table has at first, second...
  GrowWhileIterating    \* whether a table is rehashed while one iterates

ASSUME NoneAssumption == None \notin Vals
ASSUME KeysAssumption == IsFiniteSet(Keys)
ASSUME SentinelAssumption == Sentinel \notin Keys
ASSUME HashAssumption == Hash \in [Keys -> Nat]
ASSUME PrimesAssumption ==
  /\ Primes \in Seq(Nat \ {0}) /\ Primes # <<>>
  /\ Primes[Len(Primes)] >= Cardinality(Keys)

VARIABLES
  ring,      \* the pairs on the circular list, in order from the sentinel
  val,       \* key -> the value in its pair
  buckets,   \* bucket -> [first, last]; <<>> if the array is NULL
  grown,     \* hashtable->num_buckets, an index into primes[]
  size,      \* hashtable->size
  iter,      \* the pair an iterator points to, Sentinel if there is none
  visited,   \* history: keys the iterator pointed to
  through    \* history: keys that were in the table all the time
table == <<ring, val, buckets, grown, size>>
vars == <<table, iter, visited, through>>

EmptyBucket == [first |-> Sentinel, last |-> Sentinel]
NoBuckets(n) == [b \in 0..n - 1 |-> EmptyBucket]

(* hashtable_init                                                           *)
NewTable == [ring |-> <<>>, val |-> [k \in Keys |-> None],
             buckets |-> NoBuckets(Primes[1]), grown |-> 0, size |-> 0]
Table == [ring |-> ring, val |-> val, buckets |-> buckets, grown |-> grown,
          size |-> size]
Init ==
  /\ ring = <<>> /\ val = NewTable.val
  /\ buckets = NewTable.buckets /\ grown = 0 /\ size = 0
  /\ iter = Sentinel /\ visited = {} /\ through = {}
-----------------------------------------------------------------------------
(* The functions the operations are made of, on a table t.                  *)

Position(r, k) == CHOOSE i \in DOMAIN r : r[i] = k
NumBuckets(t) == Primes[t.grown + 1]
BucketOf(t, k) == Hash[k] % NumBuckets(t)

(* insert_to_bucket: a new bucket goes to the end of the list, a new pair   *)
(* to the front of its bucket.                                              *)
InsertToBucket(t, k) ==
  LET b == t.buckets[BucketOf(t, k)] IN
  IF b = EmptyBucket
  THEN [t EXCEPT !.ring = Append(@, k),
                 !.buckets[BucketOf(t, k)] = [first |-> k, last |-> k]]
  ELSE [t EXCEPT !.ring = InsertAt(@, Position(@, b.first), k),
                 !.buckets[BucketOf(t, k)].first = k]

(* hashtable_find_pair walks from first to last.                            *)
Members(t, b) ==
  IF b = EmptyBucket THEN <<>>
  ELSE SubSeq(t.ring, Position(t.ring, b.first), Position(t.ring, b.last))
Found(t, k) ==
  LET b == t.buckets[BucketOf(t, k)] IN
  /\ b # EmptyBucket
  /\ \E i \in Position(t.ring, b.first)..Position(t.ring, b.last) : t.ring[i] = k

(* hashtable_do_del: the bucket gives way on the side the pair is at, then  *)
(* the pair is unlinked and freed.                                          *)
Shrunk_FirstOnly(r, b, k) ==
  IF k = b.first /\ k = b.last THEN EmptyBucket
  ELSE IF k = b.first THEN [b EXCEPT !.first = r[Position(r, k) + 1]]
  ELSE b

Shrunk(r, b, k) ==
  IF k = b.first /\ k = b.last THEN EmptyBucket
  ELSE IF k = b.first THEN [b EXCEPT !.first = r[Position(r, k) + 1]]
  ELSE IF k = b.last THEN [b EXCEPT !.last = r[Position(r, k) - 1]]
  ELSE b

DoDel_KeepsSize(t, k) ==
  IF ~Found(t, k) THEN t
  ELSE [t EXCEPT !.buckets[BucketOf(t, k)] = Shrunk(t.ring, @, k),
                 !.ring = RemoveAt(@, Position(@, k)), !.val[k] = None]

DoDel(t, k) ==
  IF ~Found(t, k) THEN t
  ELSE [t EXCEPT !.buckets[BucketOf(t, k)] = Shrunk(t.ring, @, k),
                 !.ring = RemoveAt(@, Position(@, k)), !.val[k] = None, !.size = @ - 1]

(* hashtable_do_rehash: the next prime, and every pair in list order into   *)
(* the new buckets.                                                         *)
DoRehash_InPlace(t) ==
  [t EXCEPT !.grown = @ + 1,
            !.buckets = [b \in 0..Primes[t.grown + 2] - 1 |->
                           IF b \in DOMAIN @ THEN @[b] ELSE EmptyBucket]]

DoRehash(t) ==
  LET Moved[n \in 0..Len(t.ring)] ==
        IF n = 0
        THEN [t EXCEPT !.grown = @ + 1, !.ring = <<>>,
                       !.buckets = NoBuckets(Primes[t.grown + 2])]
        ELSE InsertToBucket(Moved[n - 1], t.ring[n])
  IN  Moved[Len(t.ring)]

Becomes(t) ==
  /\ ring' = t.ring /\ val' = t.val /\ buckets' = t.buckets
  /\ grown' = t.grown /\ size' = t.size
-----------------------------------------------------------------------------
(* hashtable_set: the old pair goes first, then the table grows if it is    *)
(* full, then the new pair comes in.  Memory may run out at either          *)
(* allocation.                                                              *)
Full(t) == t.size >= NumBuckets(t)
Grown(t) == IF Full(t) THEN DoRehash(t) ELSE t
Added(t, k, v) == InsertToBucket([t EXCEPT !.val[k] = v, !.size = @ + 1], k)

(* A table whose bucket array is gone can only be closed or iterated over.  *)
(* An iterator stays valid "as long as the item that is referenced by the   *)
(* iterator is not deleted" (hashtable.h:168-172).                          *)
Touch(k) ==
  /\ buckets # <<>>
  /\ iter # k
  /\ through' = through \ {k}
  /\ UNCHANGED <<iter, visited>>

MayGrow(k) ==
  iter = Sentinel \/ ~Full(DoDel(Table, k)) \/ GrowWhileIterating

Set(k, v) ==
  /\ Touch(k) /\ MayGrow(k)
  /\ Becomes(Added(Grown(DoDel(Table, k)), k, v))

(* Growing frees the old array before it allocates the new one.             *)
SetFails(k) ==
  /\ Touch(k) /\ MayGrow(k)
  /\ \/ Becomes(Grown(DoDel(Table, k)))
     \/ /\ Full(DoDel(Table, k))
        /\ Becomes([DoDel(Table, k) EXCEPT !.buckets = <<>>, !.grown = @ + 1])

Del(k) == Touch(k) /\ Becomes(DoDel(Table, k))

(* hashtable_close frees everything; the table is then initialised anew.    *)
Close ==
  /\ Becomes(NewTable)
  /\ iter' = Sentinel /\ visited' = {} /\ through' = {}

(* hashtable_iter and hashtable_iter_next move along the list.              *)
PointTo(i, seen) ==
  /\ iter' = IF i \in DOMAIN ring THEN ring[i] ELSE Sentinel
  /\ visited' = seen \cup ({iter'} \ {Sentinel})

Iter_SkipsFirst ==
  /\ iter = Sentinel
  /\ PointTo(2, {})
  /\ through' = ToSet(ring)
  /\ UNCHANGED table

Iter ==
  /\ iter = Sentinel
  /\ PointTo(1, {})
  /\ through' = ToSet(ring)
  /\ UNCHANGED table

IterNext ==
  /\ iter # Sentinel
  /\ PointTo(Position(ring, iter) + 1, visited)
  /\ UNCHANGED <<table, through>>

Next ==
  \/ \E k \in Keys, v \in Vals : Set(k, v)
  \/ \E k \in Keys : SetFails(k) \/ Del(k)
  \/ Close \/ Iter \/ IterNext

Spec == Init /\ [][Next]_vars
-----------------------------------------------------------------------------
TypeOK ==
  /\ ring \in Seq(Keys)
  /\ val \in [Keys -> Vals \cup {None}]
  /\ grown \in 0..Len(Primes) - 1
  /\ buckets = <<>> \/ buckets \in
       [0..Primes[grown + 1] - 1 -> [first : Keys \cup {Sentinel},
                                     last : Keys \cup {Sentinel}]]
  /\ size \in 0..Cardinality(Keys)
  /\ iter \in Keys \cup {Sentinel}
  /\ visited \subseteq Keys /\ through \subseteq Keys

(* After any history of sets, deletions and rehashes the buckets cut the    *)
(* list into disjoint parts: every pair lies between the first and the last *)
(* node of the bucket its hash selects and of no other; a key is there once *)
(* at most, and size counts them.                                           *)
BucketsPartition ==
  buckets # <<>> =>
    /\ \A b \in DOMAIN buckets :
         ToSet(Members(Table, buckets[b])) =
           {k \in ToSet(ring) : BucketOf(Table, k) = b}
    /\ Cardinality(ToSet(ring)) = Len(ring) /\ size = Len(ring)

(* Looking a key up finds what was last set and not deleted, whatever other *)
(* keys came, went and collided and however often the table grew; a set     *)
(* that runs out of memory deletes the key.  Without buckets, nobody looks. *)
Lookup(k) ==
  IF buckets = <<>> \/ Found(Table, k) THEN val[k] ELSE None
Map == INSTANCE KeyValueMap WITH map <- [k \in Keys |-> Lookup(k)]
ImplementsMap == Map!Spec

(* An iteration that ends has pointed to every key that was in the table    *)
(* all the time; meanwhile "other values may be added or deleted"           *)
(* (hashtable.h:170).                                                       *)
IterationComplete ==
  [][IterNext /\ iter' = Sentinel => through \subseteq visited']_vars
=============================================================================
