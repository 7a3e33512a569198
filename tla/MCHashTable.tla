---------------------------- MODULE MCHashTable ------------------------------
(* A small table that grows from two buckets to three and to five.  In two   *)
(* buckets keys 1, 2 and 3 collide and key 4 has the other; in three keys 1  *)
(* and 2 collide, in five keys 3 and 4.                                      *)
EXTENDS HashTable

CONSTANTS v1, v2

SmallHash == [k \in Keys |-> CASE k = 1 -> 0 [] k = 2 -> 6 [] k = 3 -> 8 [] OTHER -> 13]
SmallPrimes == <<2, 3, 5>>
ValueSymmetry == Permutations({v1, v2})
=============================================================================
