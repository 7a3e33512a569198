---------------------------- MODULE KeyValueMap ------------------------------
(***************************************************************************)
(* What src/hashtable.h:102-157 promises: a map from keys to values, where *)
(* setting a key replaces its value.  HashTable implements it.             *)
(***************************************************************************)
CONSTANTS Keys, Vals,
          None          \* "no value", of a key that is not in the map

VARIABLE map

Init == map = [k \in Keys |-> None]

(* The value of k changes and no other.                                     *)
Changes(k) == \A q \in Keys \ {k} : map'[q] = map[q]

(* hashtable_set; hashtable_del, or a hashtable_set that runs out of        *)
(* memory; hashtable_close followed by _init.                               *)
Put(k) == map'[k] \in Vals /\ Changes(k)
Delete(k) == map'[k] = None /\ map[k] # None /\ Changes(k)
Clear == map' = [k \in Keys |-> None]

Next == (\E k \in Keys : Put(k) \/ Delete(k)) \/ Clear

Spec == Init /\ [][Next]_map
=============================================================================
