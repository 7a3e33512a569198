---------------------------- MODULE MCAtomObjects ----------------------------
(* AtomObjects for callers whose entries have links, which no entry drops,   *)
(* with the symmetry of the addresses.                                       *)
EXTENDS AtomObjects, TLC

EntryLinks == {<<"entry", "links">>}
Addresses == Permutations(Objects)
=============================================================================
