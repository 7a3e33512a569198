---------------------------- MODULE MCEventHooks -----------------------------
(* Symmetry of the events and hooks of EventHooks, which has none of its own *)
(* use for their names.                                                      *)
EXTENDS EventHooks

CONSTANTS e1, e2, h1, h2

HookSymmetry == Permutations({e1, e2}) \cup Permutations({h1, h2})
=============================================================================
