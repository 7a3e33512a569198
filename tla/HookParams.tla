------------------------------ MODULE HookParams -----------------------------
(* The parameters that HookOrder and EventHooks share.                       *)
EXTENDS Naturals

CONSTANTS
  Events,    \* names of events
  Hooks,     \* hook functions
  AnyHook,   \* the NULL that disconnects every hook of an event
  MaxRegs,   \* bound: registrations made, each with one hook_data
  MaxDepth   \* bound: events raised inside one another

ASSUME HookAssumption == AnyHook \notin Hooks
ASSUME RegAssumption == MaxRegs \in Nat /\ MaxDepth \in Nat
=============================================================================
