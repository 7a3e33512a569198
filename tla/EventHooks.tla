------------------------------ MODULE EventHooks -----------------------------
(***************************************************************************)
(* The event hooks of src/xmpp.c:131-147 and 581-662: client->events maps  *)
(* an event to the head of a linked list of hook_data, and a dispatch      *)
(* walks that list with a pointer while the hooks it calls may change it.  *)
(*                                                                         *)
(* The events exist from ta_xmpp_client_init on; connecting to another one *)
(* changes no list and is left out.  Every connect allocates one list node *)
(* and one hook_data, which disconnect frees together: both have the same  *)
(* number here, in the order of their allocation, and no address is used   *)
(* twice, so that a use after free is seen as such.                        *)
(***************************************************************************)
EXTENDS HookParams, TaListOps, SequencesExt

CONSTANT SelfDisconnect   \* whether hooks are disconnected while they are called

Nodes == 1..MaxRegs

ASSUME SelfAssumption == SelfDisconnect \in BOOLEAN

VARIABLES
  made,    \* nodes allocated so far
  st,      \* node -> "unused", "live" or "freed"
  fn,      \* node -> the hook function in its hook_data
  mem,     \* the links and data of the nodes
  head,    \* event -> the list the hash table holds for it
  calls    \* the dispatches in progress: event, the loop's tmp, and as
           \* history the hooks called so far
vars == <<made, st, fn, mem, head, calls>>

Cleared == [n \in Nodes |-> NULL]
Init ==
  /\ made = 0
  /\ st = [n \in Nodes |-> "unused"]
  /\ fn = [n \in Nodes |-> AnyHook]
  /\ mem = [next |-> Cleared, prev |-> Cleared, data |-> Cleared]
  /\ head = [e \in Events |-> NULL]
  /\ calls = <<>>

(* ta_xmpp_client_event_connect: the list goes back into the hash table     *)
(* only if it was empty; otherwise appending leaves its head alone.         *)
Connected(e, n) == AppendNode(mem, head[e], n, n)
Connect_HeadNotStored(e, h) ==
  /\ made < MaxRegs
  /\ made' = made + 1
  /\ st' = [st EXCEPT ![made + 1] = "live"]
  /\ fn' = [fn EXCEPT ![made + 1] = h]
  /\ mem' = Connected(e, made + 1).mem
  /\ UNCHANGED <<head, calls>>

Connect(e, h) ==
  /\ made < MaxRegs
  /\ made' = made + 1
  /\ st' = [st EXCEPT ![made + 1] = "live"]
  /\ fn' = [fn EXCEPT ![made + 1] = h]
  /\ mem' = Connected(e, made + 1).mem
  /\ head' = [head EXCEPT ![e] = IF @ = NULL THEN Connected(e, made + 1).head ELSE @]
  /\ UNCHANGED calls

(* ta_xmpp_client_event_disconnect walks the list; what matches is removed  *)
(* by its data pointer, and its hook_data and node are freed.  Finally the  *)
(* list goes back into the hash table.                                      *)
Matching(e, h) == {n \in ToSet(Chain(mem, head[e])) : h = AnyHook \/ fn[n] = h}
Disconnected(e, h) ==
  LET c == Chain(mem, head[e])
      Left[i \in 0..Len(c)] ==
        IF i = 0 THEN List(mem, head[e])
        ELSE LET l == Left[i - 1]
             IN  IF c[i] \in Matching(e, h) THEN RemoveData(l.mem, l.head, mem.data[c[i]])
                 ELSE l
  IN  Left[Len(c)]
Calling(n) == \E i \in DOMAIN calls : calls[i].at = n

Disconnect_HeadNotStored(e, h) ==
  /\ SelfDisconnect \/ \A n \in Matching(e, h) : ~Calling(n)
  /\ mem' = Disconnected(e, h).mem
  /\ st' = [n \in Nodes |-> IF n \in Matching(e, h) THEN "freed" ELSE st[n]]
  /\ UNCHANGED <<made, fn, head, calls>>

Disconnect(e, h) ==
  /\ SelfDisconnect \/ \A n \in Matching(e, h) : ~Calling(n)
  /\ mem' = Disconnected(e, h).mem
  /\ head' = [head EXCEPT ![e] = Disconnected(e, h).head]
  /\ st' = [n \in Nodes |-> IF n \in Matching(e, h) THEN "freed" ELSE st[n]]
  /\ UNCHANGED <<made, fn, calls>>
-----------------------------------------------------------------------------
(* _ta_xmpp_client_call_event_hooks.  The hook at the loop's tmp has been   *)
(* called and may call everything else in this module before it returns.    *)
Top == calls[Len(calls)]
Call(e, n, seen) == [ev |-> e, at |-> n, seen |-> seen \cup {n}]
Pop == calls' = SubSeq(calls, 1, Len(calls) - 1)

Emit(e) ==
  /\ Len(calls) < MaxDepth
  /\ head[e] # NULL
  /\ calls' = Append(calls, Call(e, head[e], {}))
  /\ UNCHANGED <<made, st, fn, mem, head>>

(* The hook returned a true value.                                          *)
StopHooks ==
  /\ calls # <<>>
  /\ Pop
  /\ UNCHANGED <<made, st, fn, mem, head>>

(* It returned false: tmp = tmp->next.  Freed memory may hold anything.     *)
Follow(n) == IF st[n] = "live" THEN {mem.next[n]} ELSE Nodes \cup {NULL}
Advance_NoEnd ==
  /\ calls # <<>>
  /\ \E n \in Follow(Top.at) :
       calls' = [calls EXCEPT ![Len(calls)] = Call(Top.ev, n, Top.seen)]
  /\ UNCHANGED <<made, st, fn, mem, head>>

Advance ==
  /\ calls # <<>>
  /\ \E n \in Follow(Top.at) :
       IF n = NULL THEN Pop
       ELSE calls' = [calls EXCEPT ![Len(calls)] = Call(Top.ev, n, Top.seen)]
  /\ UNCHANGED <<made, st, fn, mem, head>>

Next ==
  \/ \E e \in Events, h \in Hooks : Connect(e, h)
  \/ \E e \in Events, h \in Hooks \cup {AnyHook} : Disconnect(e, h)
  \/ \E e \in Events : Emit(e)
  \/ StopHooks \/ Advance

Spec == Init /\ [][Next]_vars
-----------------------------------------------------------------------------
TypeOK ==
  /\ made \in 0..MaxRegs
  /\ st \in [Nodes -> {"unused", "live", "freed"}]
  /\ fn \in [Nodes -> Hooks \cup {AnyHook}]
  /\ mem \in [next : [Nodes -> Nodes \cup {NULL}],
              prev : [Nodes -> Nodes \cup {NULL}],
              data : [Nodes -> Nodes \cup {NULL}]]
  /\ head \in [Events -> Nodes \cup {NULL}]
  /\ calls \in Seq([ev : Events, at : Nodes, seen : SUBSET Nodes])

Listed(e) == ToSet(Chain(mem, head[e]))

(* After any history of connects and disconnects every list is well formed, *)
(* every hook_data that has not been freed is on exactly one list and       *)
(* nothing freed is on any.                                                 *)
HooksOwned ==
  /\ \A e \in Events : WellFormed(mem, head[e])
  /\ \A n \in Nodes : (st[n] = "live") = (\E e \in Events : n \in Listed(e))
  /\ \A e1, e2 \in Events : e1 # e2 => Listed(e1) \cap Listed(e2) = {}

(* Hooks are called as HookOrder says: in the order in which they were      *)
(* connected, none passed over and none called twice, whatever the hooks    *)
(* connect and disconnect meanwhile.                                        *)
Order == INSTANCE HookOrder WITH hooks <- [e \in Events |-> Listed(e)]
ImplementsHookOrder == Order!Spec
=============================================================================
