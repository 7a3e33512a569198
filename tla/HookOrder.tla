------------------------------ MODULE HookOrder ------------------------------
(***************************************************************************)
(* What the event hooks of a client promise (src/xmpp.c:131-147, 581-662;  *)
(* include/taningia/xmpp.h:203-257), without lists or memory: the hooks    *)
(* connected to an event are called in the order in which they were        *)
(* connected, until one returns true.  A hook may connect, disconnect and  *)
(* raise events itself while it is being called; the dispatch then goes on *)
(* with the next hook connected after it.                                  *)
(*                                                                         *)
(* Every successful connect makes a registration; they are numbered as     *)
(* they are made.  EventHooks implements this with linked lists.           *)
(***************************************************************************)
EXTENDS HookParams, Sequences

VARIABLES
  made,      \* registrations made so far
  fn,        \* registration -> its hook function
  hooks,     \* event -> the registrations connected to it
  calls      \* the dispatches in progress, outermost first: which event,
             \* which registration is being called, which ones were called
orderVars == <<made, fn, hooks, calls>>

Regs == 1..MaxRegs
Calls == [ev : Events, at : Regs, seen : SUBSET Regs]

Init ==
  /\ made = 0
  /\ fn = [n \in Regs |-> AnyHook]
  /\ hooks = [e \in Events |-> {}]
  /\ calls = <<>>

(* ta_xmpp_client_event_connect                                             *)
Connect(e, h) ==
  /\ made < MaxRegs
  /\ made' = made + 1
  /\ fn' = [fn EXCEPT ![made + 1] = h]
  /\ hooks' = [hooks EXCEPT ![e] = @ \cup {made + 1}]
  /\ UNCHANGED calls

(* ta_xmpp_client_event_disconnect                                          *)
Matching(e, h) == {n \in hooks[e] : h = AnyHook \/ fn[n] = h}
Disconnect(e, h) ==
  /\ hooks' = [hooks EXCEPT ![e] = @ \ Matching(e, h)]
  /\ UNCHANGED <<made, fn, calls>>

(* _ta_xmpp_client_call_event_hooks: an event is raised, a hook returns     *)
(* false and the next is called, a hook returns true, or the last one       *)
(* returns.                                                                 *)
Least(S, n) == n \in S /\ \A m \in S : n <= m
Top == calls[Len(calls)]
Later == {n \in hooks[Top.ev] : n > Top.at}

Dispatch(e, n, seen) == [ev |-> e, at |-> n, seen |-> seen \cup {n}]

Emit(e) ==
  /\ Len(calls) < MaxDepth
  /\ \E n \in Regs :
       /\ Least(hooks[e], n)
       /\ calls' = Append(calls, Dispatch(e, n, {}))
  /\ UNCHANGED <<made, fn, hooks>>

NextHook ==
  /\ calls # <<>>
  /\ \E n \in Regs :
       /\ Least(Later, n)
       /\ calls' = [calls EXCEPT ![Len(calls)] = Dispatch(Top.ev, n, Top.seen)]
  /\ UNCHANGED <<made, fn, hooks>>

Pop == calls' = SubSeq(calls, 1, Len(calls) - 1)

StopHooks == calls # <<>> /\ Pop /\ UNCHANGED <<made, fn, hooks>>
LastHook == calls # <<>> /\ Later = {} /\ Pop /\ UNCHANGED <<made, fn, hooks>>

Next ==
  \/ \E e \in Events, h \in Hooks : Connect(e, h)
  \/ \E e \in Events, h \in Hooks \cup {AnyHook} : Disconnect(e, h)
  \/ \E e \in Events : Emit(e)
  \/ NextHook \/ StopHooks \/ LastHook

Spec == Init /\ [][Next]_orderVars
-----------------------------------------------------------------------------
TypeOK ==
  /\ made \in 0..MaxRegs
  /\ fn \in [Regs -> Hooks \cup {AnyHook}]
  /\ hooks \in [Events -> SUBSET Regs]
  /\ calls \in Seq(Calls)

(* A dispatch passes over no hook: every hook still connected that was      *)
(* connected before the one being called has been called, whatever hooks    *)
(* connected, disconnected and raised meanwhile ("executes all hooks added  *)
(* to the list", xmpp.c:132).                                               *)
NonePassedOver ==
  \A i \in DOMAIN calls :
    \A n \in hooks[calls[i].ev] : n < calls[i].at => n \in calls[i].seen

(* A dispatch calls no hook twice: it moves on only to hooks it has not     *)
(* called, even when hooks raise the event they are called for.             *)
CalledOnce ==
  [][\A i \in DOMAIN calls \cap DOMAIN calls' :
       calls'[i].at = calls[i].at \/ calls'[i].at \notin calls[i].seen]_orderVars

(* The strengthening that makes both inductive: registrations are numbered  *)
(* as they are made, and a dispatch has called nothing beyond the hook it   *)
(* is at.                                                                   *)
SeenBehind ==
  \A i \in DOMAIN calls :
    /\ calls[i].at \in calls[i].seen
    /\ \A n \in calls[i].seen : n <= calls[i].at
    /\ calls[i].at <= made
MadeOnly == \A e \in Events : \A n \in hooks[e] : n <= made
IInv == NonePassedOver /\ SeenBehind /\ MadeOnly
=============================================================================
