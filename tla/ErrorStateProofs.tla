-------------------------- MODULE ErrorStateProofs --------------------------
(***************************************************************************)
(* Proofs about ErrorState and the two modules on top of it, AtomFeed and  *)
(* IriCalls.  Part one is about the error state of any set of threads,     *)
(* whatever they call and in what order.  Part two is about the loader,    *)
(* whose steps are steps of its thread's error state, for every document.  *)
(* Part three is about IRIs, whatever their texts are: what is printed     *)
(* fits, and is read back.                                                 *)
(***************************************************************************)
EXTENDS AtomFeed, IriCalls, SequenceTheorems, FiniteSetTheorems, NaturalsInduction,
        WellFoundedInduction, TLAPS

LEMMA TypeInit == Init => TypeOK
<1> SUFFICES ASSUME Init PROVE TypeOK
  OBVIOUS
<1>1. made \in 0..MaxMsgs /\ live \subseteq Msgs /\ ended \subseteq Threads
  BY MsgAssumption DEF Init
<1>2. has \in [Threads -> BOOLEAN] /\ last \in [Threads -> BOOLEAN]
  BY DEF Init
<1>3. msg \in [Threads -> Msgs \cup {NULL}] /\ pending \in [Threads -> Msgs \cup {NULL}]
  BY DEF Init
<1>4. key \in BOOLEAN /\ fault \in BOOLEAN
  BY DEF Init
<1>5. since \in 0..MaxMsgs /\ cleared \subseteq Threads
  BY MsgAssumption DEF Init
<1>6. resumed \in BOOLEAN
  BY DEF Init
<1> QED BY <1>1, <1>2, <1>3, <1>4, <1>5, <1>6 DEF TypeOK

(* What free() leaves was there before.                                     *)
LEMMA FreedIs ==
  ASSUME NEW m, NEW all, NEW left \in Freed(m, all)
  PROVE  /\ left \subseteq all
         /\ m # NULL /\ m \in all => left = all \ {m}
         /\ m = NULL => left = all
BY DEF Freed

LEMMA TypeStep == TypeOK /\ [Next]_vars => TypeOK'
<1> SUFFICES ASSUME TypeOK, [Next]_vars PROVE TypeOK'
  OBVIOUS
<1>1. CASE Setup
  BY <1>1 DEF Setup, NoStates, TypeOK
<1>2. CASE Teardown
  BY <1>2 DEF Teardown, NoStates, TypeOK
<1>3. ASSUME NEW t \in Threads, Clear(t) PROVE TypeOK'
  <2>1. fault' \in BOOLEAN /\ live' \subseteq Msgs /\ cleared' \subseteq Threads
    <3>1. CASE last[t]
      BY <1>3, <3>1, FreedIs DEF Clear, TypeOK
    <3>2. CASE ~last[t]
      BY <1>3, <3>2 DEF Clear, TypeOK
    <3> QED BY <3>1, <3>2
  <2> QED BY <1>3, <2>1 DEF Clear, TypeOK
<1>4. ASSUME NEW t \in Threads, Exit(t) PROVE TypeOK'
  BY <1>4 DEF Exit, TypeOK
<1>5. ASSUME NEW t \in Threads, NEW quote \in BOOLEAN, Set(t, quote) PROVE TypeOK'
  <2>1. NewMsg \in Msgs /\ NewMsg \in 0..MaxMsgs
    BY <1>5, MsgAssumption DEF Set, Callable, NewMsg, Msgs, TypeOK
  <2>2. fault' \in BOOLEAN /\ live' \subseteq Msgs
    <3>1. live' \in Freed(msg[t], live \cup {NewMsg}) /\ fault' \in BOOLEAN
      BY <1>5 DEF Set, TypeOK
    <3>2. live' \subseteq live \cup {NewMsg}
      BY <3>1, FreedIs
    <3> QED BY <2>1, <3>1, <3>2 DEF TypeOK
  <2>3. /\ has' \in [Threads -> BOOLEAN] /\ last' \in [Threads -> BOOLEAN]
        /\ msg' \in [Threads -> Msgs \cup {NULL}]
    BY <1>5, <2>1 DEF Set, Stored, TypeOK
  <2>4. /\ made' \in 0..MaxMsgs /\ pending' \in [Threads -> Msgs \cup {NULL}]
        /\ cleared' \subseteq Threads /\ resumed' \in BOOLEAN
    BY <1>5, <2>1 DEF Set, Failing, TypeOK
  <2> QED BY <1>5, <2>2, <2>3, <2>4 DEF Set, TypeOK
<1>6. CASE UNCHANGED vars
  BY <1>6 DEF vars, TypeOK
<1> QED BY <1>1, <1>2, <1>3, <1>4, <1>5, <1>6 DEF Next

(* Every variable keeps its type, whatever callers do.                      *)
THEOREM TypeCorrect == Spec => []TypeOK
  BY TypeInit, TypeStep, PTL DEF Spec
-----------------------------------------------------------------------------
LEMMA InvInit == Init => IInv
<1> SUFFICES ASSUME Init PROVE IInv
  OBVIOUS
<1>1. \A t \in Threads : ~has[t] /\ ~last[t] /\ msg[t] = NULL /\ pending[t] = NULL
  <2>1. \A t \in Threads : ~has[t] /\ ~last[t]
    BY Zenon DEF Init
  <2>2. \A t \in Threads : msg[t] = NULL /\ pending[t] = NULL
    BY Zenon DEF Init
  <2> QED BY <2>1, <2>2, Zenon
<1>2. ~fault /\ ~resumed /\ made = 0 /\ since = 0 /\ NULL = 0 /\ live = {} /\ cleared = {}
  BY Zenon DEF Init, NULL
<1>3. FailureReported /\ Fresh
  BY <1>1, <1>2 DEF FailureReported, Reported, Fresh
<1>4. FaultExplained
  BY Zenon DEF Init, FaultExplained
<1>5. ErrorsReadable /\ Left
  BY <1>1, <1>2 DEF ErrorsReadable, Left
<1> QED BY <1>3, <1>4, <1>5 DEF IInv

(* A message that is about to be allocated is nobody's.                     *)
LEMMA NewIsFresh ==
  ASSUME TypeOK, IInv
  PROVE  /\ NewMsg \in Nat /\ NewMsg # NULL /\ NewMsg \notin live /\ since < NewMsg
         /\ \A m \in live : m <= NewMsg
         /\ \A t \in Threads : /\ msg[t] # NewMsg /\ msg[t] <= NewMsg
                               /\ pending[t] <= NewMsg
<1>1. /\ made \in Nat /\ NewMsg = made + 1 /\ NULL = 0 /\ since \in Nat
      /\ \A m \in live : m \in Nat
      /\ \A t \in Threads : msg[t] \in Nat /\ pending[t] \in Nat
  BY DEF TypeOK, NewMsg, NULL, Msgs
<1> QED BY <1>1 DEF IInv, Fresh

(* The part of the invariant that holds whatever is freed: the newest       *)
(* failure is in the thread's state, and messages are new when made.        *)
LEMMA ReportedStep ==
  ASSUME TypeOK, IInv, [Next]_vars
  PROVE  FailureReported' /\ Fresh'
<1>0. /\ made \in Nat /\ since \in Nat /\ NULL = 0
      /\ \A t \in Threads : pending[t] \in Nat /\ msg[t] \in Nat
      /\ FailureReported /\ Fresh
  BY DEF TypeOK, NULL, Msgs, IInv
<1>1. CASE Setup
  BY <1>0, <1>1 DEF Setup, NoStates, FailureReported, Reported, Fresh
<1>2. CASE Teardown
  BY <1>0, <1>2 DEF Teardown, NoStates, FailureReported, Reported, Fresh
<1>3. ASSUME NEW t \in Threads, Clear(t) PROVE FailureReported' /\ Fresh'
  <2>1. /\ key' = key /\ msg' = msg /\ made' = made /\ since' = since
        /\ has' = [has EXCEPT ![t] = key] /\ last' = [last EXCEPT ![t] = FALSE]
        /\ pending' = [pending EXCEPT ![t] = NULL]
    BY <1>3 DEF Clear
  <2>2. live' \subseteq live
    BY <1>3, FreedIs DEF Clear
  <2>3. /\ ~last'[t] /\ pending'[t] = NULL /\ has'[t] = key
        /\ \A u \in Threads \ {t} :
             last'[u] = last[u] /\ pending'[u] = pending[u] /\ has'[u] = has[u]
    BY <2>1 DEF TypeOK
  <2>4. FailureReported'
    BY <1>0, <2>1, <2>3 DEF FailureReported, Reported
  <2>5. Fresh'
    BY <1>0, <2>1, <2>2, <2>3 DEF Fresh
  <2> QED BY <2>4, <2>5
<1>4. ASSUME NEW t \in Threads, Exit(t) PROVE FailureReported' /\ Fresh'
  <2>1. /\ key' = key /\ made' = made /\ since' = since /\ live' = live
        /\ ~last'[t] /\ pending'[t] = NULL /\ ~has'[t] /\ msg'[t] = NULL
        /\ \A u \in Threads \ {t} :
             /\ last'[u] = last[u] /\ pending'[u] = pending[u] /\ has'[u] = has[u]
             /\ msg'[u] = msg[u]
    BY <1>4 DEF Exit, TypeOK
  <2>2. FailureReported'
    BY <1>0, <2>1 DEF FailureReported, Reported
  <2>3. Fresh'
    BY <1>0, <2>1 DEF Fresh
  <2> QED BY <2>2, <2>3
<1>5. ASSUME NEW t \in Threads, NEW quote \in BOOLEAN, Set(t, quote)
      PROVE  FailureReported' /\ Fresh'
  <2>1. /\ key' = key /\ since' = since /\ made' = NewMsg
        /\ pending' = [pending EXCEPT ![t] = NewMsg]
    BY <1>5 DEF Set, Failing
  <2>2. live' \subseteq live \cup {NewMsg}
    BY <1>5, FreedIs DEF Set
  <2>3. /\ pending'[t] = NewMsg
        /\ \A u \in Threads \ {t} : pending'[u] = pending[u]
    BY <2>1 DEF TypeOK
  <2>4. /\ key => last'[t] /\ msg'[t] = NewMsg
        /\ ~key => last'[t] = last[t] /\ msg'[t] = msg[t] /\ has'[t] = has[t]
        /\ \A u \in Threads \ {t} :
             last'[u] = last[u] /\ msg'[u] = msg[u] /\ has'[u] = has[u]
    BY <1>5 DEF Set, Stored, TypeOK
  <2>5. NewMsg \in Nat /\ since < NewMsg
    BY NewIsFresh
  <2>6. FailureReported'
    BY <1>0, <2>1, <2>3, <2>4, <2>5 DEF FailureReported, Reported
  <2>7. Fresh'
    <3>1. \A m \in live' : m <= made'
      BY <2>1, <2>2, <2>5, NewIsFresh
    <3>2. \A u \in Threads : msg'[u] <= made' /\ pending'[u] <= made'
      <4>1. \A u \in Threads : msg'[u] \in {msg[u], NewMsg} /\ pending'[u] \in {pending[u], NewMsg}
        BY <2>3, <2>4
      <4> QED BY <2>1, <2>5, <4>1, NewIsFresh
    <3>3. \A u \in Threads : ~key' => ~has'[u] /\ msg'[u] = NULL
      BY <1>0, <2>1, <2>4 DEF Fresh
    <3>4. since' <= made'
      BY <1>0, <2>1, <2>5
    <3> QED BY <3>1, <3>2, <3>3, <3>4 DEF Fresh
  <2> QED BY <2>6, <2>7
<1>6. CASE UNCHANGED vars
  BY <1>0, <1>6 DEF vars, FailureReported, Reported, Fresh
<1> QED BY <1>1, <1>2, <1>3, <1>4, <1>5, <1>6 DEF Next

(* The part that holds until something is freed twice.                      *)
Sound == FaultExplained /\ ErrorsReadable /\ Left

LEMMA SoundStep ==
  ASSUME TypeOK, IInv, [Next]_vars
  PROVE  Sound'
<1>0. FaultExplained /\ ErrorsReadable /\ Left /\ fault \in BOOLEAN /\ resumed \in BOOLEAN
  BY DEF IInv, TypeOK
<1>1. CASE Setup
  BY <1>0, <1>1 DEF Setup, NoStates, Sound, FaultExplained, ErrorsReadable, Left
<1>2. CASE Teardown
  BY <1>0, <1>2 DEF Teardown, NoStates, Sound, FaultExplained, ErrorsReadable, Left
<1>3. ASSUME NEW t \in Threads, Clear(t) PROVE Sound'
  <2>1. /\ key' = key /\ msg' = msg /\ resumed' = resumed
        /\ has' = [has EXCEPT ![t] = key] /\ last' = [last EXCEPT ![t] = FALSE]
    BY <1>3 DEF Clear
  <2>2. CASE fault
    BY <1>0, <1>3, <2>1, <2>2 DEF Clear, Sound, FaultExplained, ErrorsReadable, Left
  <2>3. CASE ~fault
    <3>1. /\ \A u \in Threads : last[u] => key /\ has[u] /\ msg[u] \in live /\ msg[u] # NULL
          /\ \A u, v \in Threads : msg[u] = msg[v] => u = v \/ msg[u] = NULL
          /\ \A u \in Threads : u \in cleared <=> ~last[u] /\ msg[u] # NULL
          /\ \A u \in Threads : u \in cleared => msg[u] \notin live
      BY <1>0, <2>3 DEF ErrorsReadable, Left, TypeOK, Msgs, NULL
    <3>2. ~fault' /\ FaultExplained'
      <4>1. ~fault'
        BY <1>3, <2>3, <3>1 DEF Clear, Dead
      <4>2. ~resumed /\ ~resumed'
        BY <1>0, <2>1, <2>3, Zenon DEF FaultExplained
      <4>3. fault' = FALSE /\ resumed' = FALSE
        BY <1>0, <1>3, <2>1, <4>1, <4>2 DEF Clear
      <4> QED BY <4>1, <4>3, Zenon DEF FaultExplained
    <3>3. /\ ~last'[t]
          /\ \A u \in Threads \ {t} : last'[u] = last[u] /\ has'[u] = has[u]
      BY <2>1 DEF TypeOK
    <3>4. CASE last[t]
      <4>1. cleared' = cleared \cup {t} /\ live' \in Freed(msg[t], live)
        BY <1>3, <3>4 DEF Clear
      <4>2. msg[t] \in live /\ msg[t] # NULL
        BY <3>1, <3>4
      <4>3. live' = live \ {msg[t]}
        BY <4>1, <4>2, FreedIs
      <4>4. \A u \in Threads : last'[u] => key' /\ has'[u] /\ msg'[u] \in live'
        BY <2>1, <3>1, <3>3, <4>2, <4>3
      <4>5. \A u \in Threads : /\ u \in cleared' <=> ~last'[u] /\ msg'[u] # NULL
                               /\ u \in cleared' => msg'[u] \notin live'
        BY <2>1, <3>1, <3>3, <4>1, <4>2, <4>3
      <4> QED BY <2>1, <3>1, <3>2, <4>4, <4>5 DEF Sound, ErrorsReadable, Left
    <3>5. CASE ~last[t]
      <4>1. cleared' = cleared /\ live' = live
        BY <1>3, <3>5 DEF Clear
      <4>2. \A u \in Threads : last'[u] = last[u] /\ (last[u] => has'[u])
        <5>1. ASSUME NEW u \in Threads \ {t} PROVE last'[u] = last[u] /\ (last[u] => has'[u])
          BY <3>1, <3>3
        <5>2. last'[t] = FALSE /\ last[t] = FALSE
          BY <3>3, <3>5 DEF TypeOK
        <5> QED BY <5>1, <5>2
      <4> QED BY <2>1, <3>1, <3>2, <4>1, <4>2 DEF Sound, ErrorsReadable, Left
    <3> QED BY <3>4, <3>5
  <2> QED BY <2>2, <2>3
<1>4. ASSUME NEW t \in Threads, Exit(t) PROVE Sound'
  <2>1. /\ key' = key /\ resumed' = resumed /\ fault' = fault /\ live' = live
        /\ cleared' = cleared \ {t}
        /\ ~last'[t] /\ msg'[t] = NULL
        /\ \A u \in Threads \ {t} :
             last'[u] = last[u] /\ has'[u] = has[u] /\ msg'[u] = msg[u]
    BY <1>4 DEF Exit, TypeOK
  <2>2. FaultExplained'
    BY <1>0, <2>1 DEF FaultExplained
  <2>3. ErrorsReadable'
    BY <1>0, <2>1 DEF ErrorsReadable
  <2>4. Left'
    BY <1>0, <2>1 DEF Left
  <2> QED BY <2>2, <2>3, <2>4 DEF Sound
<1>5. ASSUME NEW t \in Threads, NEW quote \in BOOLEAN, Set(t, quote) PROVE Sound'
  <2>1. /\ key' = key
        /\ resumed' = (resumed \/ t \in cleared) /\ cleared' = cleared \ {t}
        /\ fault' = (fault \/ Dead(msg[t]))
        /\ live' \in Freed(msg[t], live \cup {NewMsg})
    BY <1>5 DEF Set, Failing
  <2>2. CASE fault
    BY <1>0, <2>1, <2>2 DEF Sound, FaultExplained, ErrorsReadable, Left
  <2>3. CASE ~fault
    <3>1. /\ \A u \in Threads : last[u] => key /\ has[u] /\ msg[u] \in live /\ msg[u] # NULL
          /\ \A u, v \in Threads : msg[u] = msg[v] => u = v \/ msg[u] = NULL
          /\ \A u \in Threads : u \in cleared <=> ~last[u] /\ msg[u] # NULL
          /\ \A u \in Threads : u \in cleared => msg[u] \notin live
      BY <1>0, <2>3 DEF ErrorsReadable, Left, TypeOK, Msgs, NULL
    <3>2. Dead(msg[t]) <=> t \in cleared
      BY <3>1 DEF Dead
    <3>3. FaultExplained'
      BY <1>0, <2>1, <2>3, <3>2 DEF FaultExplained
    <3>4. CASE t \in cleared
      BY <2>1, <3>2, <3>3, <3>4 DEF Sound, ErrorsReadable, Left
    <3>5. CASE t \notin cleared
      <4>1. cleared' = cleared /\ (last[t] \/ msg[t] = NULL)
        BY <2>1, <3>1, <3>5
      <4>2. live' = (live \cup {NewMsg}) \ {msg[t]}
        <5>1. NULL \notin live \cup {NewMsg}
          BY NewIsFresh DEF TypeOK, Msgs, NULL
        <5>2. msg[t] # NULL => msg[t] \in live \cup {NewMsg}
          BY <3>1, <4>1
        <5> QED BY <2>1, <5>1, <5>2, FreedIs
      <4>3. /\ NewMsg # NULL /\ NewMsg \notin live
            /\ \A u \in Threads : msg[u] # NewMsg
        BY NewIsFresh
      <4>4. CASE key
        <5>1. /\ msg'[t] = NewMsg /\ last'[t] /\ has'[t]
              /\ \A u \in Threads \ {t} :
                   msg'[u] = msg[u] /\ last'[u] = last[u] /\ has'[u] = has[u]
          BY <1>5, <4>4 DEF Set, Stored, TypeOK
        <5>2. \A u \in Threads \ {t} : last[u] => msg[u] \in live \ {msg[t]}
          BY <3>1
        <5>3. \A u \in Threads : last'[u] => key' /\ has'[u] /\ msg'[u] \in live'
          <6>1. NewMsg \in live'
            BY <4>2, <4>3
          <6> QED BY <2>1, <3>1, <4>2, <4>4, <5>1, <5>2, <6>1
        <5>4. \A u, v \in Threads : msg'[u] = msg'[v] => u = v \/ msg'[u] = NULL
          BY <3>1, <4>3, <5>1
        <5>5. \A u \in Threads : /\ u \in cleared' <=> ~last'[u] /\ msg'[u] # NULL
                                 /\ u \in cleared' => msg'[u] \notin live'
          BY <3>1, <3>5, <4>1, <4>2, <4>3, <5>1
        <5> QED BY <3>3, <5>3, <5>4, <5>5 DEF Sound, ErrorsReadable, Left
      <4>5. CASE ~key
        <5>1. msg' = msg /\ last' = last /\ has' = has
          BY <1>5, <4>5 DEF Set
        <5>2. \A u \in Threads : ~last[u]
          BY <3>1, <4>5
        <5>3. \A u \in Threads : u \in cleared => msg[u] \notin live'
          BY <3>1, <4>2, <4>3
        <5> QED BY <3>1, <3>3, <4>1, <5>1, <5>2, <5>3 DEF Sound, ErrorsReadable, Left
      <4> QED BY <4>4, <4>5
    <3> QED BY <3>4, <3>5
  <2> QED BY <2>2, <2>3
<1>6. CASE UNCHANGED vars
  BY <1>0, <1>6 DEF vars, Sound, FaultExplained, ErrorsReadable, Left
<1> QED BY <1>1, <1>2, <1>3, <1>4, <1>5, <1>6 DEF Next

LEMMA InvStep == TypeOK /\ IInv /\ [Next]_vars => TypeOK' /\ IInv'
BY TypeStep, ReportedStep, SoundStep DEF IInv, Sound

(* A message is freed twice exactly when a thread that cleared its error    *)
(* fails again (error.c:36-51).                                             *)
THEOREM FaultsExplained == Spec => []FaultExplained
<1>1. TypeOK /\ IInv => FaultExplained
  BY DEF IInv
<1> QED BY <1>1, TypeInit, InvInit, InvStep, PTL DEF Spec

(* Until then the error that a thread asks for is its own and can be read,  *)
(* whatever other threads do (global.c:54-66).                              *)
THEOREM ErrorsBelong == Spec => []ErrorsReadable
<1>1. TypeOK /\ IInv => ErrorsReadable
  BY DEF IInv
<1> QED BY <1>1, TypeInit, InvInit, InvStep, PTL DEF Spec

(* And it is the last failure of that thread, if the key was made before    *)
(* and the thread has not cleared it; NULL otherwise.                       *)
THEOREM NewestReported == Spec => []FailureReported
<1>1. TypeOK /\ IInv => FailureReported
  BY DEF IInv
<1> QED BY <1>1, TypeInit, InvInit, InvStep, PTL DEF Spec
-----------------------------------------------------------------------------
Reading == {"entry", "entry-title", "content", "entry-kids", "ref-refused", "href",
            "href-refused", "source", "source-refused", "type", "entry-return"}
Replying == {"ref-refused", "href", "href-refused", "source", "source-refused", "type"}
InKids == {"entry-kids"} \cup Replying

(* What the error state's actions do to the error of the loading thread,    *)
(* once there is a key.                                                     *)
KeyThere == key = TRUE /\ last \in [Threads -> BOOLEAN]

LEMMA ErrorKept == ASSUME Error, KeyThere PROVE KeyThere' /\ last'[Self] = TRUE
BY SelfAssumption DEF Error, Set, Stored, KeyThere

LEMMA ClearKept == ASSUME Clear(Self), KeyThere PROVE KeyThere'
BY SelfAssumption DEF Clear, KeyThere

LEMMA NoErrorKept == ASSUME NoError, KeyThere PROVE KeyThere' /\ last' = last
BY DEF NoError, KeyThere, vars

LEMMA ReadIriKept == ASSUME NEW x, ReadIri(x), KeyThere PROVE KeyThere'
BY ErrorKept, NoErrorKept DEF ReadIri

LEMMA QuoteKept ==
  ASSUME NEW then, Quote(then), KeyThere
  PROVE  KeyThere' /\ pc' \in {then, "crash"}
<1>1. CASE last[Self]
  BY <1>1, SelfAssumption DEF Quote, Set, Stored, KeyThere
<1>2. CASE ~last[Self]
  BY <1>2, NoErrorKept DEF Quote
<1> QED BY <1>1, <1>2
-----------------------------------------------------------------------------
(* The reason of a failure is there from where it is noticed until the      *)
(* loader returns: nothing is read after it, so nothing clears it.          *)
WhyInv == KeyThere /\ FailureSaysWhy

LEMMA WhyInit == LoadInit => WhyInv
BY SelfAssumption DEF LoadInit, WhyInv, KeyThere, FailureSaysWhy

LEMMA WhyNext == ASSUME WhyInv, [Step \/ Rest]_<<vars, load>> PROVE WhyInv'
<1> USE DEF WhyInv
<1>1. CASE Load
  BY <1>1, ErrorKept, NoErrorKept DEF Load, FailureSaysWhy
<1>2. CASE FeedHead
  BY <1>2, ErrorKept, ReadIriKept DEF FeedHead, FeedFails, FailureSaysWhy
<1>3. CASE FeedTitle
  BY <1>3, ErrorKept, NoErrorKept DEF FeedTitle, FeedFails, FailureSaysWhy
<1>4. CASE FeedPart
  BY <1>4, ErrorKept, ReadIriKept DEF FeedPart, FeedFails, AtKid, FailureSaysWhy
<1>5. CASE FeedOther \/ FeedText \/ EntryText
  BY <1>5, NoErrorKept DEF FeedOther, FeedText, EntryText, AtKid, AtSub, FailureSaysWhy
<1>6. CASE FeedEntry
  BY <1>6, NoErrorKept DEF FeedEntry, FailureSaysWhy
<1>7. CASE EntryReturn
  BY <1>7, ClearKept, NoErrorKept DEF EntryReturn, Keep, NextKid, FailureSaysWhy
<1>8. CASE FeedEnd
  BY <1>8, NoErrorKept DEF FeedEnd, FailureSaysWhy
<1>9. CASE Return
  BY <1>9, NoErrorKept DEF Return, FailureSaysWhy
<1>10. CASE EntryHead
  BY <1>10, ErrorKept, ReadIriKept DEF EntryHead, EntryFails, FailureSaysWhy
<1>11. CASE EntryTitle
  BY <1>11, ErrorKept, NoErrorKept DEF EntryTitle, EntryFails, FailureSaysWhy
<1>12. CASE EntryContent
  BY <1>12, ErrorKept, ReadIriKept DEF EntryContent, EntryFails, FailureSaysWhy
<1>13. CASE EntryPart
  BY <1>13, ErrorKept, ReadIriKept DEF EntryPart, AtSub, EntryFails, FailureSaysWhy
<1>14. CASE EntryEnd
  BY <1>14, NoErrorKept DEF EntryEnd, FailureSaysWhy
<1>15. CASE ReplyRef
  <2>1. KeyThere' /\ pc' \in {"entry-return", "ref-refused", "crash", "href"}
    <3>1. CASE Sub.ref = "none"
      BY <1>15, <3>1, ErrorKept DEF ReplyRef, EntryFails
    <3>2. CASE Sub.ref # "none" /\ Refuses(Sub.ref)
      BY <1>15, <3>2, QuoteKept DEF ReplyRef
    <3>3. CASE Sub.ref # "none" /\ ~Refuses(Sub.ref)
      BY <1>15, <3>3, ReadIriKept DEF ReplyRef
    <3> QED BY <3>1, <3>2, <3>3
  <2> QED BY <2>1 DEF FailureSaysWhy
<1>16. CASE RefRefused
  BY <1>16, ClearKept DEF RefRefused, FailureSaysWhy
<1>17. CASE ReplyLink
  <2>1. KeyThere'
    BY <1>17, ReadIriKept, QuoteKept DEF ReplyLink
  <2>2. pc' \in {"href-refused", "source-refused", "crash", "source", "type"}
    BY <1>17, QuoteKept DEF ReplyLink, Use, After
  <2> QED BY <2>1, <2>2 DEF FailureSaysWhy
<1>18. CASE LinkRefused
  BY <1>18, ClearKept DEF LinkRefused, Use, After, FailureSaysWhy
<1>19. CASE ReplyType
  BY <1>19, NoErrorKept DEF ReplyType, Use, FailureSaysWhy
<1>20. CASE Rest \/ UNCHANGED <<vars, load>>
  BY <1>20 DEF Rest, vars, load, KeyThere, FailureSaysWhy
<1> QED
  BY <1>1, <1>2, <1>3, <1>4, <1>5, <1>6, <1>7, <1>8, <1>9, <1>10, <1>11, <1>12, <1>13,
     <1>14, <1>15, <1>16, <1>17, <1>18, <1>19, <1>20 DEF Step

(* A feed that could not be loaded leaves the reason behind (atom.c:1518-1670). *)
THEOREM FailuresExplained == LoadSpec => []FailureSaysWhy
<1>1. WhyInv => FailureSaysWhy
  BY DEF WhyInv
<1> QED BY WhyInit, WhyNext, <1>1, PTL DEF LoadSpec
-----------------------------------------------------------------------------
(* The loader's steps are steps of the error state.                         *)
LEMMA StepsOfErrors == ASSUME [Step \/ Rest]_<<vars, load>> PROVE [Next]_vars
<1>1. Error => [Next]_vars
  BY SelfAssumption DEF Error, Next
<1>2. Clear(Self) => [Next]_vars
  BY SelfAssumption DEF Next
<1>3. NoError => [Next]_vars
  BY DEF NoError
<1>4. \A x : ReadIri(x) => [Next]_vars
  BY <1>1, <1>3 DEF ReadIri
<1>5. \A then : Quote(then) => [Next]_vars
  BY <1>3, SelfAssumption DEF Quote, Next
<1>6. CASE Load \/ FeedTitle \/ FeedOther \/ FeedText \/ FeedEntry \/ FeedEnd \/ Return
           \/ EntryTitle \/ EntryText \/ EntryEnd \/ ReplyType
  BY <1>1, <1>3, <1>6 DEF Load, FeedTitle, FeedOther, FeedText, FeedEntry, FeedEnd, Return,
     EntryTitle, EntryText, EntryEnd, ReplyType, FeedFails, EntryFails
<1>7. CASE FeedHead \/ FeedPart \/ EntryHead \/ EntryContent \/ EntryPart
  BY <1>1, <1>4, <1>7 DEF FeedHead, FeedPart, EntryHead, EntryContent, EntryPart,
     FeedFails, EntryFails
<1>8. CASE EntryReturn \/ RefRefused \/ LinkRefused
  BY <1>2, <1>3, <1>8 DEF EntryReturn, RefRefused, LinkRefused, Keep
<1>9. CASE ReplyRef
  BY <1>1, <1>4, <1>5, <1>9 DEF ReplyRef, EntryFails
<1>10. CASE ReplyLink
  BY <1>4, <1>5, <1>10 DEF ReplyLink
<1>11. CASE Rest \/ UNCHANGED <<vars, load>>
  BY <1>11 DEF Rest
<1> QED BY <1>6, <1>7, <1>8, <1>9, <1>10, <1>11 DEF Step

LEMMA ErrorsInit == LoadInit => TypeOK
<1> SUFFICES ASSUME LoadInit PROVE TypeOK
  OBVIOUS
<1>1. PICK stale \in {0, 1} :
        /\ has = [t \in Threads |-> stale = 1] /\ last = [t \in Threads |-> stale = 1]
        /\ msg = [t \in Threads |-> stale] /\ pending = [t \in Threads |-> stale]
        /\ made = stale /\ live = 1..stale
  BY DEF LoadInit
<1>2. key \in BOOLEAN /\ fault \in BOOLEAN /\ ended \subseteq Threads
  BY DEF LoadInit
<1>7. since \in 0..MaxMsgs /\ cleared \subseteq Threads
  BY MsgAssumption DEF LoadInit
<1>8. resumed \in BOOLEAN
  BY DEF LoadInit
<1>3. stale \in 0..MaxMsgs /\ stale \in Msgs \cup {NULL} /\ 1..stale \subseteq Msgs
  BY MsgAssumption, StaleAssumption DEF Msgs, NULL
<1>4. has \in [Threads -> BOOLEAN] /\ last \in [Threads -> BOOLEAN]
  BY <1>1
<1>5. msg \in [Threads -> Msgs \cup {NULL}] /\ pending \in [Threads -> Msgs \cup {NULL}]
  BY <1>1, <1>3
<1>6. made \in 0..MaxMsgs /\ live \subseteq Msgs
  BY <1>1, <1>3
<1> QED BY <1>2, <1>4, <1>5, <1>6, <1>7, <1>8 DEF TypeOK

(* Where the loader is, and what it has read.                               *)
Pcs == {"load", "feed", "title", "kids", "return", "returned", "crash"} \cup Reading

Control ==
  /\ tree \in {"live", "deleted"} /\ irt \in {"none", "live", "freed"}
  /\ in \in Nat \ {0} /\ result \in {"none", "failure", "success"} /\ pc \in Pcs

Place ==
  /\ doc.kids \in Seq(Kids) /\ doc.id \in Texts
  /\ at \in 1..Len(doc.kids) + 1
  /\ pc \in Reading => at \in DOMAIN doc.kids /\ Kid.tag = "entry"

Fields ==
  /\ feed = [id |-> feed.id, title |-> feed.title, parts |-> feed.parts,
             entries |-> feed.entries]
  /\ entry = [at |-> entry.at, id |-> entry.id, title |-> entry.title,
              src |-> entry.src, parts |-> entry.parts]
  /\ feed.id \in Texts /\ entry.id \in Texts /\ entry.src \in Texts

(* The parts before the next child of the document, in its order; and what  *)
(* comes before the children.                                               *)
PartsInv ==
  feed.parts \in Seq(Kids) /\ PartsRead(feed.parts, doc.kids, at - 1)

Ends == {"return", "returned", "crash"}
HeadInv ==
  /\ pc \in Reading \cup {"kids"} \/ result = "success" => feed.id = doc.id /\ feed.title
  /\ result = "success" => pc \in Ends /\ at = Len(doc.kids) + 1

LoadInv == TypeOK /\ Control /\ Place /\ Fields /\ PartsInv /\ HeadInv

LEMMA ControlStep == ASSUME Control, [Step \/ Rest]_<<vars, load>> PROVE Control'
<1>1. \A then : Quote(then) => pc' \in {then, "crash"}
  BY DEF Quote
<1>2. CASE Load \/ FeedHead \/ FeedTitle \/ FeedPart \/ FeedOther \/ FeedText \/ FeedEntry
           \/ FeedEnd \/ Return
  BY <1>2 DEF Load, FeedHead, FeedTitle, FeedPart, FeedOther, FeedText, FeedEntry, FeedEnd,
     Return, FeedFails, AtKid, Control, Pcs, Reading
<1>3. CASE EntryReturn \/ EntryHead \/ EntryTitle \/ EntryContent \/ EntryPart \/ EntryText
           \/ EntryEnd
  BY <1>3 DEF EntryReturn, EntryHead, EntryTitle, EntryContent, EntryPart, EntryText, EntryEnd,
     EntryFails, NextKid, Control, Pcs, Reading
<1>4. CASE ReplyRef \/ RefRefused \/ LinkRefused \/ ReplyType
  BY <1>1, <1>4 DEF ReplyRef, RefRefused, LinkRefused, ReplyType, EntryFails, Use, After,
     Control, Pcs, Reading
<1>5. CASE ReplyLink
  <2>1. pc' \in {"href-refused", "source-refused", "crash", "source", "type"}
    BY <1>1, <1>5 DEF ReplyLink, Use, After
  <2> QED BY <1>5, <2>1 DEF ReplyLink, Control, Pcs, Reading
<1>6. CASE Rest \/ UNCHANGED <<vars, load>>
  BY <1>6 DEF Rest, load, Control
<1> QED BY <1>2, <1>3, <1>4, <1>5, <1>6 DEF Step

(* Reading parts from a sequence of children, one by one.                   *)
LEMMA PartsFinite ==
  ASSUME NEW kids, NEW n \in Nat
  PROVE  /\ IsFiniteSet(PartsTo(kids, n)) /\ Cardinality(PartsTo(kids, n)) \in Nat
         /\ PartsTo(kids, n) \subseteq 1..n
<1>1. IsFiniteSet(1..n) /\ PartsTo(kids, n) \subseteq 1..n
  BY FS_Interval DEF PartsTo
<1> QED BY <1>1, FS_Subset, FS_CardinalityType

LEMMA ReadNone ==
  ASSUME NEW kids
  PROVE  PartsRead(<<>>, kids, 0)
<1>1. PartsTo(kids, 0) = {}
  BY DEF PartsTo
<1>2. Cardinality({}) = 0 /\ Len(<<>>) = 0
  BY FS_EmptySet
<1> QED BY <1>1, <1>2 DEF PartsRead

(* The next child is no part: none is added.                                *)
LEMMA ReadOther ==
  ASSUME NEW parts, NEW kids, NEW n \in Nat, PartsRead(parts, kids, n), ~IsPart(kids[n + 1])
  PROVE  PartsRead(parts, kids, n + 1)
<1>1. 1..n + 1 = (1..n) \cup {n + 1}
  OBVIOUS
<1>2. PartsTo(kids, n + 1) = PartsTo(kids, n)
  BY <1>1 DEF PartsTo
<1> QED BY <1>2 DEF PartsRead

(* It is one: it comes after those before it.                               *)
LEMMA ReadPart ==
  ASSUME NEW S, NEW parts \in Seq(S), NEW kids, NEW n \in Nat, PartsRead(parts, kids, n),
         NEW kid, kid = kids[n + 1], IsPart(kid)
  PROVE  PartsRead(Append(parts, kid), kids, n + 1)
<1> DEFINE new == Append(parts, kid)
           L == Len(parts)
<1>1. PartsTo(kids, n + 1) = PartsTo(kids, n) \cup {n + 1} /\ n + 1 \notin PartsTo(kids, n)
  <2>1. 1..n + 1 = (1..n) \cup {n + 1} /\ n + 1 \notin 1..n
    OBVIOUS
  <2> QED BY <2>1 DEF PartsTo
<1>2. L = Cardinality(PartsTo(kids, n)) /\ L \in Nat
  BY PartsFinite DEF PartsRead
<1>3. Cardinality(PartsTo(kids, n + 1)) = L + 1
  <2>1. Cardinality(PartsTo(kids, n) \cup {n + 1}) = Cardinality(PartsTo(kids, n)) + 1
    BY <1>1, PartsFinite, FS_AddElement
  <2> QED BY <1>1, <1>2, <2>1
<1>4. Len(new) = L + 1 /\ new[L + 1] = kid /\ \A k \in 1..L : new[k] = parts[k]
  <2>1. parts \in Seq(S \cup {kid}) /\ kid \in S \cup {kid}
    BY SeqMonotonic
  <2> QED BY <2>1, AppendProperties
<1> HIDE DEF new, L
<1>5. \A i \in PartsTo(kids, n) : Cardinality(PartsTo(kids, i)) \in 1..L
  <2> TAKE i \in PartsTo(kids, n)
  <2>1. i \in 1..n /\ i \in Nat
    BY PartsFinite
  <2>2. PartsTo(kids, i) \subseteq PartsTo(kids, n) /\ i \in PartsTo(kids, i)
    BY <2>1 DEF PartsTo
  <2>3. Cardinality(PartsTo(kids, i)) <= L /\ Cardinality(PartsTo(kids, i)) \in Nat
    BY <1>2, <2>1, <2>2, PartsFinite, FS_Subset
  <2>4. Cardinality(PartsTo(kids, i)) # 0
    BY <2>1, <2>2, PartsFinite, FS_EmptySet
  <2> QED BY <1>2, <2>3, <2>4
<1>6. \A i \in PartsTo(kids, n + 1) : new[Cardinality(PartsTo(kids, i))] = kids[i]
  <2> TAKE i \in PartsTo(kids, n + 1)
  <2>1. CASE i = n + 1
    BY <1>3, <1>4, <2>1
  <2>2. CASE i # n + 1
    <3>1. i \in PartsTo(kids, n)
      BY <1>1, <2>2
    <3>2. Cardinality(PartsTo(kids, i)) \in 1..L
      BY <1>5, <3>1
    <3>3. parts[Cardinality(PartsTo(kids, i))] = kids[i]
      BY <3>1 DEF PartsRead
    <3> QED BY <1>4, <3>2, <3>3
  <2> QED BY <2>1, <2>2
<1>7. Len(new) = Cardinality(PartsTo(kids, n + 1))
  BY <1>3, <1>4
<1> QED BY <1>6, <1>7 DEF PartsRead, new

LEMMA LoadInvInit == LoadInit => LoadInv
<1> SUFFICES ASSUME LoadInit PROVE LoadInv
  OBVIOUS
<1>1. Control /\ pc = "load" /\ at = 1 /\ result = "none"
      /\ feed = [id |-> "none", title |-> FALSE, parts |-> <<>>, entries |-> <<>>]
      /\ entry = NoEntry
  BY DEF LoadInit, Control, Pcs
<1>2. Place
  <2>1. PICK head \in Heads, n \in 0..MaxKids : \E kids \in [1..n -> Kids] :
          doc = [file |-> head.file, root |-> head.root, id |-> head.id,
                 title |-> head.title, kids |-> kids]
    BY DEF LoadInit
  <2>2. PICK kids \in [1..n -> Kids] : doc.kids = kids /\ doc.id = head.id
    BY <2>1
  <2>3. doc.kids \in Seq(Kids) /\ Len(doc.kids) = n
    <3>1. n \in Nat
      BY KidsAssumption
    <3> QED BY <2>2, <3>1
  <2>4. 1 \in 1..Len(doc.kids) + 1
    BY <2>3, KidsAssumption
  <2> QED BY <1>1, <2>2, <2>3, <2>4, HeadsAssumption DEF Place, Reading
<1>3. Fields
  BY <1>1 DEF Fields, NoEntry, Texts
<1>4. PartsInv
  <2>1. at - 1 = 0 /\ feed.parts = <<>> /\ <<>> \in Seq(Kids)
    BY <1>1
  <2> QED BY <2>1, ReadNone DEF PartsInv
<1>5. HeadInv
  BY <1>1 DEF HeadInv, Reading
<1> QED BY <1>1, <1>2, <1>3, <1>4, <1>5, ErrorsInit DEF LoadInv

(* Most steps leave the document, the feed and the place alone.             *)
LEMMA PlaceStays ==
  ASSUME LoadInv, doc' = doc, at' = at, pc' \in Reading => pc \in Reading
  PROVE  Place'
  BY DEF LoadInv, Place, Kid

LEMMA PartsStay ==
  ASSUME LoadInv, doc' = doc, at' = at, feed'.parts = feed.parts
  PROVE  PartsInv'
  BY DEF LoadInv, PartsInv

Stays ==
  /\ doc' = doc /\ at' = at /\ feed' = feed
  /\ pc' \in Reading => pc \in Reading
  /\ pc' = "kids" => pc = "kids"
  /\ result' = "success" => result = "success" /\ pc' \in Ends

LEMMA StaysIs ==
  ASSUME LoadInv, Stays, entry' = entry
  PROVE  Place' /\ Fields' /\ PartsInv' /\ HeadInv'
<1>1. Place'
  BY PlaceStays DEF Stays
<1>2. PartsInv'
  BY PartsStay DEF Stays
<1>3. Fields'
  BY DEF LoadInv, Fields, Stays
<1>4. HeadInv'
  BY DEF LoadInv, HeadInv, Stays
<1> QED BY <1>1, <1>2, <1>3, <1>4

LEMMA PastOther ==
  ASSUME LoadInv, doc' = doc, at' = at + 1, feed'.parts = feed.parts,
         at \in DOMAIN doc.kids, ~IsPart(Kid)
  PROVE  PartsInv'
<1>1. at - 1 \in Nat /\ at' - 1 = (at - 1) + 1 /\ at = (at - 1) + 1
  BY DEF LoadInv, Place
<1>2. PartsRead(feed.parts, doc.kids, (at - 1) + 1)
  BY <1>1, ReadOther DEF LoadInv, PartsInv, Kid
<1> QED BY <1>1, <1>2 DEF LoadInv, PartsInv

LEMMA PastPart ==
  ASSUME LoadInv, doc' = doc, at' = at + 1, feed'.parts = Append(feed.parts, Kid),
         at \in DOMAIN doc.kids, IsPart(Kid)
  PROVE  PartsInv'
<1>1. at - 1 \in Nat /\ at' - 1 = (at - 1) + 1 /\ at = (at - 1) + 1
  BY DEF LoadInv, Place
<1>5. Kid \in Kids
  <2>1. doc.kids \in Seq(Kids)
    BY DEF LoadInv, Place
  <2> QED BY <2>1, LenProperties DEF Kid
<1>2. feed.parts \in Seq(Kids) /\ PartsRead(feed.parts, doc.kids, at - 1)
  BY DEF LoadInv, PartsInv
<1>3. PartsRead(Append(feed.parts, Kid), doc.kids, (at - 1) + 1)
  BY <1>1, <1>2, ReadPart DEF Kid
<1>4. Append(feed.parts, Kid) \in Seq(Kids)
  BY <1>2, <1>5
<1> QED BY <1>1, <1>3, <1>4 DEF PartsInv

(* What each step does to the place, the fields, the parts and the head.    *)
Rests == Place' /\ Fields' /\ PartsInv' /\ HeadInv'

LEMMA RestsIs == ASSUME LoadInv, Stays, entry' = entry PROVE Rests
BY StaysIs DEF Rests

LEMMA HeadRests ==
  ASSUME LoadInv, Load \/ FeedHead \/ FeedTitle PROVE Rests
<1>1. CASE Load
  BY <1>1, RestsIs DEF Load, Stays, Reading, Ends, LoadInv, HeadInv
<1>2. CASE FeedHead
  BY <1>2, RestsIs DEF FeedHead, FeedFails, Stays, Reading, Ends, LoadInv,
     HeadInv
<1>3. CASE FeedTitle /\ ~doc.title
  BY <1>3, RestsIs DEF FeedTitle, FeedFails, Stays, Reading, Ends
<1>4. CASE FeedTitle /\ doc.title
  <2>1. /\ feed' = [feed EXCEPT !.id = doc.id, !.title = TRUE] /\ pc' = "kids"
        /\ doc' = doc /\ at' = at /\ entry' = entry /\ result' = result
        /\ pc = "title"
    BY <1>4 DEF FeedTitle
  <2>2. feed' = [id |-> doc.id, title |-> TRUE, parts |-> feed.parts,
                 entries |-> feed.entries]
    BY <2>1 DEF LoadInv, Fields
  <2>3. Place'
    BY <2>1, PlaceStays DEF Reading
  <2>4. PartsInv'
    BY <2>1, <2>2, PartsStay
  <2>5. Fields'
    BY <2>1, <2>2 DEF LoadInv, Fields, Place
  <2>6. HeadInv'
    BY <2>1, <2>2 DEF LoadInv, HeadInv, Ends
  <2> QED BY <2>3, <2>4, <2>5, <2>6 DEF Rests
<1> QED BY <1>1, <1>2, <1>3, <1>4

(* The next child, which is there: the place after it is one, too.          *)
LEMMA PlaceAfter ==
  ASSUME LoadInv, doc' = doc, at' = at + 1, at \in DOMAIN doc.kids, pc' \notin Reading
  PROVE  Place'
BY DEF LoadInv, Place

LEMMA HeadAfter ==
  ASSUME LoadInv, doc' = doc, pc \in Reading \cup {"kids"}, result' = result,
         feed'.id = feed.id, feed'.title = feed.title
  PROVE  HeadInv'
BY DEF LoadInv, HeadInv, Reading, Ends

LEMMA KidRests ==
  ASSUME LoadInv, FeedPart \/ FeedOther \/ FeedText \/ FeedEntry \/ EntryReturn \/ FeedEnd \/ Return
  PROVE  Rests
<1>1. CASE FeedPart /\ BadPart(Kid)
  BY <1>1, RestsIs DEF FeedPart, FeedFails, Stays, Reading, Ends
<1>2. CASE FeedPart /\ ~BadPart(Kid)
  <2>1. /\ feed' = [feed EXCEPT !.parts = Append(@, Kid)]
        /\ at' = at + 1 /\ doc' = doc /\ entry' = entry /\ result' = result
        /\ pc = "kids" /\ pc' = "kids"
        /\ at \in DOMAIN doc.kids /\ IsPart(Kid)
    BY <1>2 DEF FeedPart, AtKid, IsPart
  <2>2. feed' = [id |-> feed.id, title |-> feed.title, parts |-> Append(feed.parts, Kid),
                 entries |-> feed.entries]
    BY <2>1 DEF LoadInv, Fields
  <2>3. Place'
    BY <2>1, PlaceAfter DEF Reading
  <2>4. PartsInv'
    BY <2>1, <2>2, PastPart
  <2>5. Fields'
    BY <2>1, <2>2 DEF LoadInv, Fields
  <2>6. HeadInv'
    BY <2>1, <2>2, HeadAfter
  <2> QED BY <2>3, <2>4, <2>5, <2>6 DEF Rests
<1>3. CASE FeedOther
  <2>1. /\ feed' = feed /\ at' = at + 1 /\ doc' = doc /\ entry' = entry
        /\ result' = result /\ pc = "kids" /\ pc' = "kids"
        /\ at \in DOMAIN doc.kids /\ ~IsPart(Kid)
    BY <1>3 DEF FeedOther, AtKid, IsPart
  <2>2. Place' /\ PartsInv'
    BY <2>1, PlaceAfter, PastOther DEF Reading
  <2>3. Fields' /\ HeadInv'
    BY <2>1, HeadAfter DEF LoadInv, Fields
  <2> QED BY <2>2, <2>3 DEF Rests
<1>4. CASE FeedEntry
  <2>1. /\ entry' = [NoEntry EXCEPT !.at = at] /\ feed' = feed /\ at' = at /\ doc' = doc
        /\ result' = result /\ pc = "kids" /\ pc' = "entry"
        /\ at \in DOMAIN doc.kids /\ Kid.tag = "entry"
    BY <1>4 DEF FeedEntry, AtKid
  <2>2. entry' = [at |-> at, id |-> "none", title |-> FALSE, src |-> "none",
                  parts |-> <<>>]
    BY <2>1 DEF NoEntry
  <2>3. Place'
    BY <2>1 DEF LoadInv, Place, Kid
  <2>4. PartsInv'
    BY <2>1, PartsStay
  <2>5. Fields'
    <3>1. feed' = feed /\ Fields
      BY <2>1 DEF LoadInv
    <3>2. entry'.id \in Texts /\ entry'.src \in Texts
      BY <2>2 DEF Texts
    <3>3. entry' = [at |-> entry'.at, id |-> entry'.id, title |-> entry'.title,
                    src |-> entry'.src, parts |-> entry'.parts]
      BY <2>2
    <3> QED BY <3>1, <3>2, <3>3 DEF Fields
  <2>6. HeadInv'
    BY <2>1, HeadAfter
  <2> QED BY <2>3, <2>4, <2>5, <2>6 DEF Rests
<1>5. CASE EntryReturn
  <2>1. /\ feed' \in {feed, [feed EXCEPT !.entries = Append(@, entry)]}
        /\ at' = at + 1 /\ doc' = doc /\ entry' = entry /\ result' = result
        /\ pc = "entry-return" /\ pc' \in {"kids", "crash"}
    BY <1>5 DEF EntryReturn, Keep, NextKid
  <2>2. at \in DOMAIN doc.kids /\ ~IsPart(Kid) /\ pc \in Reading /\ pc' \notin Reading
    BY <2>1 DEF LoadInv, Place, Reading, IsPart
  <2>3. /\ feed' = [id |-> feed'.id, title |-> feed'.title, parts |-> feed'.parts,
                    entries |-> feed'.entries]
        /\ feed'.id = feed.id /\ feed'.title = feed.title /\ feed'.parts = feed.parts
    BY <2>1 DEF LoadInv, Fields
  <2>4. Place'
    BY <2>1, <2>2, PlaceAfter
  <2>5. PartsInv'
    BY <2>1, <2>2, <2>3, PastOther
  <2>6. Fields'
    <3>1. entry' = entry /\ Fields
      BY <2>1 DEF LoadInv
    <3> QED BY <2>3, <3>1 DEF Fields
  <2>7. HeadInv'
    BY <2>1, <2>2, <2>3, HeadAfter
  <2> QED BY <2>4, <2>5, <2>6, <2>7 DEF Rests
<1>6. CASE FeedEnd
  <2>1. /\ feed' = feed /\ at' = at /\ doc' = doc /\ entry' = entry
        /\ result' = "success" /\ pc = "kids" /\ pc' = "return"
        /\ at \notin DOMAIN doc.kids
    BY <1>6 DEF FeedEnd
  <2>2. at = Len(doc.kids) + 1
    BY <2>1 DEF LoadInv, Place
  <2>3. Place' /\ PartsInv'
    BY <2>1, PlaceStays, PartsStay DEF Reading
  <2>4. Fields'
    BY <2>1 DEF LoadInv, Fields
  <2>5. HeadInv'
    BY <2>1, <2>2 DEF LoadInv, HeadInv, Ends
  <2> QED BY <2>3, <2>4, <2>5 DEF Rests
<1>7. CASE Return
  BY <1>7, RestsIs DEF Return, Stays, Reading, Ends
<1>8. CASE FeedText
  BY <1>8, RestsIs DEF FeedText, AtKid, Stays, Reading, Ends
<1> QED BY <1>1, <1>2, <1>3, <1>4, <1>5, <1>6, <1>7, <1>8

(* An entry that goes on with a field more.                                 *)
LEMMA EntryRests ==
  ASSUME LoadInv, pc \in Reading, pc' \in Reading,
         doc' = doc, feed' = feed, at' = at, result' = result,
         entry' = [at |-> entry'.at, id |-> entry'.id, title |-> entry'.title,
                   src |-> entry'.src, parts |-> entry'.parts],
         entry'.id \in Texts, entry'.src \in Texts
  PROVE  Rests
<1>1. Place' /\ PartsInv'
  BY PlaceStays, PartsStay
<1>2. Fields' /\ HeadInv'
  BY HeadAfter DEF LoadInv, Fields
<1> QED BY <1>1, <1>2 DEF Rests

LEMMA ReadingRests ==
  ASSUME LoadInv,
         EntryHead \/ EntryTitle \/ EntryContent \/ EntryPart \/ EntryText \/ EntryEnd
  PROVE  Rests
<1>0. result # "success" \/ pc \notin Reading
  BY DEF LoadInv, HeadInv, Ends, Reading
<1>1. CASE EntryHead
  BY <1>1, RestsIs DEF EntryHead, EntryFails, Stays, Reading, Ends, LoadInv, HeadInv
<1>2. CASE EntryEnd \/ EntryText
  BY <1>2, RestsIs DEF EntryEnd, EntryText, AtSub, Stays, Reading, Ends, LoadInv, HeadInv
<1>3. CASE (EntryTitle \/ EntryContent \/ EntryPart) /\ entry' = entry
  BY <1>0, <1>3, RestsIs DEF EntryTitle, EntryContent, EntryPart, EntryFails, AtSub,
     Stays, Reading, Ends
<1>4. ASSUME pc \in Reading PROVE Kid.id \in Texts /\ Kid.src \in Texts
  <2>1. at \in DOMAIN doc.kids /\ doc.kids \in Seq(Kids) /\ Kid.tag = "entry"
    BY <1>4 DEF LoadInv, Place
  <2>2. Kid \in Kids
    BY <2>1, LenProperties DEF Kid
  <2> QED BY <2>1, <2>2, EntriesAssumption
<1>5. CASE EntryTitle /\ entry' # entry
  <2>1. /\ entry' = [entry EXCEPT !.id = Kid.id, !.title = TRUE]
        /\ doc' = doc /\ feed' = feed /\ at' = at /\ result' = result
        /\ pc \in Reading /\ pc' \in Reading
    BY <1>5 DEF EntryTitle, Reading
  <2>2. entry' = [at |-> entry.at, id |-> Kid.id, title |-> TRUE,
                  src |-> entry.src, parts |-> entry.parts]
    BY <2>1 DEF LoadInv, Fields
  <2> QED BY <1>4, <2>1, <2>2, EntryRests DEF LoadInv, Fields
<1>6. CASE EntryContent /\ entry' # entry
  <2>1. /\ entry' = [entry EXCEPT !.src = Kid.src]
        /\ doc' = doc /\ feed' = feed /\ at' = at /\ result' = result
        /\ pc \in Reading /\ pc' \in Reading
    BY <1>6 DEF EntryContent, Reading
  <2>2. entry' = [at |-> entry.at, id |-> entry.id, title |-> entry.title,
                  src |-> Kid.src, parts |-> entry.parts]
    BY <2>1 DEF LoadInv, Fields
  <2> QED BY <1>4, <2>1, <2>2, EntryRests DEF LoadInv, Fields
<1>7. CASE EntryPart /\ entry' # entry
  <2>1. /\ entry' = [entry EXCEPT !.parts = Append(@, Sub)]
        /\ doc' = doc /\ feed' = feed /\ at' = at /\ result' = result
        /\ pc \in Reading /\ pc' \in Reading
    BY <1>7 DEF EntryPart, AtSub, Reading
  <2>2. entry' = [at |-> entry.at, id |-> entry.id, title |-> entry.title,
                  src |-> entry.src, parts |-> Append(entry.parts, Sub)]
    BY <2>1 DEF LoadInv, Fields
  <2> QED BY <2>1, <2>2, EntryRests DEF LoadInv, Fields
<1> QED BY <1>1, <1>2, <1>3, <1>5, <1>6, <1>7

LEMMA ReplyRests ==
  ASSUME LoadInv, ReplyRef \/ RefRefused \/ ReplyLink \/ LinkRefused \/ ReplyType
  PROVE  Rests
<1>1. doc' = doc /\ at' = at /\ feed' = feed /\ entry' = entry /\ result' = result
  BY DEF ReplyRef, RefRefused, ReplyLink, LinkRefused, ReplyType
<1>2. pc \in Reading
  BY DEF ReplyRef, RefRefused, ReplyLink, LinkRefused, ReplyType, AtSub, Reading
<1>3. pc' # "kids"
  BY DEF ReplyRef, RefRefused, ReplyLink, LinkRefused, ReplyType, AtSub, EntryFails,
     Quote, Use, After
<1>4. Stays
  BY <1>1, <1>2, <1>3 DEF Stays, LoadInv, HeadInv, Reading, Ends
<1> QED BY <1>1, <1>4, RestsIs

LEMMA LoadInvStep == ASSUME LoadInv, [Step \/ Rest]_<<vars, load>> PROVE LoadInv'
<1>1. TypeOK'
  BY StepsOfErrors, TypeStep DEF LoadInv
<1>2. Control'
  BY ControlStep DEF LoadInv
<1>3. Rests
  <2>1. CASE Step
    BY <2>1, HeadRests, KidRests, ReadingRests, ReplyRests DEF Step
  <2>2. CASE Rest \/ UNCHANGED <<vars, load>>
    <3>1. UNCHANGED load
      BY <2>2 DEF Rest
    <3> QED BY <3>1, RestsIs DEF load, Stays, LoadInv, HeadInv
  <2> QED BY <2>1, <2>2
<1> QED BY <1>1, <1>2, <1>3 DEF LoadInv, Rests

(* The loader keeps its place in the document, its IRIs stay as they were   *)
(* read, and its thread's error state stays what error.c makes of it, from  *)
(* any of the assumed documents and however many children they have         *)
(* (atom.c:899-1146 and 1518-1670).                                         *)
THEOREM LoadTypes == LoadSpec => []LoadTypeOK
<1>1. LoadInv => LoadTypeOK
  BY DEF LoadInv, Control, Place, Fields, Pcs, Reading, LoadTypeOK
<1> QED BY <1>1, LoadInvInit, LoadInvStep, PTL DEF LoadSpec

(* A feed for which ta_atom_feed_set_from_iks returns 1 has the id, the     *)
(* title and every author and category of its document, in the document's   *)
(* order and none twice, whatever entries were dropped between them         *)
(* (atom.c:1528-1647).                                                      *)
THEOREM LoadsWhole == LoadSpec => []LoadedWhole
<1>1. LoadInv => LoadedWhole
  <2> SUFFICES ASSUME LoadInv, result = "success" PROVE LoadedWhole
    BY DEF LoadedWhole
  <2>1. at - 1 = Len(doc.kids) /\ feed.id = doc.id /\ feed.title
    BY DEF LoadInv, Place, HeadInv
  <2> QED BY <2>1 DEF LoadInv, PartsInv, LoadedWhole
<1> QED BY <1>1, LoadInvInit, LoadInvStep, PTL DEF LoadSpec
-----------------------------------------------------------------------------
(* What the entry that is read has of its element.  It has the id and title *)
(* from where it has passed the title, the authors and categories before    *)
(* the child it is at; when it has been read there is an error that keeps   *)
(* it out, or it is read as far as AsRead says.                             *)
EntryInv ==
  /\ \E S : entry.parts \in Seq(S)
  /\ pc \in Reading => entry.at = at
  /\ pc \in {"entry", "entry-title", "content"} => entry.parts = <<>> /\ in = 1
  /\ pc \in {"entry-title", "content"} \cup InKids => Kid.id # "none"
  /\ pc \in {"content"} \cup InKids => entry.id = Kid.id /\ entry.title
  /\ pc \in InKids =>
       /\ in \in 1..Len(Kid.kids) + 1
       /\ entry.src = Kid.src /\ PartsRead(entry.parts, Kid.kids, in - 1)
  /\ pc \in Replying => in \in DOMAIN Kid.kids /\ Sub.tag = "in-reply-to"
  /\ pc = "ref-refused" => Refuses(Sub.ref)
  /\ pc = "entry-return" => last[Self] \/ AsRead(entry)

(* What is kept comes before the child that is read, in order.              *)
EntriesInv ==
  /\ \E S : feed.entries \in Seq(S)
  /\ \A i \in DOMAIN feed.entries :
       /\ feed.entries[i].at \in Nat /\ feed.entries[i].at < at
       /\ AsRead(feed.entries[i])
  /\ \A i, j \in DOMAIN feed.entries : j < i => feed.entries[j].at < feed.entries[i].at

KeptInv == WhyInv /\ LoadInv /\ EntriesInv /\ EntryInv

LEMMA KeptInit == LoadInit => KeptInv
<1> SUFFICES ASSUME LoadInit PROVE KeptInv
  OBVIOUS
<1>2. feed.entries = <<>> /\ entry.parts = <<>> /\ pc = "load"
  BY DEF LoadInit, NoEntry
<1>3. feed.entries \in Seq({}) /\ DOMAIN feed.entries = {} /\ entry.parts \in Seq({})
  BY <1>2, EmptySeq, LenProperties
<1>4. EntriesInv
  BY <1>3 DEF EntriesInv
<1>5. EntryInv
  BY <1>2, <1>3 DEF EntryInv, Reading, InKids, Replying
<1> QED BY <1>4, <1>5, WhyInit, LoadInvInit DEF KeptInv

(* Most steps leave the entries that are kept alone.                        *)
LEMMA EntriesStay ==
  ASSUME KeptInv, doc' = doc, at' \in {at, at + 1}, feed'.entries = feed.entries
  PROVE  EntriesInv'
<1>1. at \in Nat /\ at' \in Nat /\ at <= at'
  BY DEF KeptInv, LoadInv, Place
<1>3. \A i \in DOMAIN feed.entries :
        /\ feed.entries[i].at \in Nat /\ feed.entries[i].at < at'
        /\ AsRead(feed.entries[i])
  BY <1>1 DEF KeptInv, EntriesInv
<1>4. (\A i \in DOMAIN feed.entries :
        /\ feed.entries[i].at \in Nat /\ feed.entries[i].at < at
        /\ AsRead(feed.entries[i]))'
  BY <1>3 DEF AsRead
<1>5. (\E S : feed.entries \in Seq(S))'
  BY DEF KeptInv, EntriesInv
<1> QED BY <1>4, <1>5 DEF KeptInv, EntriesInv

LEMMA NotReading ==
  ASSUME EntryInv, entry'.parts = entry.parts, pc' \notin Reading
  PROVE  EntryInv'
BY DEF EntryInv, Reading, InKids, Replying

(* The element that is read has a sequence of children.                     *)
LEMMA KidsRead ==
  ASSUME KeptInv, pc \in Reading
  PROVE  /\ at \in DOMAIN doc.kids /\ Kid.tag = "entry" /\ Len(Kid.kids) \in Nat
         /\ DOMAIN Kid.kids = 1..Len(Kid.kids)
<1>1. at \in DOMAIN doc.kids /\ Kid.tag = "entry" /\ doc.kids \in Seq(Kids)
  BY DEF KeptInv, LoadInv, Place
<1>2. Kid.kids \in Seq({Kid.kids[i] : i \in DOMAIN Kid.kids})
  BY <1>1, EntriesAssumption DEF Kid
<1> QED BY <1>1, <1>2, LenProperties

(* Going on in an entry whose fields stay as they are.                      *)
LEMMA EntryStays ==
  ASSUME KeptInv, doc' = doc, at' = at, entry' = entry, in' = in, pc \in InKids,
         \/ pc' \in Replying /\ in \in DOMAIN Kid.kids /\ Sub.tag = "in-reply-to"
            /\ (pc' = "ref-refused" => Refuses(Sub.ref))
         \/ pc' = "entry-return" /\ (last'[Self] \/ AsRead(entry))
  PROVE  EntryInv'
<1>1. EntryInv /\ pc \in Reading
  BY DEF KeptInv, InKids, Replying, Reading
<1>2. Kid' = Kid /\ Sub' = Sub
  BY DEF Kid, Sub
<1>3. AsRead(entry) => AsRead(entry)'
  BY DEF AsRead
<1>4. CASE pc' \in Replying
  BY <1>1, <1>2, <1>4 DEF EntryInv, Reading, InKids, Replying
<1>5. CASE pc' = "entry-return" /\ (last'[Self] \/ AsRead(entry))
  BY <1>1, <1>3, <1>5 DEF EntryInv, Reading, InKids, Replying
<1> QED BY <1>4, <1>5

(* The head of an entry, up to its children.                                *)
LEMMA HeadKept ==
  ASSUME KeptInv, EntryHead \/ EntryTitle \/ EntryContent
  PROVE  EntryInv'
<1>0. EntryInv /\ KeyThere
  BY DEF KeptInv, WhyInv
<1>1. doc' = doc /\ at' = at /\ in' = in /\ pc \in Reading /\ Kid' = Kid
  BY DEF EntryHead, EntryTitle, EntryContent, Reading, Kid
<1>2. CASE pc' = "entry-return"
  <2>1. last'[Self] = TRUE /\ entry' = entry
    BY <1>0, <1>2, ErrorKept DEF EntryHead, EntryTitle, EntryContent, EntryFails
  <2> QED BY <1>0, <1>1, <1>2, <2>1 DEF EntryInv, Reading, InKids, Replying
<1>3. CASE EntryHead /\ pc' # "entry-return"
  <2>1. pc = "entry" /\ pc' = "entry-title" /\ entry' = entry /\ Kid.id # "none"
    BY <1>3 DEF EntryHead, EntryFails
  <2> QED BY <1>0, <1>1, <2>1 DEF EntryInv, Reading, InKids, Replying
<1>4. CASE EntryTitle /\ pc' # "entry-return"
  <2>1. /\ pc = "entry-title" /\ pc' = "content"
        /\ entry' = [entry EXCEPT !.id = Kid.id, !.title = TRUE]
    BY <1>4 DEF EntryTitle, EntryFails
  <2>2. entry' = [at |-> entry.at, id |-> Kid.id, title |-> TRUE, src |-> entry.src,
                  parts |-> entry.parts]
    BY <2>1 DEF KeptInv, LoadInv, Fields
  <2> QED BY <1>0, <1>1, <2>1, <2>2 DEF EntryInv, Reading, InKids, Replying
<1>5. CASE EntryContent /\ pc' # "entry-return"
  <2>1. pc = "content" /\ pc' = "entry-kids" /\ entry' = [entry EXCEPT !.src = Kid.src]
    BY <1>5 DEF EntryContent, EntryFails
  <2>2. entry' = [at |-> entry.at, id |-> entry.id, title |-> entry.title, src |-> Kid.src,
                  parts |-> entry.parts]
    BY <2>1 DEF KeptInv, LoadInv, Fields
  <2>3. entry.parts = <<>> /\ in = 1 /\ in - 1 = 0 /\ in \in 1..Len(Kid.kids) + 1
    BY <1>0, <1>1, <2>1, KidsRead DEF EntryInv
  <2>4. PartsRead(entry'.parts, Kid'.kids, in' - 1)
    BY <1>1, <2>2, <2>3, ReadNone
  <2> QED BY <1>0, <1>1, <2>1, <2>2, <2>3, <2>4 DEF EntryInv, Reading, InKids, Replying
<1> QED BY <1>2, <1>3, <1>4, <1>5

(* The children of an entry.                                                *)
LEMMA SubKept ==
  ASSUME KeptInv, EntryPart \/ EntryText \/ EntryEnd
  PROVE  EntryInv'
<1>0. EntryInv /\ KeyThere
  BY DEF KeptInv, WhyInv
<1>1. /\ doc' = doc /\ at' = at /\ pc = "entry-kids" /\ pc \in Reading /\ pc \in InKids
      /\ Kid' = Kid
  BY DEF EntryPart, EntryText, EntryEnd, AtSub, Reading, InKids, Kid
<1>2. CASE EntryText
  BY <1>0, <1>2, NotReading DEF EntryText, Reading
<1>3. CASE EntryPart /\ BadPart(Sub)
  <2>1. last'[Self] = TRUE /\ pc' = "entry-return" /\ entry' = entry /\ in' = in
    BY <1>0, <1>3, ErrorKept DEF EntryPart, EntryFails
  <2> QED BY <1>1, <2>1, EntryStays
<1>4. CASE EntryPart /\ ~BadPart(Sub)
  <2>1. /\ entry' = [entry EXCEPT !.parts = Append(@, Sub)] /\ in' = in + 1 /\ pc' = pc
        /\ in \in DOMAIN Kid.kids /\ IsPart(Sub)
    BY <1>4 DEF EntryPart, AtSub, IsPart
  <2>2. entry' = [at |-> entry.at, id |-> entry.id, title |-> entry.title, src |-> entry.src,
                  parts |-> Append(entry.parts, Sub)]
    BY <2>1 DEF KeptInv, LoadInv, Fields
  <2>3. PICK S : entry.parts \in Seq(S)
    BY <1>0 DEF EntryInv
  <2>4. entry.parts \in Seq(S \cup {Sub}) /\ Append(entry.parts, Sub) \in Seq(S \cup {Sub})
    BY <2>3, SeqMonotonic, AppendProperties
  <2>5. /\ in \in 1..Len(Kid.kids) /\ in - 1 \in Nat /\ (in - 1) + 1 = in /\ in' - 1 = in
        /\ in' \in 1..Len(Kid.kids) + 1
    BY <1>1, <2>1, KidsRead
  <2>6. PartsRead(entry.parts, Kid.kids, in - 1)
    BY <1>0, <1>1 DEF EntryInv
  <2>7. PartsRead(Append(entry.parts, Sub), Kid.kids, (in - 1) + 1)
    BY <2>1, <2>3, <2>5, <2>6, ReadPart DEF Sub
  <2>8. PartsRead(entry'.parts, Kid'.kids, in' - 1)
    BY <1>1, <2>2, <2>5, <2>7
  <2>9. (\E T : entry.parts \in Seq(T))'
    BY <2>2, <2>4
  <2> QED BY <1>0, <1>1, <2>1, <2>2, <2>5, <2>8, <2>9
          DEF EntryInv, Reading, InKids, Replying
<1>5. CASE EntryEnd
  <2>1. pc' = "entry-return" /\ entry' = entry /\ in' = in /\ in \notin DOMAIN Kid.kids
    BY <1>5 DEF EntryEnd
  <2>2. /\ in \in 1..Len(Kid.kids) + 1 /\ entry.at = at /\ Kid.id # "none"
        /\ entry.id = Kid.id /\ entry.title /\ entry.src = Kid.src
        /\ PartsRead(entry.parts, Kid.kids, in - 1)
    BY <1>0, <1>1 DEF EntryInv
  <2>3. in - 1 = Len(Kid.kids) /\ Len(Kid.kids) \in 0..Len(Kid.kids) /\ Kid.tag = "entry"
    BY <1>1, <2>1, <2>2, KidsRead
  <2>4. AsRead(entry)
    BY <2>2, <2>3 DEF AsRead, Kid
  <2> QED BY <1>1, <2>1, <2>4, EntryStays
<1> QED BY <1>2, <1>3, <1>4, <1>5

(* An in-reply-to, and what is left of it when its ref is refused.          *)
LEMMA ReplyKept ==
  ASSUME KeptInv, ReplyRef \/ RefRefused \/ ReplyLink \/ LinkRefused \/ ReplyType
  PROVE  EntryInv'
<1>0. EntryInv /\ KeyThere
  BY DEF KeptInv, WhyInv
<1>1. doc' = doc /\ at' = at /\ entry' = entry /\ Kid' = Kid
  BY DEF ReplyRef, RefRefused, ReplyLink, LinkRefused, ReplyType, Kid
<1>2. pc \in InKids /\ pc \in Reading /\ (pc # "entry-kids" => pc \in Replying)
  BY DEF ReplyRef, RefRefused, ReplyLink, LinkRefused, ReplyType, AtSub, InKids, Replying,
         Reading
<1>3. in \in DOMAIN Kid.kids /\ Sub.tag = "in-reply-to"
  BY <1>0, <1>2 DEF EntryInv, ReplyRef, AtSub, RefRefused, ReplyLink, LinkRefused, ReplyType
<1>4. CASE pc' = "crash"
  BY <1>0, <1>1, <1>4, NotReading DEF Reading
<1>5. CASE ReplyRef /\ pc' # "crash"
  <2>1. in' = in
    BY <1>5 DEF ReplyRef
  <2>2. CASE Sub.ref = "none"
    <3>1. last'[Self] = TRUE /\ pc' = "entry-return"
      BY <1>0, <1>5, <2>2, ErrorKept DEF ReplyRef, EntryFails
    <3> QED BY <1>1, <1>2, <2>1, <3>1, EntryStays
  <2>3. CASE Sub.ref # "none" /\ Refuses(Sub.ref)
    <3>1. pc' = "ref-refused"
      BY <1>0, <1>5, <2>3, QuoteKept DEF ReplyRef
    <3> QED BY <1>1, <1>2, <1>3, <2>1, <2>3, <3>1, EntryStays DEF Replying
  <2>4. CASE Sub.ref # "none" /\ ~Refuses(Sub.ref)
    <3>1. pc' = "href"
      BY <1>5, <2>4 DEF ReplyRef
    <3> QED BY <1>1, <1>2, <1>3, <2>1, <3>1, EntryStays DEF Replying
  <2> QED BY <2>2, <2>3, <2>4
<1>6. CASE RefRefused
  <2>1. in' = in /\ pc = "ref-refused" /\ pc' = "entry-return"
    BY <1>6 DEF RefRefused
  <2>2. /\ in \in 1..Len(Kid.kids) + 1 /\ entry.at = at /\ Kid.id # "none"
        /\ entry.id = Kid.id /\ entry.title /\ entry.src = Kid.src
        /\ PartsRead(entry.parts, Kid.kids, in - 1) /\ Refuses(Sub.ref)
    BY <1>0, <1>2, <2>1 DEF EntryInv
  <2>3. /\ in - 1 \in 0..Len(Kid.kids) /\ (in - 1) + 1 = in /\ Kid.tag = "entry"
    BY <1>2, <1>3, <2>2, KidsRead
  <2>4. RefusedReply(Kid.kids[(in - 1) + 1])
    BY <1>3, <2>2, <2>3 DEF RefusedReply, Sub
  <2>5. AsRead(entry)
    BY <2>2, <2>3, <2>4 DEF AsRead, Kid
  <2> QED BY <1>1, <1>2, <2>1, <2>5, EntryStays
<1>7. CASE (ReplyLink \/ LinkRefused) /\ pc' # "crash"
  <2>1. in' = in /\ pc' \in Replying \ {"ref-refused"}
    BY <1>0, <1>7, QuoteKept DEF ReplyLink, LinkRefused, Use, After, Replying
  <2> QED BY <1>1, <1>2, <1>3, <2>1, EntryStays
<1>8. CASE ReplyType /\ pc' # "crash"
  <2>1. in' = in + 1 /\ pc' = "entry-kids"
    BY <1>8 DEF ReplyType, Use
  <2>2. /\ in - 1 \in Nat /\ (in - 1) + 1 = in /\ in' - 1 = in
        /\ in' \in 1..Len(Kid.kids) + 1
    <3>1. DOMAIN Kid.kids = 1..Len(Kid.kids) /\ Len(Kid.kids) \in Nat
      BY <1>2, KidsRead
    <3> QED BY <1>3, <2>1, <3>1
  <2>3. PartsRead(entry.parts, Kid.kids, in - 1)
    BY <1>0, <1>2 DEF EntryInv
  <2>4. ~IsPart(Kid.kids[(in - 1) + 1])
    BY <1>3, <2>2 DEF IsPart, Sub
  <2>5. PartsRead(entry'.parts, Kid'.kids, in' - 1)
    BY <1>1, <2>2, <2>3, <2>4, ReadOther
  <2>6. /\ entry.at = at /\ Kid.id # "none" /\ entry.id = Kid.id /\ entry.title
        /\ entry.src = Kid.src /\ \E S : entry.parts \in Seq(S)
    BY <1>0, <1>2 DEF EntryInv
  <2> QED BY <1>1, <2>1, <2>2, <2>5, <2>6 DEF EntryInv, Reading, InKids, Replying
<1> QED BY <1>4, <1>5, <1>6, <1>7, <1>8 DEF RefRefused

(* The steps that add to the entries, or may.                               *)
LEMMA EntriesKept ==
  ASSUME KeptInv, EntryReturn
  PROVE  EntriesInv'
<1>1. doc' = doc /\ at' = at + 1 /\ entry' = entry
  BY DEF EntryReturn, NextKid
<1>2. CASE feed' = feed
  BY <1>1, <1>2, EntriesStay
<1>3. CASE ~last[Self] /\ feed' = [feed EXCEPT !.entries = Append(@, entry)]
  <2>1. AsRead(entry) /\ entry.at = at
    BY <1>3 DEF EntryReturn, KeptInv, EntryInv, Reading
  <2>2. feed'.entries = Append(feed.entries, entry)
    BY <1>3 DEF KeptInv, LoadInv, Fields
  <2> DEFINE old == feed.entries
             new == feed'.entries
  <2>3. PICK S : old \in Seq(S)
    BY DEF KeptInv, EntriesInv
  <2>4. old \in Seq(S \cup {entry}) /\ entry \in S \cup {entry}
    BY <2>3, SeqMonotonic
  <2> HIDE DEF old
  <2>5. /\ new \in Seq(S \cup {entry})
        /\ Len(new) = Len(old) + 1
        /\ \A i \in 1..Len(old) : new[i] = old[i]
        /\ new[Len(old) + 1] = entry
    BY <2>2, <2>4, AppendProperties DEF old
  <2>6. DOMAIN new = 1..Len(old) + 1 /\ DOMAIN old = 1..Len(old) /\ Len(old) \in Nat
    BY <2>4, <2>5, LenProperties
  <2>7. /\ \A i \in DOMAIN old : old[i].at \in Nat /\ old[i].at < at /\ AsRead(old[i])
        /\ \A i, j \in DOMAIN old : j < i => old[j].at < old[i].at
    BY DEF KeptInv, EntriesInv, old
  <2>8. at \in Nat /\ at' \in Nat /\ at < at'
    BY <1>1 DEF KeptInv, LoadInv, Place
  <2> HIDE DEF new
  <2>9. \A i \in DOMAIN new :
          \/ i \in DOMAIN old /\ new[i] = old[i]
          \/ i = Len(old) + 1 /\ new[i] = entry
    BY <2>5, <2>6
  <2>10. \A i \in DOMAIN new :
           /\ new[i].at \in Nat /\ new[i].at < at'
           /\ AsRead(new[i])
    BY <2>1, <2>7, <2>8, <2>9
  <2>11. \A i, j \in DOMAIN new : j < i => new[j].at < new[i].at
    BY <2>1, <2>6, <2>7, <2>8, <2>9
  <2>12. (\A i \in DOMAIN feed.entries :
           /\ feed.entries[i].at \in Nat /\ feed.entries[i].at < at
           /\ AsRead(feed.entries[i]))'
    BY <1>1, <2>10 DEF AsRead, new
  <2> QED BY <2>5, <2>11, <2>12 DEF EntriesInv, new
<1> QED BY <1>2, <1>3 DEF EntryReturn, Keep

LEMMA KeptNext == ASSUME KeptInv, [Step \/ Rest]_<<vars, load>> PROVE KeptInv'
<1>0. WhyInv /\ LoadInv /\ EntriesInv /\ EntryInv
  BY DEF KeptInv
<1>1. WhyInv'
  BY <1>0, WhyNext
<1>2. LoadInv'
  BY <1>0, LoadInvStep
<1>3. CASE EntryHead \/ EntryTitle \/ EntryContent \/ EntryPart \/ EntryText \/ EntryEnd
           \/ ReplyRef \/ RefRefused \/ ReplyLink \/ LinkRefused \/ ReplyType
  <2>1. doc' = doc /\ at' = at /\ feed' = feed
    BY <1>3 DEF EntryHead, EntryTitle, EntryContent, EntryPart, EntryText, EntryEnd,
       ReplyRef, RefRefused, ReplyLink, LinkRefused, ReplyType
  <2>2. EntryInv'
    BY <1>3, HeadKept, SubKept, ReplyKept
  <2> QED BY <1>1, <1>2, <2>1, <2>2, EntriesStay DEF KeptInv
<1>4. CASE Load \/ FeedHead \/ FeedTitle \/ FeedPart \/ FeedOther \/ FeedText \/ FeedEnd
           \/ Return
  <2>1. /\ doc' = doc /\ at' \in {at, at + 1} /\ entry' = entry
        /\ \/ feed' = feed
           \/ feed' = [feed EXCEPT !.id = doc.id, !.title = TRUE]
           \/ feed' = [feed EXCEPT !.parts = Append(@, Kid)]
    BY <1>4 DEF Load, FeedHead, FeedTitle, FeedPart, FeedOther, FeedText, FeedEnd, Return
  <2>2. feed'.entries = feed.entries
    BY <1>0, <2>1 DEF LoadInv, Fields
  <2>3. pc' \notin Reading
    BY <1>4 DEF Load, FeedHead, FeedTitle, FeedPart, FeedOther, FeedText, FeedEnd, Return,
       FeedFails, AtKid, Reading
  <2> QED BY <1>0, <1>1, <1>2, <2>1, <2>2, <2>3, EntriesStay, NotReading DEF KeptInv
<1>5. CASE EntryReturn
  <2>1. pc' \notin Reading /\ entry' = entry
    BY <1>5 DEF EntryReturn, NextKid, Reading
  <2> QED BY <1>0, <1>1, <1>2, <1>5, <2>1, EntriesKept, NotReading DEF KeptInv
<1>6. CASE FeedEntry
  <2>1. /\ doc' = doc /\ at' = at /\ feed' = feed /\ pc' = "entry" /\ in' = 1
        /\ entry' = [NoEntry EXCEPT !.at = at]
    BY <1>6 DEF FeedEntry
  <2>2. entry'.at = at /\ entry'.parts = <<>>
    BY <2>1 DEF NoEntry
  <2>3. EntryInv'
    <3>1. entry'.parts \in Seq({})
      BY <2>2, EmptySeq
    <3> QED BY <2>1, <2>2, <3>1 DEF EntryInv, Reading, InKids, Replying
  <2> QED BY <1>1, <1>2, <2>1, <2>3, EntriesStay DEF KeptInv
<1>7. CASE Rest \/ UNCHANGED <<vars, load>>
  <2>1. UNCHANGED <<vars, load>>
    BY <1>7 DEF Rest
  <2>2. doc' = doc /\ feed' = feed /\ at' = at /\ entry' = entry /\ pc' = pc /\ in' = in
        /\ last' = last
    BY <2>1 DEF vars, load
  <2>3. EntryInv'
    BY <1>0, <2>2 DEF EntryInv, AsRead, Kid, Sub
  <2> QED BY <1>1, <1>2, <2>2, <2>3, EntriesStay DEF KeptInv
<1> QED BY <1>3, <1>4, <1>5, <1>6, <1>7 DEF Step

(* The entries that a feed keeps are those it should have read them as, up  *)
(* to an in-reply-to whose ref is refused, for every document               *)
(* (atom.c:899-1146 and 1649-1668).                                         *)
THEOREM EntriesAsRead == LoadSpec => []KeptAsRead
<1>1. KeptInv => KeptAsRead
  <2> SUFFICES ASSUME KeptInv, NEW i \in DOMAIN feed.entries
               PROVE  /\ AsRead(feed.entries[i])
                      /\ \A j \in 1..i - 1 : feed.entries[j].at < feed.entries[i].at
    BY DEF KeptAsRead
  <2>1. PICK S : feed.entries \in Seq(S)
    BY DEF KeptInv, EntriesInv
  <2>2. i \in Nat /\ 1..i - 1 \subseteq DOMAIN feed.entries
    BY <2>1, LenProperties
  <2>3. \A j \in 1..i - 1 : j < i
    BY <2>2
  <2> QED BY <2>2, <2>3 DEF KeptInv, EntriesInv
<1> QED BY KeptInit, KeptNext, <1>1, PTL DEF LoadSpec
-----------------------------------------------------------------------------
(* Part three: IRIs.  A text is a sequence of any characters and of any     *)
(* length.  First numbers, positions and texts; then how long each piece of *)
(* what is printed is; then where each piece lies in the whole, and that    *)
(* each search for a delimiter finds the one that was printed for it; last  *)
(* that a text, whatever it is, makes an IRI of texts.                      *)
-----------------------------------------------------------------------------
(* Numbers: what holds of 0 and passes from a number to the next holds of   *)
(* all, and of some numbers one is the least.                               *)
Below == {ss \in Nat \X Nat : ss[1] < ss[2]}

LEMMA LeastIs ==
  ASSUME NEW H \in SUBSET Nat, H # {}
  PROVE  \E i \in H : \A j \in H : i <= j
<1>1. IsWellFoundedOn(Below, Nat)
  BY NatLessThanWellFounded, Zenon DEF OpToRel, Below
<1>2. PICK i \in H : \A j \in H : ~(<<j, i>> \in Below)
  BY <1>1, WFMin
<1>3. \A j \in H : ~(j < i)
  BY <1>2 DEF Below
<1> QED BY <1>3

LEMMA Induction ==
  ASSUME NEW S \in SUBSET Nat, 0 \in S, \A n \in S : n + 1 \in S
  PROVE  S = Nat
<1> SUFFICES ASSUME S # Nat PROVE FALSE
  OBVIOUS
<1>1. Nat \ S \in SUBSET Nat /\ Nat \ S # {}
  OBVIOUS
<1>2. PICK n \in Nat \ S : \A j \in Nat \ S : n <= j
  BY <1>1, LeastIs
<1>3. n # 0 /\ n - 1 \in Nat /\ n - 1 + 1 = n
  BY <1>2
<1> QED BY <1>2, <1>3
-----------------------------------------------------------------------------
(* No character of chars is in s from one position up to another, and x is  *)
(* in s from a position on.                                                 *)
None(s, from, past, chars) == \A k \in from..past - 1 : s[k] \notin chars
Occurs(s, from, x) ==
  from + Len(x) <= Len(s) + 1 /\ \A k \in 1..Len(x) : s[from + k - 1] = x[k]
Without(x, chars) == \A k \in 1..Len(x) : x[k] \notin chars

LEMMA FindIs ==
  ASSUME NEW s \in Strings, NEW from \in Nat \ {0}, NEW past \in from..Len(s) + 1,
         NEW chars, None(s, from, past, chars), past <= Len(s) => s[past] \in chars
  PROVE  Find(s, from, chars) = IF past = Len(s) + 1 THEN 0 ELSE past
<1> DEFINE L == Len(s)
           hits == {k \in from..L : s[k] \in chars}
<1>1. L \in Nat
  BY LenProperties DEF Strings
<1>2. Find(s, from, chars) = IF hits = {} THEN 0 ELSE Min(hits)
  BY DEF Find
<1>3. \A k \in hits : k \in Nat /\ from <= k /\ k <= L /\ ~(k < past)
  <2>1. \A k \in from..L : k < past => k \in from..past - 1
    BY <1>1
  <2> QED BY <1>1, <2>1 DEF None
<1>4. CASE past = L + 1
  <2>1. hits = {}
    BY <1>1, <1>3, <1>4
  <2> QED BY <1>2, <1>4, <2>1
<1>5. CASE past # L + 1
  <2>1. past \in hits /\ \A k \in hits : past <= k
    BY <1>1, <1>3, <1>5
  <2> HIDE DEF hits
  <2>2. Min(hits) = past
    <3> DEFINE m == Min(hits)
    <3>1. m \in hits /\ \A k \in hits : m <= k
      BY <2>1 DEF Min
    <3>2. past \in Nat /\ m \in Nat /\ m <= past /\ past <= m
      BY <1>3, <2>1, <3>1
    <3> HIDE DEF m
    <3>3. m = past
      BY <3>2
    <3> QED BY <3>3 DEF m
  <2> QED BY <1>2, <1>5, <2>1, <2>2
<1> QED BY <1>4, <1>5

LEMMA FindRange ==
  ASSUME NEW s \in Strings, NEW from \in Nat \ {0}, NEW chars
  PROVE  /\ Find(s, from, chars) \in Nat
         /\ Find(s, from, chars) # 0 => from <= Find(s, from, chars)
                                        /\ Find(s, from, chars) <= Len(s)
<1> DEFINE L == Len(s)
           hits == {k \in from..L : s[k] \in chars}
<1>1. L \in Nat
  BY LenProperties DEF Strings
<1>2. Find(s, from, chars) = IF hits = {} THEN 0 ELSE Min(hits)
  BY DEF Find
<1>3. CASE hits = {}
  BY <1>2, <1>3
<1>4. CASE hits # {}
  <2>1. \A k \in hits : k \in Nat /\ from <= k /\ k <= L
    BY <1>1
  <2> HIDE DEF hits
  <2>2. Min(hits) \in hits
    BY <1>4, <2>1, LeastIs DEF Min
  <2> QED BY <1>2, <1>4, <2>1, <2>2
<1> QED BY <1>3, <1>4

LEMMA BetweenIs ==
  ASSUME NEW s \in Strings, NEW from \in Nat \ {0}, NEW x \in Strings, Occurs(s, from, x),
         NEW past, past = from + Len(x)
  PROVE  Between(s, from, past) = x
<1> DEFINE L == Len(x)
           c == Between(s, from, past)
<1>1. L \in Nat /\ Len(s) \in Nat /\ \A k \in 1..Len(s) : s[k] \in Chars
  BY LenProperties DEF Strings
<1>2. c = SubSeq(s, from, past - 1)
  BY DEF Between
<1>3. past - 1 \in Int /\ (from <= past - 1 <=> L # 0) /\ past - 1 - from + 1 = L
  BY <1>1
<1>4. \A k \in from..past - 1 : k \in 1..Len(s)
  BY <1>1 DEF Occurs
<1> HIDE DEF c
<1>5. /\ c \in Seq(Chars) /\ Len(c) = L
      /\ \A k \in 1..L : c[k] = s[from + k - 1]
  <2>1. \A k \in from..past - 1 : s[k] \in Chars
    BY <1>1, <1>4
  <2>2. /\ c \in Seq(Chars)
        /\ Len(c) = IF from <= past - 1 THEN past - 1 - from + 1 ELSE 0
        /\ \A k \in 1..past - 1 - from + 1 : c[k] = s[from + k - 1]
    BY <1>2, <1>3, <2>1, SubSeqProperties
  <2> HIDE DEF L
  <2> QED BY <1>3, <2>2
<1>6. \A k \in 1..L : c[k] = x[k]
  BY <1>5 DEF Occurs
<1> QED BY <1>5, <1>6, SeqEqual DEF c, Strings
-----------------------------------------------------------------------------
(* Decimal numbers.                                                         *)
LEMMA DigitIs ==
  ASSUME NEW k \in 0..9
  PROVE  /\ Digit[k + 1] \in Digits
         /\ ValueOf(Digit[k + 1]) = k
<1>1. k \in {0, 1, 2, 3, 4, 5, 6, 7, 8, 9}
  OBVIOUS
<1>3. \A j \in 0..9 : Digit[j + 1] = Digit[k + 1] => j = k
  <2>1. \A j \in 0..9 : j \in {0, 1, 2, 3, 4, 5, 6, 7, 8, 9}
    OBVIOUS
  <2> QED BY <1>1, <2>1 DEF Digit
<1>4. k + 1 \in 1..10
  OBVIOUS
<1> QED BY <1>3, <1>4 DEF Digits, ValueOf

LEMMA CharsAre == Digits \subseteq Chars /\ Delims \subseteq Chars /\ SchemeChars \subseteq Chars
BY CharsAssumption DEF SchemeChars

LEMMA DigitChars == Seq(Digits) \subseteq Strings
BY CharsAre DEF Strings

LEMMA ValueRange ==
  ASSUME NEW d \in Digits
  PROVE  ValueOf(d) \in 0..9
<1>1. PICK k \in 1..10 : d = Digit[k]
  BY DEF Digits
<1>2. k - 1 \in 0..9 /\ k - 1 + 1 = k
  OBVIOUS
<1> QED BY <1>1, <1>2, DigitIs

(* The function that Number reads off.                                      *)
Counts(d, n, N) ==
  N = [k \in 0..n |-> IF k = 0 THEN 0 ELSE 10 * N[k - 1] + ValueOf(d[k])]

LEMMA CountsExists ==
  ASSUME NEW d, NEW n \in Nat
  PROVE  \E N : Counts(d, n, N)
<1> DEFINE Ok == {m \in Nat : \E N : Counts(d, m, N)}
<1>1. 0 \in Ok
  <2>1. Counts(d, 0, [k \in 0..0 |-> 0])
    BY DEF Counts
  <2> QED BY <2>1
<1>2. ASSUME NEW m \in Ok PROVE m + 1 \in Ok
  <2>1. m \in Nat
    OBVIOUS
  <2>2. PICK N : Counts(d, m, N)
    OBVIOUS
  <2> DEFINE more == [k \in 0..m + 1 |-> IF k <= m THEN N[k] ELSE 10 * N[m] + ValueOf(d[k])]
  <2>3. \A k \in 0..m : N[k] = IF k = 0 THEN 0 ELSE 10 * N[k - 1] + ValueOf(d[k])
    BY <2>2 DEF Counts
  <2>4. /\ \A k \in 0..m : more[k] = N[k]
        /\ more[m + 1] = 10 * N[m] + ValueOf(d[m + 1])
        /\ more = [k \in 0..m + 1 |-> more[k]]
    BY <2>1
  <2> HIDE DEF more
  <2>5. ASSUME NEW k \in 0..m + 1
        PROVE  more[k] = IF k = 0 THEN 0 ELSE 10 * more[k - 1] + ValueOf(d[k])
    <3>1. CASE k \in 0..m
      <4>1. k # 0 => k - 1 \in 0..m
        BY <2>1, <3>1
      <4> QED BY <2>3, <2>4, <3>1, <4>1
    <3>2. CASE k = m + 1
      <4>1. k # 0 /\ k - 1 = m /\ m \in 0..m
        BY <2>1, <3>2
      <4> QED BY <2>4, <3>2, <4>1
    <3> QED BY <2>1, <3>1, <3>2
  <2>6. Counts(d, m + 1, more)
    BY <2>4, <2>5 DEF Counts
  <2> QED BY <2>1, <2>6
<1>3. Ok = Nat
  <2> HIDE DEF Ok
  <2>1. Ok \in SUBSET Nat
    BY DEF Ok
  <2> QED BY <1>1, <1>2, <2>1, Induction
<1> QED BY <1>3

LEMMA NumberIs ==
  ASSUME NEW d, NEW n \in Nat, Len(d) = n
  PROVE  \E N : /\ N[0] = 0 /\ Number(d) = N[n]
                /\ \A k \in 1..n : N[k] = 10 * N[k - 1] + ValueOf(d[k])
<1> DEFINE N == CHOOSE N : Counts(d, Len(d), N)
<1>1. Counts(d, n, N)
  BY CountsExists
<1>2. Number(d) = N[n]
  BY Zenon DEF Number, Counts
<1> HIDE DEF N
<1>3. \A k \in 0..n : N[k] = IF k = 0 THEN 0 ELSE 10 * N[k - 1] + ValueOf(d[k])
  BY <1>1 DEF Counts
<1>4. 0 \in 0..n /\ \A k \in 1..n : k \in 0..n /\ k # 0
  OBVIOUS
<1> QED BY <1>2, <1>3, <1>4

LEMMA NumberTyped ==
  ASSUME NEW d \in Seq(Digits)
  PROVE  Number(d) \in Nat
<1> DEFINE n == Len(d)
<1>1. n \in Nat /\ \A k \in 1..n : d[k] \in Digits
  BY LenProperties
<1>2. PICK N : /\ N[0] = 0 /\ Number(d) = N[n]
               /\ \A k \in 1..n : N[k] = 10 * N[k - 1] + ValueOf(d[k])
  BY <1>1, NumberIs
<1> DEFINE Ok == {k \in Nat : k <= n => N[k] \in Nat}
<1>3. 0 \in Ok
  BY <1>2
<1>4. ASSUME NEW k \in Ok PROVE k + 1 \in Ok
  <2> SUFFICES ASSUME k + 1 <= n PROVE N[k + 1] \in Nat
    OBVIOUS
  <2>1. k + 1 \in 1..n /\ k + 1 - 1 = k /\ N[k] \in Nat
    BY <1>1
  <2>2. ValueOf(d[k + 1]) \in Nat
    BY <1>1, <2>1, ValueRange
  <2>3. N[k + 1] = 10 * N[k] + ValueOf(d[k + 1])
    BY <1>2, <2>1
  <2> QED BY <2>1, <2>2, <2>3
<1>5. Ok = Nat
  <2> HIDE DEF Ok
  <2>1. Ok \in SUBSET Nat
    BY DEF Ok
  <2> QED BY <1>3, <1>4, <2>1, Induction
<1> QED BY <1>1, <1>2, <1>5

(* The function that Decimal reads off: a digit for a number below ten, and *)
(* otherwise one more for what is left of it.                               *)
Tenth(n) == n \div 10
Units(n) == n % 10
One(k) == <<Digit[k + 1]>>
More(d, k) == d \o <<Digit[Units(k) + 1]>>
Writes(n, D) == D = [k \in 0..n |-> IF k < 10 THEN One(k) ELSE More(D[Tenth(k)], k)]
WritesAt(n, D) == \A k \in 0..n : /\ k < 10 => D[k] = One(k)
                                  /\ ~(k < 10) => D[k] = More(D[Tenth(k)], k)

LEMMA TenthIs ==
  ASSUME NEW k \in Nat
  PROVE  /\ Tenth(k) \in Nat /\ Units(k) \in 0..9 /\ k = 10 * Tenth(k) + Units(k)
         /\ k >= 10 => Tenth(k) < k
BY DEF Tenth, Units

Tens(n, t, h) ==
  /\ t \in 0..n /\ t \in Nat /\ t < 100 /\ (t < 10 <=> n < 100)
  /\ h \in 0..n /\ h \in Nat /\ h < 10
  /\ Units(n) \in 0..9 /\ n = 10 * t + Units(n)
  /\ Units(t) \in 0..9 /\ t = 10 * h + Units(t)

LEMMA TensAre ==
  ASSUME NEW n \in Nat, n < 1000
  PROVE  Tens(n, Tenth(n), Tenth(Tenth(n)))
<1> DEFINE t == Tenth(n)
           h == Tenth(t)
           a == Units(n)
           b == Units(t)
<1>1. t \in Nat /\ a \in 0..9 /\ n = 10 * t + a
  BY TenthIs
<1>2. h \in Nat /\ b \in 0..9 /\ t = 10 * h + b
  BY <1>1, TenthIs
<1> HIDE DEF t, h, a, b
<1>3. t \in 0..n /\ t < 100 /\ (t < 10 <=> n < 100)
  BY <1>1
<1>4. h \in 0..n /\ h < 10
  BY <1>2, <1>3
<1> QED BY <1>1, <1>2, <1>3, <1>4 DEF Tens, t, h, a, b

LEMMA WritesAtIs ==
  ASSUME NEW n \in Nat, NEW D, Writes(n, D)
  PROVE  WritesAt(n, D)
<1>1. \A k \in 0..n : D[k] = IF k < 10 THEN One(k) ELSE More(D[Tenth(k)], k)
  BY Zenon DEF Writes
<1> QED BY <1>1 DEF WritesAt

LEMMA WritesIs ==
  ASSUME NEW n \in Nat, NEW D, D = [k \in 0..n |-> D[k]], WritesAt(n, D)
  PROVE  Writes(n, D)
<1>1. \A k \in 0..n : D[k] = IF k < 10 THEN One(k) ELSE More(D[Tenth(k)], k)
  BY DEF WritesAt
<1>2. D = [k \in 0..n |-> IF k < 10 THEN One(k) ELSE More(D[Tenth(k)], k)]
  BY <1>1, Zenon
<1> QED BY <1>2, Zenon DEF Writes

LEMMA WritesExists ==
  ASSUME NEW n \in Nat
  PROVE  \E D : Writes(n, D)
<1> DEFINE Ok == {m \in Nat : \E D : Writes(m, D)}
<1>1. 0 \in Ok
  <2> DEFINE none == [k \in 0..0 |-> One(k)]
  <2>1. none = [k \in 0..0 |-> none[k]] /\ WritesAt(0, none)
    BY DEF WritesAt
  <2>2. Writes(0, none)
    BY <2>1, WritesIs
  <2> QED BY <2>2
<1>2. ASSUME NEW m \in Ok PROVE m + 1 \in Ok
  <2>1. m \in Nat
    OBVIOUS
  <2>2. PICK D : Writes(m, D)
    OBVIOUS
  <2> DEFINE next == IF m + 1 < 10 THEN One(m + 1) ELSE More(D[Tenth(m + 1)], m + 1)
             more == [k \in 0..m + 1 |-> IF k <= m THEN D[k] ELSE next]
  <2>3. WritesAt(m, D)
    BY <2>1, <2>2, WritesAtIs
  <2>4. /\ \A k \in 0..m : more[k] = D[k]
        /\ more[m + 1] = next
        /\ more = [k \in 0..m + 1 |-> more[k]]
    <3> HIDE DEF next
    <3> QED BY <2>1
  <2> HIDE DEF more
  <2>5. ASSUME NEW k \in 0..m + 1
        PROVE  /\ k < 10 => more[k] = One(k)
               /\ ~(k < 10) => more[k] = More(more[Tenth(k)], k)
    <3>1. k \in Nat /\ (~(k < 10) => Tenth(k) \in 0..m)
      BY <2>1, TenthIs
    <3>2. CASE k \in 0..m
      BY <2>3, <2>4, <3>1, <3>2 DEF WritesAt
    <3>3. CASE k = m + 1
      BY <2>4, <3>1, <3>3
    <3> QED BY <2>1, <3>2, <3>3
  <2>6. WritesAt(m + 1, more)
    BY <2>5 DEF WritesAt
  <2>7. Writes(m + 1, more)
    BY <2>1, <2>4, <2>6, WritesIs
  <2> QED BY <2>1, <2>7
<1>3. Ok = Nat
  <2> HIDE DEF Ok
  <2>1. Ok \in SUBSET Nat
    BY DEF Ok
  <2> QED BY <1>1, <1>2, <2>1, Induction
<1> QED BY <1>3

(* What is written of a port of up to three digits.                         *)
Shown(n, d) ==
  IF n < 10 THEN d = One(n)
  ELSE IF n < 100 THEN d = More(One(Tenth(n)), n)
  ELSE d = More(More(One(Tenth(Tenth(n))), Tenth(n)), n)

LEMMA DecimalShows ==
  ASSUME NEW n \in Nat, n < 1000
  PROVE  Shown(n, Decimal(n))
<1> DEFINE D == CHOOSE D : Writes(n, D)
<1>1. WritesAt(n, D)
  BY WritesExists, WritesAtIs
<1>2. Decimal(n) = D[n]
  BY Zenon DEF Decimal, Writes, One, More, Tenth, Units
<1> HIDE DEF D
<1> DEFINE t == Tenth(n)
           h == Tenth(t)
<1>3. t \in Nat /\ h \in Nat /\ n \in 0..n
  BY TenthIs
<1>4. CASE n < 10
  BY <1>1, <1>2, <1>3, <1>4 DEF Shown, WritesAt
<1>5. CASE ~(n < 10)
  <2>1. t \in 0..n /\ (t < 10 <=> n < 100) /\ t < 100
    BY TensAre DEF Tens
  <2>2. h \in 0..n /\ h < 10
    BY TensAre DEF Tens
  <2>3. D[n] = More(D[t], n)
    BY <1>1, <1>3, <1>5 DEF WritesAt
  <2>4. t < 10 => D[t] = One(t)
    BY <1>1, <2>1 DEF WritesAt
  <2>5. ~(t < 10) => D[t] = More(D[h], t) /\ D[h] = One(h)
    BY <1>1, <2>1, <2>2 DEF WritesAt
  <2> HIDE DEF t, h
  <2>6. Decimal(n) = IF n < 100 THEN More(One(t), n) ELSE More(More(One(h), t), n)
    BY <1>2, <2>1, <2>3, <2>4, <2>5
  <2> QED BY <1>5, <2>6 DEF Shown, t, h
<1> QED BY <1>4, <1>5

(* It is made of digits, three at most, and the number is read off it.      *)
LEMMA DecimalIs ==
  ASSUME NEW n \in Nat, n < 1000
  PROVE  /\ Decimal(n) \in Seq(Digits)
         /\ Len(Decimal(n)) \in 1..3
         /\ Number(Decimal(n)) = n
<1> DEFINE d == Decimal(n)
           t == Tenth(n)
           h == Tenth(t)
<1>1. Shown(n, d)
  BY DecimalShows
<1>2. Tens(n, t, h)
  BY TensAre
<1>3. /\ t \in Nat /\ Units(n) \in 0..9 /\ n = 10 * t + Units(n)
      /\ (n < 100 <=> t < 10) /\ t < 100
      /\ h \in Nat /\ Units(t) \in 0..9 /\ t = 10 * h + Units(t) /\ h < 10
  BY <1>2 DEF Tens
<1> HIDE DEF d
<1>4. CASE n < 10
  <2>1. d = <<Digit[n + 1]>> /\ n \in 0..9
    BY <1>1, <1>4 DEF Shown, One, More
  <2>2. Digit[n + 1] \in Digits /\ ValueOf(Digit[n + 1]) = n
    BY <2>1, DigitIs
  <2>3. Len(d) = 1 /\ d[1] = Digit[n + 1] /\ d \in Seq(Digits)
    BY <2>1, <2>2
  <2>4. PICK N : /\ N[0] = 0 /\ Number(d) = N[1]
                 /\ \A k \in 1..1 : N[k] = 10 * N[k - 1] + ValueOf(d[k])
    BY <2>3, NumberIs
  <2>5. Number(d) = 10 * 0 + n
    BY <2>2, <2>3, <2>4
  <2> QED BY <2>3, <2>5 DEF d
<1>5. CASE n >= 10 /\ n < 100
  <2> HIDE DEF t
  <2>1. d = More(One(t), n) /\ t \in 0..9
    BY <1>1, <1>3, <1>5 DEF Shown, t
  <2>2. /\ Digit[t + 1] \in Digits /\ ValueOf(Digit[t + 1]) = t
        /\ Digit[Units(n) + 1] \in Digits
        /\ ValueOf(Digit[Units(n) + 1]) = Units(n)
    BY <1>3, <2>1, DigitIs
  <2>3. /\ Len(d) = 2 /\ d[1] = Digit[t + 1] /\ d[2] = Digit[Units(n) + 1]
        /\ d \in Seq(Digits)
    <3> DEFINE a == Digit[t + 1]
               b == Digit[Units(n) + 1]
    <3>1. d = <<a>> \o <<b>> /\ a \in Digits /\ b \in Digits
      BY <2>1, <2>2, Zenon DEF More, One
    <3> HIDE DEF a, b
    <3>2. <<a>> \in Seq(Digits) /\ <<b>> \in Seq(Digits)
      BY <3>1
    <3>3. Len(<<a>>) = 1 /\ Len(<<b>>) = 1 /\ <<a>>[1] = a /\ <<b>>[1] = b
      OBVIOUS
    <3>4. Len(d) = 2 /\ d[1] = a /\ d[2] = b /\ d \in Seq(Digits)
      BY <3>1, <3>2, <3>3, ConcatProperties
    <3> QED BY <3>4 DEF a, b
  <2>4. PICK N : /\ N[0] = 0 /\ Number(d) = N[2]
                 /\ \A k \in 1..2 : N[k] = 10 * N[k - 1] + ValueOf(d[k])
    BY <2>3, NumberIs
  <2>5. N[1] = 10 * 0 + t /\ N[2] = 10 * N[1] + Units(n)
    BY <2>2, <2>3, <2>4
  <2>6. Number(d) = n
    BY <1>3, <2>4, <2>5
  <2> QED BY <2>3, <2>6 DEF d
<1>6. CASE n >= 100
  <2>1. d = <<Digit[h + 1], Digit[Units(t) + 1], Digit[Units(n) + 1]>> /\ h \in 0..9
    BY <1>1, <1>3, <1>6 DEF Shown, One, More
  <2>2. /\ Digit[h + 1] \in Digits /\ ValueOf(Digit[h + 1]) = h
        /\ Digit[Units(t) + 1] \in Digits
        /\ ValueOf(Digit[Units(t) + 1]) = Units(t)
        /\ Digit[Units(n) + 1] \in Digits
        /\ ValueOf(Digit[Units(n) + 1]) = Units(n)
    BY <1>3, <2>1, DigitIs
  <2>3. /\ Len(d) = 3 /\ d[1] = Digit[h + 1] /\ d[2] = Digit[Units(t) + 1]
        /\ d[3] = Digit[Units(n) + 1] /\ d \in Seq(Digits)
    BY <2>1, <2>2
  <2>4. PICK N : /\ N[0] = 0 /\ Number(d) = N[3]
                 /\ \A k \in 1..3 : N[k] = 10 * N[k - 1] + ValueOf(d[k])
    BY <2>3, NumberIs
  <2>5. N[1] = 10 * 0 + h /\ N[2] = 10 * N[1] + Units(t) /\ N[3] = 10 * N[2] + Units(n)
    BY <2>2, <2>3, <2>4
  <2>6. Number(d) = n
    BY <1>3, <2>4, <2>5
  <2> QED BY <2>3, <2>6 DEF d
<1> QED BY <1>4, <1>5, <1>6
-----------------------------------------------------------------------------
(* Texts joined to one another.                                             *)
Extends(s, u) == Len(u) <= Len(s) /\ \A k \in 1..Len(u) : s[k] = u[k]
Joined(w, u, v) ==
  /\ w \in Strings /\ Len(w) = Len(u) + Len(v)
  /\ Extends(w, u) /\ Occurs(w, Len(u) + 1, v)

LEMMA StringsLen ==
  ASSUME NEW x \in Strings
  PROVE  Len(x) \in Nat /\ \A k \in 1..Len(x) : x[k] \in Chars
BY LenProperties DEF Strings

LEMMA FurtherOn ==
  ASSUME NEW p \in Nat \ {0}, NEW n \in Nat
  PROVE  p + n \in Nat \ {0} /\ p <= p + n
OBVIOUS

LEMMA JoinedIs ==
  ASSUME NEW u \in Strings, NEW v \in Strings
  PROVE  Joined(u \o v, u, v)
<1> DEFINE w == u \o v
           m == Len(u)
           n == Len(v)
<1>1. m \in Nat /\ n \in Nat
  BY StringsLen
<1>2. /\ w \in Seq(Chars) /\ Len(w) = m + n
      /\ \A k \in 1..m + n : w[k] = IF k <= m THEN u[k] ELSE v[k - m]
  BY ConcatProperties DEF Strings
<1> HIDE DEF w, m, n
<1>3. \A k \in 1..m : w[k] = u[k]
  BY <1>1, <1>2
<1>4. \A k \in 1..n : w[m + 1 + k - 1] = v[k]
  <2> TAKE k \in 1..n
  <2> DEFINE j == m + 1 + k - 1
  <2>1. j \in 1..m + n /\ ~(j <= m) /\ j - m = k
    BY <1>1
  <2> HIDE DEF j
  <2>2. w[j] = v[j - m]
    BY <1>2, <2>1
  <2> QED BY <2>1, <2>2 DEF j
<1>5. m <= Len(w) /\ m + 1 + n <= Len(w) + 1
  BY <1>1, <1>2
<1> QED BY <1>2, <1>3, <1>4, <1>5 DEF Joined, Extends, Occurs, Strings, m, n, w

LEMMA ExtendsTrans ==
  ASSUME NEW a \in Strings, NEW b \in Strings, NEW c \in Strings, Extends(a, b), Extends(b, c)
  PROVE  Extends(a, c)
<1>1. Len(a) \in Nat /\ Len(b) \in Nat /\ Len(c) \in Nat
  BY StringsLen
<1> QED BY <1>1 DEF Extends

LEMMA OccursExtends ==
  ASSUME NEW s \in Strings, NEW u \in Strings, NEW x \in Strings, NEW p \in Nat \ {0},
         Extends(s, u), Occurs(u, p, x)
  PROVE  Occurs(s, p, x)
<1>1. Len(s) \in Nat /\ Len(u) \in Nat /\ Len(x) \in Nat
  BY StringsLen
<1>2. \A k \in 1..Len(x) : p + k - 1 \in 1..Len(u)
  BY <1>1 DEF Occurs
<1>3. p + Len(x) <= Len(s) + 1
  BY <1>1 DEF Occurs, Extends
<1> QED BY <1>2, <1>3 DEF Occurs, Extends

LEMMA OccursParts ==
  ASSUME NEW s \in Strings, NEW u \in Strings, NEW v \in Strings, NEW p \in Nat \ {0},
         Occurs(s, p, u \o v)
  PROVE  Occurs(s, p, u) /\ Occurs(s, p + Len(u), v)
<1> DEFINE w == u \o v
           m == Len(u)
           n == Len(v)
<1>1. m \in Nat /\ n \in Nat /\ Len(s) \in Nat
  BY StringsLen
<1>2. Joined(w, u, v)
  BY JoinedIs
<1>3. /\ Len(w) = m + n /\ \A k \in 1..m : w[k] = u[k]
      /\ \A k \in 1..n : w[m + 1 + k - 1] = v[k]
  BY <1>2 DEF Joined, Extends, Occurs
<1> HIDE DEF w, m, n
<1>4. p + Len(w) <= Len(s) + 1 /\ \A k \in 1..Len(w) : s[p + k - 1] = w[k]
  BY DEF Occurs, w
<1>5. Occurs(s, p, u)
  <2>1. p + m <= Len(s) + 1 /\ \A k \in 1..m : k \in 1..Len(w)
    BY <1>1, <1>3, <1>4
  <2> QED BY <1>3, <1>4, <2>1 DEF Occurs, m
<1>6. Occurs(s, p + m, v)
  <2>1. ASSUME NEW k \in 1..n PROVE s[p + m + k - 1] = v[k]
    <3>1. m + 1 + k - 1 \in 1..Len(w) /\ p + m + k - 1 = p + (m + 1 + k - 1) - 1
      BY <1>1, <1>3
    <3> QED BY <1>3, <1>4, <3>1
  <2>2. p + m + n <= Len(s) + 1
    BY <1>1, <1>3, <1>4
  <2> QED BY <2>1, <2>2 DEF Occurs, n
<1> QED BY <1>5, <1>6 DEF m

(* The pieces of what is printed, and the positions where they begin.       *)
Slashes(i) ==
  IF i.host = NoText THEN <<":">>
  ELSE IF i.scheme # NoText THEN <<":", "/", "/">> ELSE <<>>
PortPiece(i) == IF i.port # 0 THEN <<":">> \o Decimal(i.port) ELSE <<>>
Positions(s, x1, x2, x3, x4, x5, x6, x7, x8, p2, p3, p4, p5, p6, p7, p8) ==
  /\ p2 = 1 + Len(x1) /\ p3 = p2 + Len(x2) /\ p4 = p3 + Len(x3) /\ p5 = p4 + Len(x4)
  /\ p6 = p5 + Len(x5) /\ p7 = p6 + Len(x6) /\ p8 = p7 + Len(x7)
  /\ Len(s) + 1 = p8 + Len(x8)
  /\ {p2, p3, p4, p5, p6, p7, p8} \subseteq Nat \ {0}
Laid(s, x1, x2, x3, x4, x5, x6, x7, x8, p2, p3, p4, p5, p6, p7, p8) ==
  /\ Occurs(s, 1, x1) /\ Occurs(s, p2, x2) /\ Occurs(s, p3, x3) /\ Occurs(s, p4, x4)
  /\ Occurs(s, p5, x5) /\ Occurs(s, p6, x6) /\ Occurs(s, p7, x7) /\ Occurs(s, p8, x8)

MadeOf(s, x1, x2, x3, x4, x5, x6, x7, x8) ==
  \E p2, p3, p4, p5, p6, p7, p8 :
     /\ s \in Strings
     /\ Positions(s, x1, x2, x3, x4, x5, x6, x7, x8, p2, p3, p4, p5, p6, p7, p8)
     /\ Laid(s, x1, x2, x3, x4, x5, x6, x7, x8, p2, p3, p4, p5, p6, p7, p8)

LEMMA PiecesLaid ==
  ASSUME NEW x1 \in Strings, NEW x2 \in Strings, NEW x3 \in Strings, NEW x4 \in Strings,
         NEW x5 \in Strings, NEW x6 \in Strings, NEW x7 \in Strings, NEW x8 \in Strings
  PROVE  MadeOf(x1 \o x2 \o x3 \o x4 \o x5 \o x6 \o x7 \o x8,
                x1, x2, x3, x4, x5, x6, x7, x8)
<1> DEFINE s == x1 \o x2 \o x3 \o x4 \o x5 \o x6 \o x7 \o x8
           y2 == x1 \o x2
           y3 == y2 \o x3
           y4 == y3 \o x4
           y5 == y4 \o x5
           y6 == y5 \o x6
           y7 == y6 \o x7
           p2 == 1 + Len(x1)
           p3 == p2 + Len(x2)
           p4 == p3 + Len(x3)
           p5 == p4 + Len(x4)
           p6 == p5 + Len(x5)
           p7 == p6 + Len(x6)
           p8 == p7 + Len(x7)
<1>1. /\ y2 = x1 \o x2 /\ y3 = y2 \o x3 /\ y4 = y3 \o x4 /\ y5 = y4 \o x5
      /\ y6 = y5 \o x6 /\ y7 = y6 \o x7 /\ s = y7 \o x8
  OBVIOUS
<1>2. /\ p2 = 1 + Len(x1) /\ p3 = p2 + Len(x2) /\ p4 = p3 + Len(x3) /\ p5 = p4 + Len(x4)
      /\ p6 = p5 + Len(x5) /\ p7 = p6 + Len(x6) /\ p8 = p7 + Len(x7)
  OBVIOUS
<1> HIDE DEF s, y2, y3, y4, y5, y6, y7, p2, p3, p4, p5, p6, p7, p8
<1>3. /\ Len(x1) \in Nat /\ Len(x2) \in Nat /\ Len(x3) \in Nat /\ Len(x4) \in Nat
      /\ Len(x5) \in Nat /\ Len(x6) \in Nat /\ Len(x7) \in Nat /\ Len(x8) \in Nat
  BY StringsLen
<1>4. {p2, p3, p4, p5, p6, p7, p8} \subseteq Nat \ {0}
  <2>1. 1 \in Nat \ {0}
    OBVIOUS
  <2>2. p2 \in Nat \ {0}
    BY <1>2, <1>3, <2>1, FurtherOn, Zenon
  <2>3. p3 \in Nat \ {0}
    BY <1>2, <1>3, <2>2, FurtherOn, Zenon
  <2>4. p4 \in Nat \ {0}
    BY <1>2, <1>3, <2>3, FurtherOn, Zenon
  <2>5. p5 \in Nat \ {0}
    BY <1>2, <1>3, <2>4, FurtherOn, Zenon
  <2>6. p6 \in Nat \ {0}
    BY <1>2, <1>3, <2>5, FurtherOn, Zenon
  <2>7. p7 \in Nat \ {0}
    BY <1>2, <1>3, <2>6, FurtherOn, Zenon
  <2>8. p8 \in Nat \ {0}
    BY <1>2, <1>3, <2>7, FurtherOn, Zenon
  <2> QED BY <2>2, <2>3, <2>4, <2>5, <2>6, <2>7, <2>8
<1>5. Joined(y2, x1, x2) /\ y2 \in Strings
  BY <1>1, JoinedIs DEF Joined
<1>6. Joined(y3, y2, x3) /\ y3 \in Strings
  BY <1>1, <1>5, JoinedIs DEF Joined
<1>7. Joined(y4, y3, x4) /\ y4 \in Strings
  BY <1>1, <1>6, JoinedIs DEF Joined
<1>8. Joined(y5, y4, x5) /\ y5 \in Strings
  BY <1>1, <1>7, JoinedIs DEF Joined
<1>9. Joined(y6, y5, x6) /\ y6 \in Strings
  BY <1>1, <1>8, JoinedIs DEF Joined
<1>10. Joined(y7, y6, x7) /\ y7 \in Strings
  BY <1>1, <1>9, JoinedIs DEF Joined
<1>11. Joined(s, y7, x8) /\ s \in Strings
  <2>1. Joined(y7 \o x8, y7, x8)
    BY <1>10, JoinedIs
  <2>2. s = y7 \o x8
    BY <1>1
  <2>3. Joined(s, y7, x8)
    BY <2>1, <2>2, Zenon
  <2> QED BY <2>3 DEF Joined
<1>12. Extends(s, y7) /\ Extends(s, y6) /\ Extends(s, y5)
  <2>1. Extends(s, y7) /\ Extends(y7, y6) /\ Extends(y6, y5)
    BY <1>9, <1>10, <1>11 DEF Joined
  <2>2. Extends(s, y6)
    BY <1>9, <1>10, <1>11, <2>1, ExtendsTrans
  <2> QED BY <1>8, <1>9, <1>11, <2>1, <2>2, ExtendsTrans
<1>13. Extends(s, y4) /\ Extends(s, y3) /\ Extends(s, y2) /\ Extends(s, x1)
  <2>1. Extends(y5, y4) /\ Extends(y4, y3) /\ Extends(y3, y2) /\ Extends(y2, x1)
    BY <1>5, <1>6, <1>7, <1>8 DEF Joined
  <2>2. Extends(s, y4)
    BY <1>7, <1>8, <1>11, <1>12, <2>1, ExtendsTrans
  <2>3. Extends(s, y3)
    BY <1>6, <1>7, <1>11, <2>1, <2>2, ExtendsTrans
  <2>4. Extends(s, y2)
    BY <1>5, <1>6, <1>11, <2>1, <2>3, ExtendsTrans
  <2> QED BY <1>5, <1>11, <2>1, <2>2, <2>3, <2>4, ExtendsTrans
<1>14. /\ Len(y2) + 1 = p3 /\ Len(y3) + 1 = p4 /\ Len(y4) + 1 = p5 /\ Len(y5) + 1 = p6
       /\ Len(y6) + 1 = p7 /\ Len(y7) + 1 = p8 /\ Len(s) + 1 = p8 + Len(x8)
       /\ Len(x1) + 1 = p2
  <2>1. /\ Len(y2) = Len(x1) + Len(x2) /\ Len(y3) = Len(y2) + Len(x3)
        /\ Len(y4) = Len(y3) + Len(x4) /\ Len(y5) = Len(y4) + Len(x5)
        /\ Len(y6) = Len(y5) + Len(x6) /\ Len(y7) = Len(y6) + Len(x7)
        /\ Len(s) = Len(y7) + Len(x8)
    BY <1>5, <1>6, <1>7, <1>8, <1>9, <1>10, <1>11 DEF Joined
  <2> QED BY <1>2, <1>3, <2>1
<1>15. /\ Occurs(y2, p2, x2) /\ Occurs(y3, p3, x3) /\ Occurs(y4, p4, x4)
       /\ Occurs(y5, p5, x5) /\ Occurs(y6, p6, x6) /\ Occurs(y7, p7, x7)
       /\ Occurs(s, p8, x8)
  BY <1>5, <1>6, <1>7, <1>8, <1>9, <1>10, <1>11, <1>14, Zenon DEF Joined
<1>16. Occurs(s, 1, x1)
  BY <1>13 DEF Occurs, Extends
<1>17. Occurs(s, p2, x2) /\ Occurs(s, p3, x3) /\ Occurs(s, p4, x4)
  BY <1>4, <1>5, <1>6, <1>7, <1>11, <1>13, <1>15, OccursExtends
<1>18. Occurs(s, p5, x5) /\ Occurs(s, p6, x6) /\ Occurs(s, p7, x7)
  BY <1>4, <1>8, <1>9, <1>10, <1>11, <1>12, <1>15, OccursExtends
<1>19. Positions(s, x1, x2, x3, x4, x5, x6, x7, x8, p2, p3, p4, p5, p6, p7, p8)
  BY <1>2, <1>4, <1>14 DEF Positions
<1>20. Laid(s, x1, x2, x3, x4, x5, x6, x7, x8, p2, p3, p4, p5, p6, p7, p8)
  BY <1>15, <1>16, <1>17, <1>18 DEF Laid
<1> QED BY <1>11, <1>19, <1>20, Zenon DEF MadeOf, s
-----------------------------------------------------------------------------
(* The IRIs there are: fields with texts, and a port.                       *)
Iris == [scheme : FieldTexts, user : FieldTexts, host : FieldTexts, port : Nat,
         path : FieldTexts, query : FieldTexts, fragment : FieldTexts]

LEMMA FieldIs ==
  ASSUME NEW f \in FieldTexts
  PROVE  /\ Text(f) \in Strings /\ (f = NoText \/ f = Some(Text(f)))
         /\ f = NoText => Text(f) = <<>> /\ Size(f) = 0 /\ Extra(f) = 0
         /\ f # NoText => Extra(f) = 1
         /\ Size(f) = Len(Text(f)) /\ Size(f) \in Nat
<1>1. f \in Seq(Strings) /\ Len(f) \in Nat /\ Len(f) <= 1
  BY LenProperties DEF FieldTexts
<1>2. CASE Len(f) = 0
  <2>1. f = <<>>
    BY <1>1, <1>2, EmptySeq
  <2>2. Text(f) = <<>> /\ Text(f) \in Strings
    BY <2>1, EmptySeq DEF Text, NoText, Strings
  <2> QED BY <1>2, <2>1, <2>2 DEF NoText, Size, Extra
<1>3. CASE Len(f) = 1
  <2>1. f # NoText
    BY <1>3 DEF NoText
  <2>2. f[1] \in Strings /\ Text(f) = f[1]
    BY <1>1, <1>3, <2>1, LenProperties DEF Text
  <2>3. f = Some(f[1])
    BY <1>1, <1>3 DEF Some
  <2>4. Size(f) = Len(Text(f)) /\ Size(f) \in Nat
    BY <2>2, StringsLen DEF Size
  <2>5. f = Some(Text(f))
    BY <2>2, <2>3, Zenon
  <2>6. Extra(f) = 1 /\ Text(f) \in Strings
    BY <1>3, <2>2 DEF Extra
  <2> QED BY <2>1, <2>4, <2>5, <2>6, Zenon
<1>4. Len(f) = 0 \/ Len(f) = 1
  <2> DEFINE n == Len(f)
  <2>1. n \in Nat /\ n <= 1
    BY <1>1
  <2> HIDE DEF n
  <2>2. n = 0 \/ n = 1
    BY <2>1
  <2> QED BY <2>2 DEF n
<1> QED BY <1>2, <1>3, <1>4, Zenon

(* A field with the delimiter behind it and in front of it.                 *)
LEMMA DelimiterIs ==
  ASSUME NEW c \in Delims
  PROVE  <<c>> \in Strings /\ Len(<<c>>) = 1 /\ <<c>>[1] = c
BY CharsAre DEF Strings

LEMMA EndedByIs ==
  ASSUME NEW f \in FieldTexts, NEW c \in Delims
  PROVE  /\ EndedBy(f, <<c>>) \in Strings
         /\ Len(EndedBy(f, <<c>>)) = Size(f) + Extra(f)
<1>1. CASE f = NoText
  BY <1>1, EmptySeq, FieldIs DEF EndedBy, Strings
<1>2. CASE f # NoText
  <2>1. /\ Text(f) \in Strings /\ <<c>> \in Strings /\ Len(<<c>>) = 1
        /\ Extra(f) = 1 /\ Size(f) = Len(Text(f))
    BY <1>2, DelimiterIs, FieldIs
  <2>2. Joined(Text(f) \o <<c>>, Text(f), <<c>>)
    BY <2>1, JoinedIs
  <2>3. EndedBy(f, <<c>>) = Text(f) \o <<c>>
    BY <1>2 DEF EndedBy
  <2> QED BY <2>1, <2>2, <2>3 DEF Joined
<1> QED BY <1>1, <1>2

LEMMA LedByIs ==
  ASSUME NEW f \in FieldTexts, NEW c \in Delims
  PROVE  /\ LedBy(<<c>>, f) \in Strings
         /\ Len(LedBy(<<c>>, f)) = Extra(f) + Size(f)
<1>1. CASE f = NoText
  BY <1>1, EmptySeq, FieldIs DEF LedBy, Strings
<1>2. CASE f # NoText
  <2>1. /\ Text(f) \in Strings /\ <<c>> \in Strings /\ Len(<<c>>) = 1
        /\ Extra(f) = 1 /\ Size(f) = Len(Text(f))
    BY <1>2, DelimiterIs, FieldIs
  <2>2. Joined(<<c>> \o Text(f), <<c>>, Text(f))
    BY <2>1, JoinedIs
  <2>3. LedBy(<<c>>, f) = <<c>> \o Text(f)
    BY <1>2 DEF LedBy
  <2> QED BY <2>1, <2>2, <2>3 DEF Joined
<1> QED BY <1>1, <1>2

LEMMA SlashesIs ==
  ASSUME NEW i
  PROVE  Slashes(i) \in Strings /\ Len(Slashes(i)) \in 0..3
<1>1. ":" \in Chars /\ "/" \in Chars
  BY CharsAre DEF Delims
<1>2. <<":">> \in Seq(Chars) /\ <<":", "/", "/">> \in Seq(Chars) /\ <<>> \in Seq(Chars)
  BY <1>1
<1> QED BY <1>2 DEF Slashes, Strings

LEMMA PortPieceIs ==
  ASSUME NEW i \in Iris, i.port < 1000
  PROVE  /\ PortPiece(i) \in Strings
         /\ i.port = 0 => Len(PortPiece(i)) = 0
         /\ i.port # 0 => Len(PortPiece(i)) = 1 + Len(Decimal(i.port))
         /\ Len(Decimal(i.port)) \in 1..3 /\ Decimal(i.port) \in Strings
<1>1. i.port \in Nat
  BY DEF Iris
<1>2. Len(Decimal(i.port)) \in 1..3 /\ Decimal(i.port) \in Strings
  BY <1>1, DecimalIs, DigitChars
<1>3. CASE i.port = 0
  BY <1>2, <1>3, EmptySeq DEF PortPiece, Strings
<1>4. CASE i.port # 0
  <2>1. <<":">> \in Strings /\ Len(<<":">>) = 1
    BY DelimiterIs DEF Delims
  <2>2. Joined(<<":">> \o Decimal(i.port), <<":">>, Decimal(i.port))
    BY <1>2, <2>1, JoinedIs
  <2>3. PortPiece(i) = <<":">> \o Decimal(i.port)
    BY <1>4 DEF PortPiece
  <2> QED BY <1>2, <1>4, <2>1, <2>2, <2>3 DEF Joined
<1> QED BY <1>3, <1>4

(* What is printed is laid out as its eight pieces.                         *)
LaidOut(i, s, p2, p3, p4, p5, p6, p7, p8) ==
  /\ Positions(s, Text(i.scheme), Slashes(i), EndedBy(i.user, <<"@">>), Text(i.host),
               PortPiece(i), Text(i.path), LedBy(<<"?">>, i.query),
               LedBy(<<"#">>, i.fragment), p2, p3, p4, p5, p6, p7, p8)
  /\ Laid(s, Text(i.scheme), Slashes(i), EndedBy(i.user, <<"@">>), Text(i.host),
          PortPiece(i), Text(i.path), LedBy(<<"?">>, i.query),
          LedBy(<<"#">>, i.fragment), p2, p3, p4, p5, p6, p7, p8)

LEMMA PrintedLaidOut ==
  ASSUME NEW i \in Iris, i.port < 1000
  PROVE  /\ Printed(i) \in Strings
         /\ \E p2, p3, p4, p5, p6, p7, p8 : LaidOut(i, Printed(i), p2, p3, p4, p5, p6, p7, p8)
<1> DEFINE x1 == Text(i.scheme)
           x2 == Slashes(i)
           x3 == EndedBy(i.user, <<"@">>)
           x4 == Text(i.host)
           x5 == PortPiece(i)
           x6 == Text(i.path)
           x7 == LedBy(<<"?">>, i.query)
           x8 == LedBy(<<"#">>, i.fragment)
           s == Printed(i)
<1>1. x1 \in Strings /\ x4 \in Strings /\ x6 \in Strings
  BY FieldIs DEF Iris
<1>2. x2 \in Strings /\ x5 \in Strings
  BY SlashesIs, PortPieceIs
<1>3. x3 \in Strings /\ x7 \in Strings /\ x8 \in Strings
  BY EndedByIs, LedByIs DEF Iris, Delims
<1>4. s = x1 \o x2 \o x3 \o x4 \o x5 \o x6 \o x7 \o x8
  BY Zenon DEF Printed, Slashes, PortPiece
<1>5. MadeOf(s, x1, x2, x3, x4, x5, x6, x7, x8)
  <2> HIDE DEF s, x1, x2, x3, x4, x5, x6, x7, x8
  <2>1. MadeOf(x1 \o x2 \o x3 \o x4 \o x5 \o x6 \o x7 \o x8, x1, x2, x3, x4, x5, x6, x7, x8)
    BY <1>1, <1>2, <1>3, PiecesLaid, ZenonT(40)
  <2> QED BY <1>4, <2>1, ZenonT(40)
<1> QED BY <1>5, ZenonT(40) DEF LaidOut, MadeOf

LEMMA Fits ==
  ASSUME NEW i \in Iris, i.port < 1000
  PROVE  Len(Printed(i)) < Room(i)
<1> DEFINE s == Printed(i)
<1>1. PICK p2, p3, p4, p5, p6, p7, p8 : LaidOut(i, s, p2, p3, p4, p5, p6, p7, p8)
  BY PrintedLaidOut, Zenon
<1> DEFINE n1 == Size(i.scheme)
           n2 == Len(Slashes(i))
           n3 == Size(i.user)
           n4 == Size(i.host)
           n5 == Len(PortPiece(i))
           n6 == Size(i.path)
           n7 == Size(i.query)
           n8 == Size(i.fragment)
           e3 == Extra(i.user)
           e7 == Extra(i.query)
           e8 == Extra(i.fragment)
<1>2. /\ n1 \in Nat /\ n3 \in Nat /\ n4 \in Nat /\ n6 \in Nat /\ n7 \in Nat /\ n8 \in Nat
      /\ Len(Text(i.scheme)) = n1 /\ Len(Text(i.host)) = n4 /\ Len(Text(i.path)) = n6
      /\ e3 \in Nat /\ e7 \in Nat /\ e8 \in Nat
  BY FieldIs DEF Iris, Extra
<1>3. /\ Len(EndedBy(i.user, <<"@">>)) = n3 + e3 /\ Len(LedBy(<<"?">>, i.query)) = e7 + n7
      /\ Len(LedBy(<<"#">>, i.fragment)) = e8 + n8
  BY EndedByIs, LedByIs DEF Iris, Delims
<1>4. n2 \in 0..3
  BY SlashesIs
<1>5. n5 \in Nat /\ (i.port = 0 => n5 = 0) /\ (i.port # 0 => n5 <= 4)
  <2> DEFINE n == Len(Decimal(i.port))
  <2>1. n \in 1..3 /\ (i.port = 0 => n5 = 0) /\ (i.port # 0 => n5 = 1 + n)
    BY PortPieceIs, Zenon
  <2> HIDE DEF n, n5
  <2> QED BY <2>1
<1>6. Room(i) = (n1 + n3 + n4 + n6 + n7 + n8) + (3 + 4)
                + (e3 + e7 + e8 + (IF i.port # 0 THEN 1 ELSE 0)) + 1
  BY Zenon DEF Room, Sizes, Delimiters
<1>7. /\ p2 = 1 + n1 /\ p3 = p2 + n2 /\ p4 = p3 + (n3 + e3) /\ p5 = p4 + n4
      /\ p6 = p5 + n5 /\ p7 = p6 + n6 /\ p8 = p7 + (e7 + n7) /\ Len(s) + 1 = p8 + (e8 + n8)
      /\ Len(s) \in Nat
  <2>1. Len(s) \in Nat
    BY PrintedLaidOut, StringsLen
  <2>2. /\ p2 = 1 + Len(Text(i.scheme)) /\ p3 = p2 + n2 /\ p4 = p3 + Len(EndedBy(i.user, <<"@">>))
        /\ p5 = p4 + Len(Text(i.host)) /\ p6 = p5 + n5 /\ p7 = p6 + Len(Text(i.path))
        /\ p8 = p7 + Len(LedBy(<<"?">>, i.query))
        /\ Len(s) + 1 = p8 + Len(LedBy(<<"#">>, i.fragment))
    BY <1>1, Zenon DEF LaidOut, Positions
  <2> HIDE DEF n1, n2, n3, n4, n5, n6, n7, n8, e3, e7, e8
  <2> QED BY <1>2, <1>3, <2>1, <2>2, Zenon
<1> HIDE DEF s, n1, n2, n3, n4, n5, n6, n7, n8, e3, e7, e8
<1>8. Len(s) = n1 + n2 + n3 + e3 + n4 + n5 + n6 + e7 + n7 + e8 + n8
  BY <1>2, <1>4, <1>5, <1>7
<1>9. Len(s) < Room(i)
  BY <1>2, <1>4, <1>5, <1>6, <1>8
<1> QED BY <1>9 DEF s
-----------------------------------------------------------------------------
(* The parts of an IRI in its text.                                         *)
UserPart(i, s, p3, p4) ==
  IF i.user = NoText THEN p4 = p3
  ELSE /\ Occurs(s, p3, Text(i.user)) /\ Occurs(s, p4 - 1, <<"@">>)
       /\ p4 - 1 = p3 + Len(Text(i.user))
PortPart(i, s, p5, p6) ==
  IF i.port = 0 THEN p6 = p5
  ELSE /\ Occurs(s, p5, <<":">>) /\ Occurs(s, p5 + 1, Decimal(i.port))
       /\ p6 = p5 + 1 + Len(Decimal(i.port))
LedPart(f, c, s, p, next) ==
  IF f = NoText THEN next = p
  ELSE /\ Occurs(s, p, <<c>>) /\ Occurs(s, p + 1, Text(f))
       /\ next = p + 1 + Len(Text(f))
TextPart(f, s, p, next) == Occurs(s, p, Text(f)) /\ next = p + Len(Text(f))

Parts(i, s, p2, p3, p4, p5, p6, p7, p8) ==
  /\ TextPart(i.scheme, s, 1, p2)
  /\ Occurs(s, p2, Slashes(i)) /\ p3 = p2 + Len(Slashes(i))
  /\ UserPart(i, s, p3, p4)
  /\ TextPart(i.host, s, p4, p5)
  /\ PortPart(i, s, p5, p6)
  /\ TextPart(i.path, s, p6, p7)
  /\ LedPart(i.query, "?", s, p7, p8)
  /\ LedPart(i.fragment, "#", s, p8, Len(s) + 1)

LEMMA LedPartIs ==
  ASSUME NEW f \in FieldTexts, NEW c \in Delims, NEW s \in Strings, NEW p \in Nat \ {0},
         Occurs(s, p, LedBy(<<c>>, f))
  PROVE  LedPart(f, c, s, p, p + Len(LedBy(<<c>>, f)))
<1>1. CASE f = NoText
  <2>1. Len(LedBy(<<c>>, f)) = 0
    BY <1>1, LedByIs, FieldIs
  <2> QED BY <1>1, <2>1 DEF LedPart
<1>2. CASE f # NoText
  <2>1. /\ Text(f) \in Strings /\ <<c>> \in Strings /\ Len(<<c>>) = 1 /\ Len(Text(f)) \in Nat
        /\ LedBy(<<c>>, f) = <<c>> \o Text(f)
    BY <1>2, DelimiterIs, FieldIs DEF LedBy
  <2>2. Occurs(s, p, <<c>>) /\ Occurs(s, p + Len(<<c>>), Text(f))
    <3>1. Occurs(s, p, <<c>> \o Text(f))
      BY <2>1, Zenon
    <3> QED BY <2>1, <3>1, OccursParts, ZenonT(40)
  <2>3. Len(LedBy(<<c>>, f)) = 1 + Len(Text(f))
    BY <1>2, <2>1, LedByIs, FieldIs
  <2>4. p + Len(LedBy(<<c>>, f)) = p + 1 + Len(Text(f))
    <3> DEFINE m == Len(Text(f))
               n == Len(LedBy(<<c>>, f))
    <3>1. n = 1 + m /\ m \in Nat
      BY <2>1, <2>3, Zenon
    <3> HIDE DEF m, n
    <3>2. p + n = p + 1 + m
      BY <3>1
    <3> QED BY <3>2 DEF m, n
  <2> QED BY <1>2, <2>1, <2>2, <2>4 DEF LedPart
<1> QED BY <1>1, <1>2

LEMMA UserPartIs ==
  ASSUME NEW i \in Iris, NEW s \in Strings, NEW p \in Nat \ {0},
         Occurs(s, p, EndedBy(i.user, <<"@">>))
  PROVE  UserPart(i, s, p, p + Len(EndedBy(i.user, <<"@">>)))
<1> DEFINE f == i.user
           m == Len(Text(f))
           n == Len(EndedBy(f, <<"@">>))
<1>1. f \in FieldTexts /\ "@" \in Delims
  BY DEF Iris, Delims
<1> HIDE DEF f
<1>2. CASE f = NoText
  <2>1. n = 0
    BY <1>1, <1>2, EndedByIs, FieldIs
  <2>2. p + n = p
    BY <2>1
  <2> QED BY <1>2, <2>2 DEF UserPart, f
<1>3. CASE f # NoText
  <2>1. /\ Text(f) \in Strings /\ <<"@">> \in Strings /\ m \in Nat
        /\ EndedBy(f, <<"@">>) = Text(f) \o <<"@">>
    BY <1>1, <1>3, DelimiterIs, FieldIs DEF EndedBy
  <2>2. Occurs(s, p, Text(f)) /\ Occurs(s, p + m, <<"@">>)
    BY <2>1, OccursParts DEF f
  <2>3. n = m + 1
    BY <1>1, <1>3, <2>1, EndedByIs, FieldIs
  <2>4. p + n - 1 = p + m
    <3> HIDE DEF m, n
    <3> QED BY <2>1, <2>3
  <2> QED BY <1>3, <2>2, <2>4 DEF UserPart, f
<1> QED BY <1>2, <1>3

LEMMA PortPartIs ==
  ASSUME NEW i \in Iris, i.port < 1000, NEW s \in Strings, NEW p \in Nat \ {0},
         Occurs(s, p, PortPiece(i))
  PROVE  PortPart(i, s, p, p + Len(PortPiece(i)))
<1> DEFINE d == Decimal(i.port)
           m == Len(d)
           n == Len(PortPiece(i))
<1>1. /\ d \in Strings /\ m \in Nat /\ (i.port = 0 => n = 0) /\ (i.port # 0 => n = 1 + m)
  BY PortPieceIs
<1>2. CASE i.port = 0
  <2>1. p + n = p
    BY <1>1, <1>2
  <2> QED BY <1>2, <2>1 DEF PortPart
<1>3. CASE i.port # 0
  <2>1. <<":">> \in Strings /\ Len(<<":">>) = 1 /\ PortPiece(i) = <<":">> \o d
    BY <1>3, DelimiterIs DEF PortPiece, Delims
  <2>2. Occurs(s, p, <<":">>) /\ Occurs(s, p + Len(<<":">>), d)
    <3>1. Occurs(s, p, <<":">> \o d)
      BY <2>1, Zenon
    <3> QED BY <1>1, <2>1, <3>1, OccursParts, ZenonT(40)
  <2>3. p + n = p + 1 + m
    <3> HIDE DEF m, n
    <3> QED BY <1>1, <1>3
  <2> QED BY <1>3, <2>1, <2>2, <2>3 DEF PortPart
<1> QED BY <1>2, <1>3

LEMMA PrintedParts ==
  ASSUME NEW i \in Iris, i.port < 1000
  PROVE  \E p2, p3, p4, p5, p6, p7, p8 \in Nat \ {0} :
            Parts(i, Printed(i), p2, p3, p4, p5, p6, p7, p8)
<1> DEFINE s == Printed(i)
<1>1. PICK p2, p3, p4, p5, p6, p7, p8 : LaidOut(i, s, p2, p3, p4, p5, p6, p7, p8)
  BY PrintedLaidOut, Zenon
<1>2. s \in Strings
  BY PrintedLaidOut
<1> HIDE DEF s
<1> DEFINE x3 == EndedBy(i.user, <<"@">>)
           x5 == PortPiece(i)
           x7 == LedBy(<<"?">>, i.query)
           x8 == LedBy(<<"#">>, i.fragment)
<1>3. /\ p2 = 1 + Len(Text(i.scheme)) /\ p3 = p2 + Len(Slashes(i)) /\ p4 = p3 + Len(x3)
      /\ p5 = p4 + Len(Text(i.host)) /\ p6 = p5 + Len(x5) /\ p7 = p6 + Len(Text(i.path))
      /\ p8 = p7 + Len(x7) /\ Len(s) + 1 = p8 + Len(x8)
      /\ {p2, p3, p4, p5, p6, p7, p8} \subseteq Nat \ {0}
  BY <1>1, Zenon DEF LaidOut, Positions
<1>4. /\ Occurs(s, 1, Text(i.scheme)) /\ Occurs(s, p2, Slashes(i)) /\ Occurs(s, p3, x3)
      /\ Occurs(s, p4, Text(i.host)) /\ Occurs(s, p5, x5) /\ Occurs(s, p6, Text(i.path))
      /\ Occurs(s, p7, x7) /\ Occurs(s, p8, x8)
  BY <1>1, Zenon DEF LaidOut, Laid
<1>5. /\ p2 \in Nat \ {0} /\ p3 \in Nat \ {0} /\ p4 \in Nat \ {0} /\ p5 \in Nat \ {0}
      /\ p6 \in Nat \ {0} /\ p7 \in Nat \ {0} /\ p8 \in Nat \ {0}
  BY <1>3, Zenon
<1>6. UserPart(i, s, p3, p4)
  BY <1>2, <1>3, <1>4, <1>5, UserPartIs, Zenon
<1>7. PortPart(i, s, p5, p6)
  BY <1>2, <1>3, <1>4, <1>5, PortPartIs, Zenon
<1>8. LedPart(i.query, "?", s, p7, p8) /\ LedPart(i.fragment, "#", s, p8, Len(s) + 1)
  <2>1. i.query \in FieldTexts /\ i.fragment \in FieldTexts /\ "?" \in Delims /\ "#" \in Delims
    BY DEF Iris, Delims
  <2> QED BY <1>2, <1>3, <1>4, <1>5, <2>1, LedPartIs, Zenon
<1>9. Parts(i, s, p2, p3, p4, p5, p6, p7, p8)
  BY <1>3, <1>4, <1>6, <1>7, <1>8, Zenon DEF Parts, TextPart
<1> QED BY <1>5, <1>9, Zenon DEF s
-----------------------------------------------------------------------------
(* What is not in the text between two positions.                           *)
Kept(s, from, past, x) == Between(s, from, past) = x

LEMMA TextKept ==
  ASSUME NEW f \in FieldTexts, NEW s \in Strings, NEW p \in Nat \ {0}, NEW next,
         TextPart(f, s, p, next)
  PROVE  Kept(s, p, next, Text(f))
<1>1. Text(f) \in Strings /\ Occurs(s, p, Text(f)) /\ next = p + Len(Text(f))
  BY FieldIs DEF TextPart
<1>2. Between(s, p, p + Len(Text(f))) = Text(f)
  BY <1>1, BetweenIs
<1> QED BY <1>1, <1>2, Zenon DEF Kept

LEMMA TextNone ==
  ASSUME NEW x \in Strings, NEW s \in Strings, NEW p \in Nat \ {0}, NEW chars,
         Occurs(s, p, x), Without(x, chars)
  PROVE  None(s, p, p + Len(x), chars)
<1> DEFINE n == Len(x)
<1>1. n \in Nat
  BY StringsLen
<1>2. \A k \in 1..n : s[p + k - 1] = x[k] /\ x[k] \notin chars
  BY DEF Occurs, Without
<1> HIDE DEF n
<1>3. ASSUME NEW k \in p..p + n - 1 PROVE s[k] \notin chars
  <2> DEFINE j == k - p + 1
  <2>1. j \in 1..n /\ p + j - 1 = k
    BY <1>1
  <2> HIDE DEF j
  <2> QED BY <1>2, <2>1
<1> QED BY <1>3 DEF None, n

LEMMA NoneJoins ==
  ASSUME NEW s, NEW a \in Nat, NEW b \in Nat, NEW c \in Nat, NEW chars,
         None(s, a, b, chars), None(s, b, c, chars)
  PROVE  None(s, a, c, chars)
<1>1. \A k \in a..c - 1 : k \in a..b - 1 \/ k \in b..c - 1
  OBVIOUS
<1> QED BY <1>1 DEF None

LEMMA NoneLess ==
  ASSUME NEW s, NEW a, NEW b, NEW chars, NEW fewer \in SUBSET chars, None(s, a, b, chars)
  PROVE  None(s, a, b, fewer)
BY DEF None

LEMMA NoneHere ==
  ASSUME NEW s, NEW a \in Nat, NEW chars
  PROVE  None(s, a, a, chars)
BY DEF None

LEMMA NoneAt ==
  ASSUME NEW s \in Strings, NEW p \in Nat \ {0}, NEW c, Occurs(s, p, <<c>>), NEW chars,
         c \notin chars
  PROVE  None(s, p, p + 1, chars)
<1>1. s[p] = c
  BY DEF Occurs
<1>2. \A k \in p..p + 1 - 1 : k = p
  OBVIOUS
<1> QED BY <1>1, <1>2 DEF None

LEMMA CharAt ==
  ASSUME NEW s \in Strings, NEW p \in Nat \ {0}, NEW c, Occurs(s, p, <<c>>)
  PROVE  s[p] = c /\ p <= Len(s) /\ p + 1 <= Len(s) + 1
<1>1. Len(s) \in Nat
  BY StringsLen
<1>2. Len(<<c>>) = 1 /\ <<c>>[1] = c /\ p + 1 - 1 = p
  OBVIOUS
<1> QED BY <1>1, <1>2 DEF Occurs

(* Which characters the parts of an IRI have in its text.  Of the delimiters *)
(* the query and the fragment begin with, none comes before them.           *)
LEMMA PartsTyped ==
  ASSUME NEW i \in Iris
  PROVE  /\ i.scheme \in FieldTexts /\ i.user \in FieldTexts /\ i.host \in FieldTexts
         /\ i.path \in FieldTexts /\ i.query \in FieldTexts /\ i.fragment \in FieldTexts
         /\ i.port \in Nat
BY DEF Iris

LEMMA FreeWithout ==
  ASSUME NEW f \in FieldTexts, NEW chars, Free(f, chars)
  PROVE  Without(Text(f), chars)
<1>1. DOMAIN Text(f) = 1..Len(Text(f))
  BY FieldIs, LenProperties DEF Strings
<1> QED BY <1>1 DEF Free, Without

LEMMA TextPartNone ==
  ASSUME NEW f \in FieldTexts, NEW s \in Strings, NEW p \in Nat \ {0}, NEW next,
         TextPart(f, s, p, next), NEW chars, Free(f, chars)
  PROVE  None(s, p, next, chars)
<1>1. Text(f) \in Strings /\ Occurs(s, p, Text(f)) /\ next = p + Len(Text(f))
  BY FieldIs DEF TextPart
<1>2. None(s, p, p + Len(Text(f)), chars)
  BY <1>1, FreeWithout, TextNone
<1> QED BY <1>1, <1>2, Zenon

(* A field that the delimiter c leads: c is at its beginning or it is empty. *)
LEMMA LedPartNone ==
  ASSUME NEW f \in FieldTexts, NEW c, NEW s \in Strings, NEW p \in Nat \ {0}, NEW next,
         LedPart(f, c, s, p, next), NEW chars, Free(f, chars), c \notin chars
  PROVE  None(s, p, next, chars)
<1>1. CASE f = NoText
  BY <1>1, NoneHere DEF LedPart
<1>2. CASE f # NoText
  <2>1. /\ Occurs(s, p, <<c>>) /\ Occurs(s, p + 1, Text(f)) /\ next = p + 1 + Len(Text(f))
        /\ Text(f) \in Strings /\ Len(Text(f)) \in Nat /\ p + 1 \in Nat \ {0}
    BY <1>2, FieldIs, StringsLen DEF LedPart
  <2>2. None(s, p, p + 1, chars)
    BY <2>1, NoneAt
  <2>3. None(s, p + 1, p + 1 + Len(Text(f)), chars)
    BY <2>1, FreeWithout, TextNone
  <2>4. p + 1 + Len(Text(f)) \in Nat
    BY <2>1
  <2> QED BY <2>1, <2>2, <2>3, <2>4, NoneJoins
<1> QED BY <1>1, <1>2

(* What it leads: its text up to where the next part begins.                *)
LEMMA LedPartKept ==
  ASSUME NEW f \in FieldTexts, NEW c, NEW s \in Strings, NEW p \in Nat \ {0}, NEW next,
         LedPart(f, c, s, p, next), f # NoText
  PROVE  /\ s[p] = c /\ p <= Len(s) /\ Kept(s, p + 1, next, Text(f))
<1>1. /\ Occurs(s, p, <<c>>) /\ Occurs(s, p + 1, Text(f)) /\ next = p + 1 + Len(Text(f))
      /\ Text(f) \in Strings /\ p + 1 \in Nat \ {0}
  BY FieldIs DEF LedPart
<1>2. Between(s, p + 1, p + 1 + Len(Text(f))) = Text(f)
  BY <1>1, BetweenIs
<1> QED BY <1>1, <1>2, CharAt, Zenon DEF Kept

LEMMA LedPartNext ==
  ASSUME NEW f \in FieldTexts, NEW c, NEW s, NEW p \in Nat \ {0}, NEW next,
         LedPart(f, c, s, p, next)
  PROVE  next \in Nat \ {0} /\ p <= next
<1>1. Len(Text(f)) \in Nat
  BY FieldIs, StringsLen
<1> QED BY <1>1 DEF LedPart

LEMMA DigitsPlain == Digits \cap Delims = {} /\ SchemeChars \cap Delims = {}
<1>1. ASSUME NEW k \in 1..10 PROVE Digit[k] \notin Delims
  <2>1. k \in {1, 2, 3, 4, 5, 6, 7, 8, 9, 10}
    OBVIOUS
  <2> QED BY <2>1 DEF Digit, Delims
<1>2. Digits \cap Delims = {}
  BY <1>1 DEF Digits
<1>3. {"-", "+", "."} \cap Delims = {}
  BY DEF Delims
<1> QED BY <1>2, <1>3, AlphasAssumption DEF SchemeChars

LEMMA UserPartNone ==
  ASSUME NEW i \in Iris, NEW s \in Strings, NEW p \in Nat \ {0}, NEW next,
         UserPart(i, s, p, next), NEW chars, Free(i.user, chars), "@" \notin chars
  PROVE  None(s, p, next, chars)
<1>1. CASE i.user = NoText
  BY <1>1, NoneHere DEF UserPart
<1>2. CASE i.user # NoText
  <2> DEFINE x == Text(i.user)
             m == Len(x)
  <2>1. /\ Occurs(s, p, x) /\ Occurs(s, next - 1, <<"@">>) /\ next - 1 = p + m
        /\ x \in Strings /\ m \in Nat
    BY <1>2, PartsTyped, FieldIs, StringsLen DEF UserPart
  <2>2. None(s, p, p + m, chars)
    BY <2>1, PartsTyped, FreeWithout, TextNone
  <2>3. p + m \in Nat \ {0} /\ Occurs(s, p + m, <<"@">>)
    BY <2>1
  <2>4. None(s, p + m, p + m + 1, chars)
    BY <2>3, NoneAt
  <2>5. None(s, p, p + m + 1, chars)
    BY <2>2, <2>3, <2>4, NoneJoins
  <2>6. \A k \in p..next - 1 : k \in p..p + m + 1 - 1
    <3> HIDE DEF m
    <3> QED BY <2>1
  <2> QED BY <2>5, <2>6 DEF None
<1> QED BY <1>1, <1>2

LEMMA UserPartKept ==
  ASSUME NEW i \in Iris, NEW s \in Strings, NEW p \in Nat \ {0}, NEW next \in Nat,
         UserPart(i, s, p, next), i.user # NoText, Free(i.user, {"@"})
  PROVE  /\ next - 1 \in Nat \ {0} /\ p <= next - 1 /\ next - 1 <= Len(s)
         /\ s[next - 1] = "@" /\ None(s, p, next - 1, {"@"})
         /\ Kept(s, p, next - 1, Text(i.user))
<1> DEFINE x == Text(i.user)
           m == Len(x)
<1>1. /\ Occurs(s, p, x) /\ Occurs(s, next - 1, <<"@">>) /\ next - 1 = p + m
      /\ x \in Strings /\ m \in Nat
  BY PartsTyped, FieldIs, StringsLen DEF UserPart
<1>2. next - 1 \in Nat \ {0} /\ p <= next - 1
  <2> HIDE DEF m
  <2> QED BY <1>1
<1>3. s[next - 1] = "@" /\ next - 1 <= Len(s)
  BY <1>1, <1>2, CharAt
<1>4. None(s, p, p + m, {"@"}) /\ Between(s, p, p + m) = x
  BY <1>1, PartsTyped, FreeWithout, TextNone, BetweenIs
<1> QED BY <1>1, <1>2, <1>3, <1>4, Zenon DEF Kept

LEMMA PortPartNone ==
  ASSUME NEW i \in Iris, i.port < 1000, NEW s \in Strings, NEW p \in Nat \ {0}, NEW next,
         PortPart(i, s, p, next), NEW chars \in SUBSET Delims, ":" \notin chars
  PROVE  None(s, p, next, chars)
<1>1. CASE i.port = 0
  BY <1>1, NoneHere DEF PortPart
<1>2. CASE i.port # 0
  <2> DEFINE d == Decimal(i.port)
             m == Len(d)
  <2>1. /\ Occurs(s, p, <<":">>) /\ Occurs(s, p + 1, d) /\ next = p + 1 + m
        /\ d \in Strings /\ d \in Seq(Digits) /\ m \in Nat /\ p + 1 \in Nat \ {0}
    BY <1>2, PartsTyped, DecimalIs, DigitChars, StringsLen DEF PortPart
  <2>2. Without(d, chars)
    <3>1. \A k \in 1..m : d[k] \in Digits
      BY <2>1, LenProperties
    <3> QED BY <3>1, DigitsPlain DEF Without
  <2>3. None(s, p, p + 1, chars)
    BY <2>1, NoneAt
  <2>4. None(s, p + 1, p + 1 + m, chars)
    BY <2>1, <2>2, TextNone
  <2>5. p + 1 + m \in Nat
    BY <2>1
  <2> QED BY <2>1, <2>3, <2>4, <2>5, NoneJoins
<1> QED BY <1>1, <1>2

LEMMA PortPartKept ==
  ASSUME NEW i \in Iris, i.port < 1000, i.port # 0, NEW s \in Strings, NEW p \in Nat \ {0},
         NEW next, PortPart(i, s, p, next)
  PROVE  /\ s[p] = ":" /\ p <= Len(s) /\ next \in Nat \ {0} /\ p + 1 < next
         /\ \A k \in p + 1..next - 1 : s[k] \in Digits
         /\ Kept(s, p + 1, next, Decimal(i.port))
<1> DEFINE d == Decimal(i.port)
           m == Len(d)
<1>1. /\ Occurs(s, p, <<":">>) /\ Occurs(s, p + 1, d) /\ next = p + 1 + m
      /\ d \in Strings /\ d \in Seq(Digits) /\ m \in 1..3 /\ p + 1 \in Nat \ {0}
  BY PartsTyped, DecimalIs, DigitChars DEF PortPart
<1>2. s[p] = ":" /\ p <= Len(s)
  BY <1>1, CharAt
<1>3. Between(s, p + 1, p + 1 + m) = d
  BY <1>1, BetweenIs
<1>4. \A k \in 1..m : s[p + 1 + k - 1] \in Digits
  <2>1. \A k \in 1..m : d[k] \in Digits
    BY <1>1, LenProperties
  <2> QED BY <1>1, <2>1 DEF Occurs
<1>5. ASSUME NEW k \in p + 1..next - 1 PROVE s[k] \in Digits
  <2> DEFINE j == k - p
  <2>1. j \in 1..m /\ p + 1 + j - 1 = k
    <3> HIDE DEF m
    <3> QED BY <1>1
  <2> HIDE DEF j, m
  <2> QED BY <1>4, <2>1
<1>6. next \in Nat \ {0} /\ p + 1 < next
  <2> HIDE DEF m
  <2> QED BY <1>1
<1> QED BY <1>1, <1>2, <1>3, <1>5, <1>6, Zenon DEF Kept
-----------------------------------------------------------------------------
(* A regular IRI, its text and where its parts begin.                       *)
Setting(i, s, p2, p3, p4, p5, p6, p7, p8) ==
  /\ i \in Iris /\ Regular(i) /\ s \in Strings
  /\ p2 \in Nat \ {0} /\ p3 \in Nat \ {0} /\ p4 \in Nat \ {0} /\ p5 \in Nat \ {0}
  /\ p6 \in Nat \ {0} /\ p7 \in Nat \ {0} /\ p8 \in Nat \ {0}
  /\ Parts(i, s, p2, p3, p4, p5, p6, p7, p8)
Rising(s, p2, p3, p4, p5, p6, p7, p8) ==
  /\ 1 < p2 /\ p2 < p3 /\ p3 <= p4 /\ p4 <= p5 /\ p5 <= p6 /\ p6 <= p7 /\ p7 <= p8
  /\ p8 <= Len(s) + 1

LEMMA TextPartNext ==
  ASSUME NEW f \in FieldTexts, NEW s, NEW p \in Nat \ {0}, NEW next, TextPart(f, s, p, next)
  PROVE  next \in Nat \ {0} /\ p <= next
<1>1. Len(Text(f)) \in Nat
  BY FieldIs, StringsLen
<1> QED BY <1>1 DEF TextPart

LEMMA SlashesLen ==
  ASSUME NEW i, i.scheme # NoText
  PROVE  /\ i.host = NoText => Slashes(i) = <<":">> /\ Len(Slashes(i)) = 1
         /\ i.host # NoText => Slashes(i) = <<":", "/", "/">> /\ Len(Slashes(i)) = 3
BY DEF Slashes

LEMMA SettingRises ==
  ASSUME NEW i, NEW s, NEW p2, NEW p3, NEW p4, NEW p5, NEW p6, NEW p7, NEW p8,
         Setting(i, s, p2, p3, p4, p5, p6, p7, p8)
  PROVE  Rising(s, p2, p3, p4, p5, p6, p7, p8)
<1>1. /\ i \in Iris /\ Regular(i) /\ s \in Strings
      /\ p2 \in Nat \ {0} /\ p3 \in Nat \ {0} /\ p4 \in Nat \ {0} /\ p5 \in Nat \ {0}
      /\ p6 \in Nat \ {0} /\ p7 \in Nat \ {0} /\ p8 \in Nat \ {0}
  BY DEF Setting
<1>2. /\ TextPart(i.scheme, s, 1, p2) /\ p3 = p2 + Len(Slashes(i)) /\ UserPart(i, s, p3, p4)
      /\ TextPart(i.host, s, p4, p5) /\ PortPart(i, s, p5, p6) /\ TextPart(i.path, s, p6, p7)
      /\ LedPart(i.query, "?", s, p7, p8) /\ LedPart(i.fragment, "#", s, p8, Len(s) + 1)
  BY Zenon DEF Setting, Parts
<1>3. 1 < p2
  <2> DEFINE n == Len(Text(i.scheme))
  <2>1. n \in Nat /\ p2 = 1 + n
    BY <1>1, <1>2, PartsTyped, FieldIs, StringsLen DEF TextPart
  <2>2. n # 0
    BY <1>1, PartsTyped, FieldIs, EmptySeq DEF Regular, SchemeText, Strings
  <2> HIDE DEF n
  <2> QED BY <2>1, <2>2
<1>4. p2 < p3
  <2> DEFINE n == Len(Slashes(i))
  <2>1. n = 1 \/ n = 3
    BY <1>1, SlashesLen DEF Regular
  <2> HIDE DEF n
  <2>2. p3 = p2 + n
    BY <1>2 DEF n
  <2> QED BY <1>1, <2>1, <2>2
<1>5. p3 <= p4
  <2> DEFINE n == Len(Text(i.user))
  <2>1. n \in Nat
    BY <1>1, PartsTyped, FieldIs, StringsLen
  <2>2. p4 = p3 \/ p4 - 1 = p3 + n
    BY <1>2 DEF UserPart
  <2> HIDE DEF n
  <2> QED BY <1>1, <2>1, <2>2
<1>6. p4 <= p5 /\ p6 <= p7
  BY <1>1, <1>2, PartsTyped, TextPartNext
<1>7. p5 <= p6
  <2>1. CASE i.port = 0
    BY <1>1, <1>2, <2>1 DEF PortPart
  <2>2. CASE i.port # 0
    <3>1. p5 + 1 < p6
      BY <1>1, <1>2, <2>2, PortPartKept DEF Regular
    <3> QED BY <1>1, <3>1
  <2> QED BY <2>1, <2>2
<1>8. p7 <= p8 /\ p8 <= Len(s) + 1
  BY <1>1, <1>2, PartsTyped, LedPartNext, Zenon
<1> QED BY <1>3, <1>4, <1>5, <1>6, <1>7, <1>8 DEF Rising

(* The colon behind the scheme.                                             *)
SchemeRead(i, s, p2) == Colon(s) = p2 /\ SchemeOK(s) /\ Kept(s, 1, p2, Text(i.scheme))

LEMMA SchemeIsRead ==
  ASSUME NEW i, NEW s, NEW p2, NEW p3, NEW p4, NEW p5, NEW p6, NEW p7, NEW p8,
         Setting(i, s, p2, p3, p4, p5, p6, p7, p8)
  PROVE  SchemeRead(i, s, p2)
<1> DEFINE x == Text(i.scheme)
           n == Len(x)
<1>1. /\ i \in Iris /\ Regular(i) /\ s \in Strings /\ p2 \in Nat \ {0} /\ p3 \in Nat \ {0}
      /\ Occurs(s, p2, Slashes(i)) /\ TextPart(i.scheme, s, 1, p2)
  BY Zenon DEF Setting, Parts
<1>2. /\ x \in Strings /\ n \in Nat /\ Occurs(s, 1, x) /\ p2 = 1 + n /\ SchemeText(x)
      /\ i.scheme \in FieldTexts
  BY <1>1, PartsTyped, FieldIs, StringsLen DEF TextPart, Regular
<1>3. n # 0 /\ DOMAIN x = 1..n
  BY <1>2, EmptySeq, LenProperties DEF SchemeText, Strings
<1>4. x[1] \in Alphas /\ \A k \in 1..n : x[k] \in SchemeChars
  BY <1>2, <1>3 DEF SchemeText
<1>5. Kept(s, 1, p2, x)
  BY <1>1, <1>2, TextKept
<1>6. \A k \in 1..n : s[k] = x[k]
  <2>1. \A k \in 1..n : s[1 + k - 1] = x[k] /\ 1 + k - 1 = k
    BY <1>2 DEF Occurs
  <2> QED BY <2>1
<1>7. s[p2] = ":" /\ p2 <= Len(s) /\ Len(s) \in Nat
  <2> DEFINE w == Slashes(i)
             m == Len(w)
  <2>1. m \in 1..3 /\ w[1] = ":"
    BY <1>1, SlashesLen DEF Regular
  <2>2. p2 + m <= Len(s) + 1 /\ \A k \in 1..m : s[p2 + k - 1] = w[k]
    BY <1>1 DEF Occurs
  <2>3. 1 \in 1..m /\ p2 + 1 - 1 = p2 /\ Len(s) \in Nat
    BY <1>1, <2>1, StringsLen
  <2> HIDE DEF w, m
  <2>4. p2 <= Len(s)
    BY <1>1, <2>1, <2>2, <2>3
  <2> QED BY <2>1, <2>2, <2>3, <2>4
<1> HIDE DEF x, n
<1>8. None(s, 1, p2, {":"})
  <2>1. \A k \in 1..p2 - 1 : k \in 1..n
    BY <1>2
  <2>2. \A c \in SchemeChars : c # ":"
    BY DigitsPlain DEF Delims
  <2> QED BY <1>4, <1>6, <2>1, <2>2 DEF None
<1>9. Colon(s) = p2
  <2>1. p2 \in 1..Len(s) + 1 /\ ~(p2 = Len(s) + 1)
    BY <1>1, <1>7
  <2> QED BY <1>1, <1>7, <1>8, <2>1, FindIs DEF Colon
<1>10. SchemeOK(s)
  <2>1. s[1] \in Alphas
    BY <1>2, <1>3, <1>4, <1>6
  <2>2. \A k \in 1..p2 - 1 : s[k] \in SchemeChars
    <3>1. \A k \in 1..p2 - 1 : k \in 1..n
      BY <1>2
    <3> QED BY <1>4, <1>6, <3>1
  <2>3. s # <<>>
    <3>1. Len(s) # 0
      BY <1>1, <1>7
    <3> QED BY <3>1, EmptySeq
  <2>4. p2 # 0
    BY <1>1
  <2> QED BY <1>9, <2>1, <2>2, <2>3, <2>4 DEF SchemeOK
<1> QED BY <1>5, <1>9, <1>10 DEF SchemeRead, x

(* Nothing between the scheme and the query begins a query or a fragment.   *)
LEMMA FreeNoText ==
  ASSUME NEW chars
  PROVE  Free(NoText, chars)
<1>1. Text(NoText) = <<>> /\ DOMAIN <<>> = {}
  BY DEF Text, NoText
<1> QED BY <1>1 DEF Free

LEMMA FreeLess ==
  ASSUME NEW f, NEW chars, NEW fewer \in SUBSET chars, Free(f, chars)
  PROVE  Free(f, fewer)
BY DEF Free

LEMMA RegularFree ==
  ASSUME NEW i, Regular(i)
  PROVE  /\ Free(i.user, {"?", "#"}) /\ Free(i.host, {"?", "#"}) /\ Free(i.path, {"?", "#"})
         /\ Free(i.query, {"#"}) /\ (i.query = NoText => Free(i.fragment, {"?"}))
<1>1. CASE i.host = NoText
  BY <1>1, FreeNoText, Zenon DEF Regular, WithoutHost
<1>2. CASE i.host # NoText
  <2>1. WithHost(i) /\ Free(i.path, {"?", "#"}) /\ Free(i.query, {"#"})
        /\ (i.query = NoText => Free(i.fragment, {"?"}))
    BY <1>2, Zenon DEF Regular
  <2>2. Free(i.user, {"@", "/", "?", "#"}) /\ Free(i.host, Delims)
    BY <2>1, Zenon DEF WithHost
  <2>3. {"?", "#"} \subseteq {"@", "/", "?", "#"} /\ {"?", "#"} \subseteq Delims
    BY DEF Delims
  <2>4. Free(i.user, {"?", "#"}) /\ Free(i.host, {"?", "#"})
    BY <2>2, <2>3, FreeLess
  <2> QED BY <2>1, <2>4
<1> QED BY <1>1, <1>2

LEMMA SlashesNone ==
  ASSUME NEW i, NEW s \in Strings, NEW p \in Nat \ {0}, Occurs(s, p, Slashes(i)),
         i.scheme # NoText, NEW chars, ":" \notin chars, "/" \notin chars
  PROVE  None(s, p, p + Len(Slashes(i)), chars)
<1>1. Slashes(i) \in Strings
  BY SlashesIs
<1>2. CASE i.host = NoText
  BY <1>1, <1>2, SlashesLen, TextNone DEF Without
<1>3. CASE i.host # NoText
  <2> DEFINE w == Slashes(i)
  <2>1. w = <<":", "/", "/">> /\ Len(w) = 3
    BY <1>3, SlashesLen
  <2>2. w[1] = ":" /\ w[2] = "/" /\ w[3] = "/" /\ \A k \in 1..3 : k \in {1, 2, 3}
    BY <2>1
  <2> HIDE DEF w
  <2>3. Without(w, chars)
    BY <2>1, <2>2 DEF Without
  <2> QED BY <1>1, <2>3, TextNone DEF w
<1> QED BY <1>2, <1>3

LEMMA PlainBefore ==
  ASSUME NEW i, NEW s, NEW p2, NEW p3, NEW p4, NEW p5, NEW p6, NEW p7, NEW p8,
         Setting(i, s, p2, p3, p4, p5, p6, p7, p8)
  PROVE  None(s, p2, p7, {"?", "#"})
<1> DEFINE marks == {"?", "#"}
<1>1. /\ i \in Iris /\ Regular(i) /\ s \in Strings
      /\ p2 \in Nat \ {0} /\ p3 \in Nat \ {0} /\ p4 \in Nat \ {0} /\ p5 \in Nat \ {0}
      /\ p6 \in Nat \ {0} /\ p7 \in Nat \ {0} /\ p8 \in Nat \ {0}
  BY DEF Setting
<1>2. /\ Occurs(s, p2, Slashes(i)) /\ p3 = p2 + Len(Slashes(i)) /\ UserPart(i, s, p3, p4)
      /\ TextPart(i.host, s, p4, p5) /\ PortPart(i, s, p5, p6) /\ TextPart(i.path, s, p6, p7)
  BY Zenon DEF Setting, Parts
<1>3. /\ Free(i.user, marks) /\ Free(i.host, marks) /\ Free(i.path, marks)
      /\ i.host \in FieldTexts /\ i.path \in FieldTexts
      /\ i.scheme # NoText /\ i.port < 1000
  BY <1>1, PartsTyped, RegularFree DEF Regular
<1>4. /\ marks \in SUBSET Delims /\ ":" \notin marks /\ "/" \notin marks /\ "@" \notin marks
  BY DEF Delims
<1> HIDE DEF marks
<1>5. None(s, p2, p3, marks)
  <2>1. None(s, p2, p2 + Len(Slashes(i)), marks)
    BY <1>1, <1>2, <1>3, <1>4, SlashesNone
  <2> QED BY <1>2, <2>1, Zenon
<1>6. None(s, p3, p4, marks)
  BY <1>1, <1>2, <1>3, <1>4, UserPartNone
<1>7. None(s, p4, p5, marks) /\ None(s, p6, p7, marks)
  BY <1>1, <1>2, <1>3, TextPartNone
<1>8. None(s, p5, p6, marks)
  BY <1>1, <1>2, <1>3, <1>4, PortPartNone
<1>9. None(s, p2, p5, marks)
  <2>1. None(s, p2, p4, marks)
    BY <1>1, <1>5, <1>6, NoneJoins
  <2> QED BY <1>1, <1>7, <2>1, NoneJoins
<1>10. None(s, p2, p7, marks)
  <2>1. None(s, p2, p6, marks)
    BY <1>1, <1>8, <1>9, NoneJoins
  <2> QED BY <1>1, <1>7, <2>1, NoneJoins
<1> QED BY <1>10 DEF marks

(* The query and the fragment: where they begin, and their texts.           *)
Mark(i, p7) == IF i.query = NoText THEN 0 ELSE p7
Hash(i, p8) == IF i.fragment = NoText THEN 0 ELSE p8

LEMMA FindAt ==
  ASSUME NEW s \in Strings, NEW from \in Nat \ {0}, NEW past \in Nat \ {0}, from <= past,
         past <= Len(s), NEW chars, None(s, from, past, chars), s[past] \in chars
  PROVE  Find(s, from, chars) = past
<1>1. Len(s) \in Nat
  BY StringsLen
<1>2. past \in from..Len(s) + 1 /\ past # Len(s) + 1
  BY <1>1
<1> QED BY <1>2, FindIs

LEMMA FindNone ==
  ASSUME NEW s \in Strings, NEW from \in Nat \ {0}, from <= Len(s) + 1, NEW chars,
         None(s, from, Len(s) + 1, chars)
  PROVE  Find(s, from, chars) = 0
<1>1. Len(s) \in Nat
  BY StringsLen
<1>2. Len(s) + 1 \in from..Len(s) + 1 /\ ~(Len(s) + 1 <= Len(s))
  BY <1>1
<1> QED BY <1>2, FindIs

LEMMA MarkIs ==
  ASSUME NEW i, NEW s, NEW p2, NEW p3, NEW p4, NEW p5, NEW p6, NEW p7, NEW p8,
         Setting(i, s, p2, p3, p4, p5, p6, p7, p8)
  PROVE  Find(s, p2, {"?"}) = Mark(i, p7)
<1>1. /\ i \in Iris /\ Regular(i) /\ s \in Strings /\ Len(s) \in Nat
      /\ p2 \in Nat \ {0} /\ p7 \in Nat \ {0} /\ p8 \in Nat \ {0}
      /\ i.query \in FieldTexts /\ i.fragment \in FieldTexts
  BY PartsTyped, StringsLen DEF Setting
<1>2. LedPart(i.query, "?", s, p7, p8) /\ LedPart(i.fragment, "#", s, p8, Len(s) + 1)
  BY Zenon DEF Setting, Parts
<1>3. p2 <= p7 /\ p7 <= p8 /\ p8 <= Len(s) + 1
  <2>1. /\ p3 \in Nat \ {0} /\ p4 \in Nat \ {0} /\ p5 \in Nat \ {0} /\ p6 \in Nat \ {0}
    BY DEF Setting
  <2> QED BY <1>1, <2>1, SettingRises DEF Rising
<1>4. None(s, p2, p7, {"?"})
  BY PlainBefore, NoneLess
<1>5. CASE i.query = NoText
  <2>1. p8 = p7 /\ Free(i.fragment, {"?"})
    BY <1>1, <1>2, <1>5, RegularFree DEF LedPart
  <2>2. None(s, p7, Len(s) + 1, {"?"})
    BY <1>1, <1>2, <2>1, LedPartNone
  <2>3. None(s, p2, Len(s) + 1, {"?"})
    BY <1>1, <1>4, <2>2, NoneJoins
  <2> QED BY <1>1, <1>3, <1>5, <2>3, FindNone DEF Mark
<1>6. CASE i.query # NoText
  <2>1. s[p7] = "?" /\ p7 <= Len(s)
    BY <1>1, <1>2, <1>6, LedPartKept
  <2> QED BY <1>1, <1>3, <1>4, <1>6, <2>1, FindAt DEF Mark
<1> QED BY <1>5, <1>6

LEMMA HashIs ==
  ASSUME NEW i, NEW s, NEW p2, NEW p3, NEW p4, NEW p5, NEW p6, NEW p7, NEW p8,
         Setting(i, s, p2, p3, p4, p5, p6, p7, p8)
  PROVE  Find(s, IF Mark(i, p7) = 0 THEN p2 ELSE Mark(i, p7) + 1, {"#"}) = Hash(i, p8)
<1>1. /\ i \in Iris /\ Regular(i) /\ s \in Strings /\ Len(s) \in Nat
      /\ p2 \in Nat \ {0} /\ p7 \in Nat \ {0} /\ p8 \in Nat \ {0}
      /\ i.query \in FieldTexts /\ i.fragment \in FieldTexts
  BY PartsTyped, StringsLen DEF Setting
<1>2. LedPart(i.query, "?", s, p7, p8) /\ LedPart(i.fragment, "#", s, p8, Len(s) + 1)
  BY Zenon DEF Setting, Parts
<1>3. p2 <= p7 /\ p7 <= p8 /\ p8 <= Len(s) + 1
  <2>1. /\ p3 \in Nat \ {0} /\ p4 \in Nat \ {0} /\ p5 \in Nat \ {0} /\ p6 \in Nat \ {0}
    BY DEF Setting
  <2> QED BY <1>1, <2>1, SettingRises DEF Rising
<1> DEFINE from == IF Mark(i, p7) = 0 THEN p2 ELSE Mark(i, p7) + 1
<1>4. from \in Nat \ {0} /\ from <= p8 /\ None(s, from, p8, {"#"})
  <2>1. CASE i.query = NoText
    <3>1. from = p2 /\ p8 = p7
      BY <1>2, <2>1 DEF Mark, LedPart
    <3>2. None(s, p2, p7, {"#"})
      BY PlainBefore, NoneLess
    <3> HIDE DEF from
    <3> QED BY <1>1, <1>3, <3>1, <3>2
  <2>2. CASE i.query # NoText
    <3>1. from = p7 + 1
      BY <1>1, <2>2 DEF Mark
    <3>2. /\ Occurs(s, p7 + 1, Text(i.query)) /\ p8 = p7 + 1 + Len(Text(i.query))
          /\ Text(i.query) \in Strings /\ Len(Text(i.query)) \in Nat /\ p7 + 1 \in Nat \ {0}
      BY <1>1, <1>2, <2>2, FieldIs, StringsLen DEF LedPart
    <3>3. Without(Text(i.query), {"#"})
      BY <1>1, RegularFree, FreeWithout
    <3>4. None(s, p7 + 1, p7 + 1 + Len(Text(i.query)), {"#"})
      BY <1>1, <3>2, <3>3, TextNone
    <3> HIDE DEF from
    <3>5. p7 + 1 <= p8
      BY <1>1, <3>2
    <3> QED BY <3>1, <3>2, <3>4, <3>5, Zenon
  <2> QED BY <2>1, <2>2
<1> HIDE DEF from
<1>5. CASE i.fragment = NoText
  <2>1. p8 = Len(s) + 1
    BY <1>2, <1>5 DEF LedPart
  <2>2. from <= Len(s) + 1 /\ None(s, from, Len(s) + 1, {"#"})
    BY <1>4, <2>1, Zenon
  <2>3. Find(s, from, {"#"}) = 0
    BY <1>1, <1>4, <2>2, FindNone
  <2> QED BY <1>5, <2>3 DEF Hash, from
<1>6. CASE i.fragment # NoText
  <2>1. s[p8] = "#" /\ p8 <= Len(s)
    BY <1>1, <1>2, <1>6, LedPartKept
  <2>2. Find(s, from, {"#"}) = p8
    BY <1>1, <1>4, <2>1, FindAt
  <2> QED BY <1>6, <2>2 DEF Hash, from
<1> QED BY <1>5, <1>6

(* The part that ends where it should is read as it was.                    *)
LEMMA UpToIs ==
  ASSUME NEW s, NEW from, NEW cut, NEW past, NEW x, Kept(s, from, past, x),
         IF cut = 0 THEN past = Len(s) + 1 ELSE past = cut
  PROVE  UpTo(s, from, cut) = x
BY DEF Kept, UpTo

MarksRead(i, s, p7, p8) ==
  /\ i.query # NoText => UpTo(s, p7 + 1, Hash(i, p8)) = Text(i.query)
  /\ i.fragment # NoText => UpTo(s, p8 + 1, 0) = Text(i.fragment)

LEMMA MarksAreRead ==
  ASSUME NEW i, NEW s, NEW p2, NEW p3, NEW p4, NEW p5, NEW p6, NEW p7, NEW p8,
         Setting(i, s, p2, p3, p4, p5, p6, p7, p8)
  PROVE  MarksRead(i, s, p7, p8)
<1>1. /\ i \in Iris /\ s \in Strings /\ p7 \in Nat \ {0} /\ p8 \in Nat \ {0}
      /\ i.query \in FieldTexts /\ i.fragment \in FieldTexts
  BY PartsTyped DEF Setting
<1>2. LedPart(i.query, "?", s, p7, p8) /\ LedPart(i.fragment, "#", s, p8, Len(s) + 1)
  BY Zenon DEF Setting, Parts
<1>3. ASSUME i.query # NoText PROVE UpTo(s, p7 + 1, Hash(i, p8)) = Text(i.query)
  <2>1. Kept(s, p7 + 1, p8, Text(i.query))
    BY <1>1, <1>2, <1>3, LedPartKept
  <2>2. IF Hash(i, p8) = 0 THEN p8 = Len(s) + 1 ELSE p8 = Hash(i, p8)
    BY <1>1, <1>2 DEF Hash, LedPart
  <2> QED BY <2>1, <2>2, UpToIs, Zenon
<1>4. ASSUME i.fragment # NoText PROVE UpTo(s, p8 + 1, 0) = Text(i.fragment)
  <2>1. Kept(s, p8 + 1, Len(s) + 1, Text(i.fragment))
    BY <1>1, <1>2, <1>4, LedPartKept
  <2> QED BY <2>1, UpToIs, Zenon
<1> QED BY <1>3, <1>4 DEF MarksRead

(* The path ends where the query or the fragment begins, or the text ends.  *)
PathEnd(i, p7, p8) == IF i.query # NoText THEN p7 ELSE Hash(i, p8)

LEMMA PathEndIs ==
  ASSUME NEW i, NEW s, NEW p2, NEW p3, NEW p4, NEW p5, NEW p6, NEW p7, NEW p8,
         Setting(i, s, p2, p3, p4, p5, p6, p7, p8)
  PROVE  IF PathEnd(i, p7, p8) = 0 THEN p7 = Len(s) + 1 ELSE p7 = PathEnd(i, p7, p8)
<1>1. LedPart(i.query, "?", s, p7, p8) /\ LedPart(i.fragment, "#", s, p8, Len(s) + 1)
  BY Zenon DEF Setting, Parts
<1>2. p7 # 0 /\ p8 # 0
  BY DEF Setting
<1> QED BY <1>1, <1>2 DEF PathEnd, Hash, LedPart

LEMMA OpaquePathRead ==
  ASSUME NEW i, NEW s, NEW p2, NEW p3, NEW p4, NEW p5, NEW p6, NEW p7, NEW p8,
         Setting(i, s, p2, p3, p4, p5, p6, p7, p8)
  PROVE  UpTo(s, p6, PathEnd(i, p7, p8)) = Text(i.path)
<1>1. /\ i \in Iris /\ s \in Strings /\ p6 \in Nat \ {0} /\ i.path \in FieldTexts
      /\ TextPart(i.path, s, p6, p7)
  BY PartsTyped, Zenon DEF Setting, Parts
<1>2. Kept(s, p6, p7, Text(i.path))
  BY <1>1, TextKept
<1> DEFINE cut == PathEnd(i, p7, p8)
<1>3. IF cut = 0 THEN p7 = Len(s) + 1 ELSE p7 = cut
  BY PathEndIs
<1> HIDE DEF cut
<1>4. UpTo(s, p6, cut) = Text(i.path)
  BY <1>2, <1>3, UpToIs, Zenon
<1> QED BY <1>4 DEF cut

(* What follows the path is a query, a fragment or nothing.                 *)
LEMMA MarkFollows ==
  ASSUME NEW i, NEW s, NEW p2, NEW p3, NEW p4, NEW p5, NEW p6, NEW p7, NEW p8,
         Setting(i, s, p2, p3, p4, p5, p6, p7, p8), p7 <= Len(s)
  PROVE  s[p7] \in {"?", "#"}
<1>1. /\ i \in Iris /\ s \in Strings /\ p7 \in Nat \ {0} /\ p8 \in Nat \ {0}
      /\ i.query \in FieldTexts /\ i.fragment \in FieldTexts /\ Len(s) \in Nat
  BY PartsTyped, StringsLen DEF Setting
<1>2. LedPart(i.query, "?", s, p7, p8) /\ LedPart(i.fragment, "#", s, p8, Len(s) + 1)
  BY Zenon DEF Setting, Parts
<1>3. CASE i.query # NoText
  BY <1>1, <1>2, <1>3, LedPartKept
<1>4. CASE i.query = NoText /\ i.fragment # NoText
  <2>1. p8 = p7
    BY <1>2, <1>4 DEF LedPart
  <2> QED BY <1>1, <1>2, <1>4, <2>1, LedPartKept
<1>5. CASE i.query = NoText /\ i.fragment = NoText
  <2>1. p7 = Len(s) + 1
    BY <1>2, <1>5 DEF LedPart
  <2> QED BY <1>1, <2>1
<1> QED BY <1>3, <1>4, <1>5

(* Without a host: the path begins right behind the colon.                  *)
LEMMA OpaquePlaces ==
  ASSUME NEW i, NEW s, NEW p2, NEW p3, NEW p4, NEW p5, NEW p6, NEW p7, NEW p8,
         Setting(i, s, p2, p3, p4, p5, p6, p7, p8), i.host = NoText
  PROVE  p6 = p2 + 1 /\ ~SlashesAt(s, p2 + 1)
<1>1. /\ i \in Iris /\ Regular(i) /\ s \in Strings /\ Len(s) \in Nat
      /\ p2 \in Nat \ {0} /\ p6 \in Nat \ {0} /\ p7 \in Nat \ {0}
      /\ i.host \in FieldTexts /\ i.path \in FieldTexts
  BY PartsTyped, StringsLen DEF Setting
<1>2. /\ p3 = p2 + Len(Slashes(i)) /\ UserPart(i, s, p3, p4)
      /\ TextPart(i.host, s, p4, p5) /\ PortPart(i, s, p5, p6) /\ TextPart(i.path, s, p6, p7)
  BY Zenon DEF Setting, Parts
<1>3. i.user = NoText /\ i.port = 0 /\ ~SlashesAt(Text(i.path), 1) /\ i.scheme # NoText
  BY <1>1 DEF Regular, WithoutHost
<1>4. p6 = p2 + 1
  <2>1. p3 = p2 + 1
    BY <1>2, <1>3, SlashesLen
  <2>2. p4 = p3 /\ p6 = p5
    BY <1>2, <1>3 DEF UserPart, PortPart
  <2>3. p5 = p4
    <3>1. Len(Text(i.host)) = 0 /\ p4 \in Nat
      BY <1>1, FieldIs DEF Setting
    <3> QED BY <1>2, <3>1 DEF TextPart
  <2> QED BY <2>1, <2>2, <2>3
<1>5. ASSUME SlashesAt(s, p6) PROVE FALSE
  <2> DEFINE x == Text(i.path)
             n == Len(x)
  <2>1. n \in Nat /\ p7 = p6 + n /\ \A k \in 1..n : s[p6 + k - 1] = x[k]
    BY <1>1, <1>2, FieldIs, StringsLen DEF TextPart, Occurs
  <2>2. p6 < Len(s) /\ s[p6] = "/" /\ s[p6 + 1] = "/"
    BY <1>5 DEF SlashesAt
  <2> HIDE DEF n
  <2>3. CASE n >= 2
    <3>1. 1 \in 1..n /\ 2 \in 1..n /\ p6 + 1 - 1 = p6 /\ p6 + 2 - 1 = p6 + 1
      BY <1>1, <2>1, <2>3
    <3> HIDE DEF x
    <3>2. x[1] = s[p6]
      BY <2>1, <3>1
    <3>3. x[2] = s[p6 + 1]
      BY <2>1, <3>1
    <3>4. SlashesAt(x, 1)
      BY <2>2, <2>3, <3>2, <3>3 DEF SlashesAt, n
    <3> QED BY <1>3, <3>4 DEF x
  <2>4. CASE n < 2
    <3>1. p7 <= Len(s) /\ (p7 = p6 \/ p7 = p6 + 1)
      BY <1>1, <2>1, <2>2, <2>4
    <3>2. s[p7] = "/"
      BY <2>2, <3>1
    <3> QED BY <3>1, <3>2, MarkFollows
  <2> QED BY <2>1, <2>3, <2>4
<1> QED BY <1>4, <1>5

LEMMA IriIs ==
  ASSUME NEW i \in Iris
  PROVE  i = [scheme |-> i.scheme, user |-> i.user, host |-> i.host, port |-> i.port,
              path |-> i.path, query |-> i.query, fragment |-> i.fragment]
BY DEF Iris

(* What the scheme, the query and the fragment set in a new IRI.            *)
LEMMA SchemeSets ==
  ASSUME NEW s, NEW c
  PROVE  Scheme(NewIri, s, c) =
           [scheme |-> Some(Between(s, 1, c.colon)), user |-> NoText, host |-> NoText,
            port |-> 0, path |-> NoText,
            query |-> IF c.mark = 0 THEN NoText ELSE Some(Query(s, c)),
            fragment |-> IF c.hash = 0 THEN NoText ELSE Some(UpTo(s, c.hash + 1, 0))]
<1> DEFINE q == IF c.mark = 0 THEN NoText ELSE Some(Query(s, c))
           f == IF c.hash = 0 THEN NoText ELSE Some(UpTo(s, c.hash + 1, 0))
           b == Some(Between(s, 1, c.colon))
<1>1. NewIri.query = NoText /\ NewIri.fragment = NoText
  BY DEF NewIri
<1>2. Scheme(NewIri, s, c) = [NewIri EXCEPT !.scheme = b, !.query = q, !.fragment = f]
  BY <1>1, Zenon DEF Scheme
<1> HIDE DEF q, f, b
<1>3. Scheme(NewIri, s, c) = [scheme |-> b, user |-> NoText, host |-> NoText,
                              port |-> 0, path |-> NoText, query |-> q, fragment |-> f]
  BY <1>2 DEF NewIri
<1> QED BY <1>3, Zenon DEF q, f, b

LEMMA OpaqueReads ==
  ASSUME NEW i, NEW s, NEW p2, NEW p3, NEW p4, NEW p5, NEW p6, NEW p7, NEW p8,
         Setting(i, s, p2, p3, p4, p5, p6, p7, p8), i.host = NoText
  PROVE  FromString(NewIri, s) = Outcome(TRUE, i)
<1> DEFINE c == Cuts(s)
           mark == Mark(i, p7)
           hash == Hash(i, p8)
<1>1. i \in Iris /\ Regular(i) /\ p7 # 0 /\ p8 # 0
  BY DEF Setting
<1>2. /\ i.user = NoText /\ i.port = 0 /\ i.scheme = Some(Text(i.scheme))
      /\ i.path = Some(Text(i.path))
      /\ (i.query # NoText => i.query = Some(Text(i.query)))
      /\ (i.fragment # NoText => i.fragment = Some(Text(i.fragment)))
  <2>1. /\ i.user = NoText /\ i.port = 0 /\ i.scheme # NoText /\ i.path # NoText
    BY <1>1 DEF Regular, WithoutHost
  <2> QED BY <1>1, <2>1, PartsTyped, FieldIs
<1>3. p6 = p2 + 1 /\ ~SlashesAt(s, p2 + 1)
  BY OpaquePlaces
<1>4. Colon(s) = p2 /\ SchemeOK(s) /\ Between(s, 1, p2) = Text(i.scheme)
  BY SchemeIsRead DEF SchemeRead, Kept
<1>5. Find(s, p2, {"?"}) = mark /\ Find(s, IF mark = 0 THEN p2 ELSE mark + 1, {"#"}) = hash
  <2>1. Find(s, p2, {"?"}) = mark
    BY MarkIs
  <2>2. Find(s, IF mark = 0 THEN p2 ELSE mark + 1, {"#"}) = hash
    BY HashIs
  <2> QED BY <2>1, <2>2
<1> HIDE DEF mark, hash
<1>6. c.colon = p2 /\ c.mark = mark /\ c.hash = hash /\ c.start = 0
  BY <1>3, <1>4, <1>5 DEF Cuts
<1> HIDE DEF c
<1>7. FromString(NewIri, s) = Outcome(TRUE, Opaque(NewIri, s, c))
  BY <1>4, <1>6, Zenon DEF FromString, c
<1>8. /\ i.query # NoText => UpTo(s, p7 + 1, hash) = Text(i.query)
      /\ i.fragment # NoText => UpTo(s, p8 + 1, 0) = Text(i.fragment)
  BY MarksAreRead, Zenon DEF MarksRead, hash
<1>9. UpTo(s, p2 + 1, IF mark # 0 THEN mark ELSE hash) = Text(i.path)
  <2>1. (IF mark # 0 THEN mark ELSE hash) = PathEnd(i, p7, p8)
    BY <1>1 DEF mark, hash, Mark, PathEnd
  <2>2. UpTo(s, p6, PathEnd(i, p7, p8)) = Text(i.path)
    BY OpaquePathRead
  <2> QED BY <1>3, <2>1, <2>2, Zenon
<1> DEFINE o == Opaque(NewIri, s, c)
           query == IF mark = 0 THEN NoText ELSE Some(Query(s, c))
           fragment == IF hash = 0 THEN NoText ELSE Some(UpTo(s, hash + 1, 0))
<1>10. o = [scheme |-> Some(Between(s, 1, p2)), user |-> NoText, host |-> NoText, port |-> 0,
            path |-> Some(UpTo(s, p2 + 1, IF mark # 0 THEN mark ELSE hash)),
            query |-> query, fragment |-> fragment]
  <2> DEFINE path == Some(UpTo(s, p2 + 1, IF mark # 0 THEN mark ELSE hash))
             b == Some(Between(s, 1, p2))
  <2>1. Scheme(NewIri, s, c) =
           [scheme |-> b, user |-> NoText, host |-> NoText, port |-> 0, path |-> NoText,
            query |-> query, fragment |-> fragment]
    BY <1>6, SchemeSets, ZenonT(40)
  <2>2. o = [Scheme(NewIri, s, c) EXCEPT !.path = path]
    BY <1>6, Zenon DEF Opaque
  <2> HIDE DEF o, query, fragment, path, b
  <2>3. o = [scheme |-> b, user |-> NoText, host |-> NoText, port |-> 0, path |-> path,
             query |-> query, fragment |-> fragment]
    BY <2>1, <2>2
  <2> QED BY <2>3, Zenon DEF path, b
<1>11. query = i.query /\ fragment = i.fragment
  <2>1. query = i.query
    BY <1>1, <1>2, <1>6, <1>8 DEF Query, mark, Mark
  <2>2. fragment = i.fragment
    BY <1>1, <1>2, <1>8 DEF hash, Hash
  <2> QED BY <2>1, <2>2
<1> HIDE DEF o, query, fragment
<1>12. o = i
  BY <1>1, <1>2, <1>4, <1>9, <1>10, <1>11, IriIs, Zenon
<1> QED BY <1>7, <1>12 DEF o
-----------------------------------------------------------------------------
(* With a host: what is known of the parts, in one place.                   *)
Hosted(i, s, p2, p3, p4, p5, p6, p7, p8) ==
  /\ i \in Iris /\ WithHost(i) /\ i.port < 1000 /\ i.scheme # NoText
  /\ Free(i.path, {"?", "#"})
  /\ i.user \in FieldTexts /\ i.host \in FieldTexts /\ i.path \in FieldTexts
  /\ i.query \in FieldTexts /\ i.fragment \in FieldTexts /\ i.port \in Nat
  /\ s \in Strings /\ Len(s) \in Nat
  /\ p2 \in Nat \ {0} /\ p3 \in Nat \ {0} /\ p4 \in Nat \ {0} /\ p5 \in Nat \ {0}
  /\ p6 \in Nat \ {0} /\ p7 \in Nat \ {0} /\ p8 \in Nat \ {0}
  /\ p3 <= p4 /\ p4 <= p5 /\ p5 <= p6 /\ p6 <= p7 /\ p7 <= p8 /\ p8 <= Len(s) + 1
HostedParts(i, s, p2, p3, p4, p5, p6, p7, p8) ==
  /\ Occurs(s, p2, Slashes(i)) /\ p3 = p2 + Len(Slashes(i)) /\ UserPart(i, s, p3, p4)
  /\ TextPart(i.host, s, p4, p5) /\ PortPart(i, s, p5, p6) /\ TextPart(i.path, s, p6, p7)
  /\ LedPart(i.query, "?", s, p7, p8) /\ LedPart(i.fragment, "#", s, p8, Len(s) + 1)

LEMMA HostedIs ==
  ASSUME NEW i, NEW s, NEW p2, NEW p3, NEW p4, NEW p5, NEW p6, NEW p7, NEW p8,
         Setting(i, s, p2, p3, p4, p5, p6, p7, p8), i.host # NoText
  PROVE  /\ Hosted(i, s, p2, p3, p4, p5, p6, p7, p8)
         /\ HostedParts(i, s, p2, p3, p4, p5, p6, p7, p8)
<1>1. /\ i \in Iris /\ Regular(i) /\ s \in Strings
      /\ p2 \in Nat \ {0} /\ p3 \in Nat \ {0} /\ p4 \in Nat \ {0} /\ p5 \in Nat \ {0}
      /\ p6 \in Nat \ {0} /\ p7 \in Nat \ {0} /\ p8 \in Nat \ {0}
      /\ Parts(i, s, p2, p3, p4, p5, p6, p7, p8)
  BY Zenon DEF Setting
<1>2. HostedParts(i, s, p2, p3, p4, p5, p6, p7, p8)
  BY <1>1, Zenon DEF Parts, HostedParts
<1>3. /\ p3 <= p4 /\ p4 <= p5 /\ p5 <= p6 /\ p6 <= p7 /\ p7 <= p8 /\ p8 <= Len(s) + 1
  BY SettingRises, Zenon DEF Rising
<1>4. /\ WithHost(i) /\ i.port < 1000 /\ i.scheme # NoText /\ Free(i.path, {"?", "#"})
  BY <1>1, Zenon DEF Regular
<1>5. Len(s) \in Nat
  BY <1>1, StringsLen
<1>6. Hosted(i, s, p2, p3, p4, p5, p6, p7, p8)
  BY <1>1, <1>3, <1>4, <1>5, PartsTyped, Zenon DEF Hosted
<1> QED BY <1>2, <1>6

LEMMA HostedSlashes ==
  ASSUME NEW i, NEW s, NEW p2, NEW p3, NEW p4, NEW p5, NEW p6, NEW p7, NEW p8,
         Hosted(i, s, p2, p3, p4, p5, p6, p7, p8),
         HostedParts(i, s, p2, p3, p4, p5, p6, p7, p8), i.host # NoText
  PROVE  p3 = p2 + 3 /\ SlashesAt(s, p2 + 1)
<1>1. p2 \in Nat \ {0} /\ i.scheme # NoText /\ Len(s) \in Nat
  BY DEF Hosted
<1>2. Occurs(s, p2, Slashes(i)) /\ p3 = p2 + Len(Slashes(i))
  BY Zenon DEF HostedParts
<1> DEFINE w == Slashes(i)
<1>3. w = <<":", "/", "/">> /\ Len(w) = 3
  BY <1>1, SlashesLen
<1>4. w[2] = "/" /\ w[3] = "/"
  BY <1>3
<1>5. p2 + 3 <= Len(s) + 1 /\ \A k \in 1..3 : s[p2 + k - 1] = w[k]
  BY <1>2, <1>3 DEF Occurs
<1> HIDE DEF w
<1>6. 2 \in 1..3 /\ 3 \in 1..3 /\ p2 + 2 - 1 = p2 + 1 /\ p2 + 3 - 1 = p2 + 1 + 1 /\ p2 + 1 < Len(s)
  BY <1>1, <1>5
<1>7. s[p2 + 1] = w[2]
  BY <1>5, <1>6
<1>8. s[p2 + 1 + 1] = w[3]
  BY <1>5, <1>6
<1> QED BY <1>2, <1>3, <1>4, <1>6, <1>7, <1>8 DEF SlashesAt, w

(* The user, up to the `@'.                                                 *)
At(i, p4) == IF i.user = NoText THEN 0 ELSE p4 - 1

LEMMA AtIs ==
  ASSUME NEW i, NEW s, NEW p2, NEW p3, NEW p4, NEW p5, NEW p6, NEW p7, NEW p8,
         Hosted(i, s, p2, p3, p4, p5, p6, p7, p8),
         HostedParts(i, s, p2, p3, p4, p5, p6, p7, p8)
  PROVE  /\ Find(s, p3, {"@"}) = At(i, p4)
         /\ (IF At(i, p4) = 0 THEN p3 ELSE At(i, p4) + 1) = p4
         /\ i.user # NoText => At(i, p4) # 0 /\ Between(s, p3, At(i, p4)) = Text(i.user)
<1>1. /\ UserPart(i, s, p3, p4) /\ TextPart(i.host, s, p4, p5) /\ PortPart(i, s, p5, p6)
      /\ TextPart(i.path, s, p6, p7) /\ LedPart(i.query, "?", s, p7, p8)
      /\ LedPart(i.fragment, "#", s, p8, Len(s) + 1)
  BY Zenon DEF HostedParts
<1>2. /\ i \in Iris /\ WithHost(i) /\ i.port < 1000
      /\ i.user \in FieldTexts /\ i.host \in FieldTexts /\ i.path \in FieldTexts
      /\ i.query \in FieldTexts /\ i.fragment \in FieldTexts
      /\ s \in Strings /\ Len(s) \in Nat
      /\ p3 \in Nat \ {0} /\ p4 \in Nat \ {0} /\ p5 \in Nat \ {0} /\ p6 \in Nat \ {0}
      /\ p7 \in Nat \ {0} /\ p8 \in Nat \ {0}
  BY Zenon DEF Hosted
<1>3. /\ p3 <= p4 /\ p4 <= p5 /\ p5 <= p6 /\ p6 <= p7 /\ p7 <= p8 /\ p8 <= Len(s) + 1
  BY Zenon DEF Hosted
<1>4. CASE i.user # NoText
  <2>1. Free(i.user, {"@"})
    <3>1. Free(i.user, {"@", "/", "?", "#"}) /\ {"@"} \subseteq {"@", "/", "?", "#"}
      BY <1>2 DEF WithHost
    <3> QED BY <3>1, FreeLess
  <2>2. /\ p4 - 1 \in Nat \ {0} /\ p3 <= p4 - 1 /\ p4 - 1 <= Len(s)
        /\ s[p4 - 1] = "@" /\ None(s, p3, p4 - 1, {"@"})
        /\ Kept(s, p3, p4 - 1, Text(i.user))
    BY <1>1, <1>2, <1>4, <2>1, UserPartKept
  <2>3. At(i, p4) = p4 - 1
    BY <1>4 DEF At
  <2>4. Find(s, p3, {"@"}) = p4 - 1
    <3> DEFINE a == p4 - 1
    <3>1. /\ a \in Nat \ {0} /\ p3 <= a /\ a <= Len(s) /\ s[a] \in {"@"}
          /\ None(s, p3, a, {"@"})
      BY <2>2
    <3> HIDE DEF a
    <3>2. Find(s, p3, {"@"}) = a
      BY <1>2, <3>1, FindAt
    <3> QED BY <3>2 DEF a
  <2>5. p4 - 1 + 1 = p4 /\ p4 - 1 # 0
    BY <1>2, <2>2
  <2> QED BY <1>4, <2>2, <2>3, <2>4, <2>5, Zenon DEF Kept
<1>5. CASE i.user = NoText
  <2>1. p4 = p3 /\ At(i, p4) = 0
    BY <1>1, <1>5 DEF UserPart, At
  <2>2. /\ Free(i.host, {"@"}) /\ Free(i.path, {"@"}) /\ Free(i.query, {"@"})
        /\ Free(i.fragment, {"@"})
    <3>1. Free(i.path, {"@"}) /\ Free(i.query, {"@"}) /\ Free(i.fragment, {"@"})
      BY <1>2, <1>5 DEF WithHost
    <3>2. Free(i.host, Delims) /\ {"@"} \subseteq Delims
      BY <1>2, Zenon DEF WithHost, Delims
    <3> QED BY <3>1, <3>2, FreeLess
  <2>3. {"@"} \in SUBSET Delims /\ ":" \notin {"@"} /\ "?" \notin {"@"} /\ "#" \notin {"@"}
    BY DEF Delims
  <2> DEFINE chars == {"@"}
  <2> HIDE DEF chars
  <2>4. None(s, p4, p5, chars) /\ None(s, p6, p7, chars)
    BY <1>1, <1>2, <2>2, TextPartNone DEF chars
  <2>5. None(s, p5, p6, chars)
    BY <1>1, <1>2, <2>3, PortPartNone DEF chars
  <2>6. None(s, p7, p8, chars)
    BY <1>1, <1>2, <2>2, <2>3, LedPartNone DEF chars
  <2>7. None(s, p8, Len(s) + 1, chars)
    BY <1>1, <1>2, <2>2, <2>3, LedPartNone DEF chars
  <2>8. None(s, p4, p7, chars)
    <3>1. None(s, p4, p6, chars)
      BY <1>2, <2>4, <2>5, NoneJoins
    <3> QED BY <1>2, <2>4, <3>1, NoneJoins
  <2>9. None(s, p4, Len(s) + 1, chars)
    <3>1. None(s, p4, p8, chars)
      BY <1>2, <2>6, <2>8, NoneJoins
    <3> QED BY <1>2, <2>7, <3>1, NoneJoins
  <2>10. p4 <= Len(s) + 1
    BY <1>2, <1>3
  <2>11. Find(s, p4, chars) = 0
    BY <1>2, <2>9, <2>10, FindNone
  <2> QED BY <1>5, <2>1, <2>11, Zenon DEF chars
<1> QED BY <1>4, <1>5

(* The slash that the path begins with.                                     *)
LEMMA PathBegins ==
  ASSUME NEW i, NEW s \in Strings, NEW p \in Nat \ {0}, NEW next, TextPart(i.path, s, p, next),
         i.path \in FieldTexts, WithHost(i), i.path # NoText
  PROVE  s[p] = "/" /\ p <= Len(s)
<1> DEFINE x == Text(i.path)
           n == Len(x)
<1>1. x \in Strings /\ n \in Nat /\ Len(s) \in Nat /\ x # <<>> /\ x[1] = "/"
  BY FieldIs, StringsLen DEF WithHost
<1>2. n # 0
  BY <1>1, EmptySeq DEF Strings
<1>3. p + n <= Len(s) + 1 /\ \A k \in 1..n : s[p + k - 1] = x[k]
  BY DEF TextPart, Occurs
<1> HIDE DEF x, n
<1>4. 1 \in 1..n /\ p + 1 - 1 = p
  BY <1>1, <1>2
<1> QED BY <1>1, <1>2, <1>3, <1>4

Slash(i, p6) == IF i.path = NoText THEN 0 ELSE p6

LEMMA SlashIs ==
  ASSUME NEW i, NEW s, NEW p2, NEW p3, NEW p4, NEW p5, NEW p6, NEW p7, NEW p8,
         Setting(i, s, p2, p3, p4, p5, p6, p7, p8),
         Hosted(i, s, p2, p3, p4, p5, p6, p7, p8),
         HostedParts(i, s, p2, p3, p4, p5, p6, p7, p8)
  PROVE  Find(s, p3, {"/"}) = Slash(i, p6)
<1>1. /\ UserPart(i, s, p3, p4) /\ TextPart(i.host, s, p4, p5) /\ PortPart(i, s, p5, p6)
      /\ TextPart(i.path, s, p6, p7) /\ LedPart(i.query, "?", s, p7, p8)
      /\ LedPart(i.fragment, "#", s, p8, Len(s) + 1)
  BY Zenon DEF HostedParts
<1>2. /\ i \in Iris /\ WithHost(i) /\ i.port < 1000
      /\ i.user \in FieldTexts /\ i.host \in FieldTexts /\ i.path \in FieldTexts
      /\ i.query \in FieldTexts /\ i.fragment \in FieldTexts
      /\ s \in Strings /\ Len(s) \in Nat
      /\ p3 \in Nat \ {0} /\ p4 \in Nat \ {0} /\ p5 \in Nat \ {0} /\ p6 \in Nat \ {0}
      /\ p7 \in Nat \ {0} /\ p8 \in Nat \ {0}
  BY Zenon DEF Hosted
<1>3. /\ p3 <= p4 /\ p4 <= p5 /\ p5 <= p6 /\ p6 <= p7 /\ p7 <= p8 /\ p8 <= Len(s) + 1
  BY Zenon DEF Hosted
<1> DEFINE chars == {"/"}
<1>4. chars \in SUBSET Delims /\ ":" \notin chars /\ "?" \notin chars /\ "#" \notin chars
      /\ "@" \notin chars
  BY DEF Delims
<1>5. Free(i.user, chars) /\ Free(i.host, chars)
  <2>1. Free(i.user, {"@", "/", "?", "#"}) /\ Free(i.host, Delims)
    BY <1>2, Zenon DEF WithHost
  <2>2. chars \in SUBSET {"@", "/", "?", "#"} /\ chars \in SUBSET Delims
    BY DEF Delims
  <2> HIDE DEF chars
  <2>3. Free(i.user, chars)
    BY <2>1, <2>2 DEF Free
  <2>4. Free(i.host, chars)
    BY <2>1, <2>2, FreeLess
  <2> QED BY <2>3, <2>4
<1>6. i.path = NoText => Free(i.query, chars) /\ Free(i.fragment, chars)
  BY <1>2, Zenon DEF WithHost
<1>7. "/" \in chars
  OBVIOUS
<1> HIDE DEF chars
<1>8. None(s, p3, p4, chars)
  BY <1>1, <1>2, <1>4, <1>5, UserPartNone
<1>9. None(s, p4, p5, chars)
  BY <1>1, <1>2, <1>5, TextPartNone
<1>10. None(s, p5, p6, chars)
  BY <1>1, <1>2, <1>4, PortPartNone
<1>11. None(s, p3, p6, chars)
  <2>1. None(s, p3, p5, chars)
    BY <1>2, <1>8, <1>9, NoneJoins
  <2> QED BY <1>2, <1>10, <2>1, NoneJoins
<1>12. p3 <= p6 /\ p3 <= Len(s) + 1
  BY <1>2, <1>3
<1>13. CASE i.path # NoText
  <2>1. s[p6] = "/" /\ p6 <= Len(s)
    BY <1>1, <1>2, <1>13, PathBegins, SMTT(30)
  <2>2. Find(s, p3, chars) = p6
    BY <1>2, <1>7, <1>11, <1>12, <2>1, FindAt, SMTT(30)
  <2> QED BY <1>13, <2>2 DEF Slash, chars
<1>14. CASE i.path = NoText
  <2>1. p7 = p6
    <3>1. Len(Text(i.path)) = 0
      BY <1>2, <1>14, FieldIs
    <3> QED BY <1>1, <1>2, <3>1 DEF TextPart
  <2>2. None(s, p7, p8, chars)
    BY <1>1, <1>2, <1>4, <1>6, <1>14, LedPartNone
  <2>3. None(s, p8, Len(s) + 1, chars)
    BY <1>1, <1>2, <1>4, <1>6, <1>14, LedPartNone
  <2>4. None(s, p3, Len(s) + 1, chars)
    <3>1. None(s, p3, p8, chars)
      BY <1>2, <1>11, <2>1, <2>2, NoneJoins
    <3> QED BY <1>2, <2>3, <3>1, NoneJoins
  <2>5. Find(s, p3, chars) = 0
    BY <1>2, <1>12, <2>4, FindNone
  <2> QED BY <1>14, <2>5 DEF Slash, chars
<1> QED BY <1>13, <1>14

(* The colon of the port, and its digits.                                   *)
PortAt(i, p5) == IF i.port = 0 THEN 0 ELSE p5

LEMMA PortColonIs ==
  ASSUME NEW i, NEW s, NEW p2, NEW p3, NEW p4, NEW p5, NEW p6, NEW p7, NEW p8,
         Setting(i, s, p2, p3, p4, p5, p6, p7, p8),
         Hosted(i, s, p2, p3, p4, p5, p6, p7, p8),
         HostedParts(i, s, p2, p3, p4, p5, p6, p7, p8)
  PROVE  PortColon(s, p4) = PortAt(i, p5)
<1>1. /\ UserPart(i, s, p3, p4) /\ TextPart(i.host, s, p4, p5) /\ PortPart(i, s, p5, p6)
      /\ TextPart(i.path, s, p6, p7) /\ LedPart(i.query, "?", s, p7, p8)
      /\ LedPart(i.fragment, "#", s, p8, Len(s) + 1)
  BY Zenon DEF HostedParts
<1>2. /\ i \in Iris /\ WithHost(i) /\ i.port < 1000
      /\ i.user \in FieldTexts /\ i.host \in FieldTexts /\ i.path \in FieldTexts
      /\ i.query \in FieldTexts /\ i.fragment \in FieldTexts
      /\ s \in Strings /\ Len(s) \in Nat
      /\ p3 \in Nat \ {0} /\ p4 \in Nat \ {0} /\ p5 \in Nat \ {0} /\ p6 \in Nat \ {0}
      /\ p7 \in Nat \ {0} /\ p8 \in Nat \ {0}
  BY Zenon DEF Hosted
<1>3. /\ p3 <= p4 /\ p4 <= p5 /\ p5 <= p6 /\ p6 <= p7 /\ p7 <= p8 /\ p8 <= Len(s) + 1
  BY Zenon DEF Hosted
<1> DEFINE stops == {":", "?", "#"}
           stop == Find(s, p4, stops)
<1>4. Free(i.host, stops)
  <2>1. Free(i.host, Delims) /\ stops \subseteq Delims
    BY <1>2, Zenon DEF WithHost, Delims
  <2> QED BY <2>1, FreeLess
<1>5. None(s, p4, p5, stops)
  BY <1>1, <1>2, <1>4, TextPartNone
<1>6. PortColon(s, p4) = IF stop # 0 /\ s[stop] = ":" THEN stop ELSE 0
  BY Zenon DEF PortColon
<1>7. CASE i.port # 0
  <2>1. s[p5] = ":" /\ p5 <= Len(s)
    BY <1>1, <1>2, <1>7, PortPartKept
  <2>2. stop = p5
    BY <1>2, <1>3, <1>5, <2>1, FindAt
  <2> HIDE DEF stop
  <2> QED BY <1>2, <1>6, <1>7, <2>1, <2>2 DEF PortAt
<1>8. CASE i.port = 0
  <2>1. p6 = p5
    BY <1>1, <1>8 DEF PortPart
  <2>2. Free(i.path, stops)
    <3>1. Free(i.path, {":"})
      BY <1>2, <1>8 DEF WithHost
    <3>2. Free(i.path, {"?", "#"})
      BY Zenon DEF Hosted
    <3> QED BY <3>1, <3>2 DEF Free
  <2> HIDE DEF stops
  <2>3. None(s, p6, p7, stops)
    BY <1>1, <1>2, <2>2, TextPartNone
  <2>4. None(s, p4, p7, stops)
    BY <1>2, <1>5, <2>1, <2>3, NoneJoins
  <2>5. p4 <= p7 /\ p7 <= Len(s) + 1 /\ p4 <= Len(s) + 1
    BY <1>2, <1>3
  <2>6. CASE p7 = Len(s) + 1
    <3>1. stop = 0
      BY <1>2, <2>4, <2>5, <2>6, FindNone
    <3> HIDE DEF stop
    <3> QED BY <1>6, <1>8, <3>1 DEF PortAt
  <2>7. CASE p7 # Len(s) + 1
    <3>1. p7 <= Len(s)
      BY <1>2, <2>5, <2>7
    <3>2. s[p7] \in {"?", "#"}
      BY <3>1, MarkFollows
    <3>3. s[p7] \in stops /\ s[p7] # ":"
      BY <3>2 DEF stops
    <3>4. stop = p7
      BY <1>2, <2>4, <2>5, <3>1, <3>3, FindAt
    <3> HIDE DEF stop
    <3> QED BY <1>6, <1>8, <3>3, <3>4 DEF PortAt
  <2> QED BY <2>6, <2>7
<1> QED BY <1>7, <1>8

LEMMA PortDigitsIs ==
  ASSUME NEW s \in Strings, NEW from \in Nat \ {0}, NEW past \in Nat \ {0}, from <= past,
         past <= Len(s) + 1, \A k \in from..past - 1 : s[k] \in Digits,
         past <= Len(s) => s[past] \notin Digits
  PROVE  PortDigits(s, from) = Between(s, from, past)
<1> DEFINE L == Len(s)
           others == {k \in from..L : s[k] \notin Digits}
<1>1. L \in Nat
  BY StringsLen
<1>2. PortDigits(s, from) = Between(s, from, IF others = {} THEN L + 1 ELSE Min(others))
  BY Zenon DEF PortDigits
<1>3. \A k \in others : k \in Nat /\ from <= k /\ k <= L /\ ~(k < past)
  <2>1. \A k \in from..L : k < past => k \in from..past - 1
    BY <1>1
  <2> QED BY <1>1, <2>1
<1>4. CASE past = L + 1
  <2>1. others = {}
    BY <1>1, <1>3, <1>4
  <2> HIDE DEF others
  <2> QED BY <1>2, <1>4, <2>1
<1>5. CASE past # L + 1
  <2>1. past \in others /\ \A k \in others : past <= k
    BY <1>1, <1>3, <1>5
  <2> HIDE DEF others
  <2> DEFINE m == Min(others)
  <2>2. m \in others /\ \A k \in others : m <= k
    BY <2>1 DEF Min
  <2>3. past \in Nat /\ m \in Nat /\ m <= past /\ past <= m
    BY <1>3, <2>1, <2>2
  <2>4. others # {}
    BY <2>1
  <2> HIDE DEF m
  <2>5. m = past
    BY <2>3
  <2> QED BY <1>2, <2>4, <2>5 DEF m
<1> QED BY <1>4, <1>5

LEMMA NoPath ==
  ASSUME NEW f \in FieldTexts, f = NoText, NEW s, NEW p \in Nat, NEW next,
         TextPart(f, s, p, next)
  PROVE  next = p
<1>1. Len(Text(f)) = 0
  BY FieldIs
<1> QED BY <1>1 DEF TextPart

LEMMA PortIsRead ==
  ASSUME NEW i, NEW s, NEW p2, NEW p3, NEW p4, NEW p5, NEW p6, NEW p7, NEW p8,
         Setting(i, s, p2, p3, p4, p5, p6, p7, p8),
         Hosted(i, s, p2, p3, p4, p5, p6, p7, p8),
         HostedParts(i, s, p2, p3, p4, p5, p6, p7, p8),
         i.port # 0
  PROVE  /\ PortDigits(s, p5 + 1) = Decimal(i.port) /\ PortDigits(s, p5 + 1) # <<>>
         /\ Number(PortDigits(s, p5 + 1)) = i.port
<1>1. /\ UserPart(i, s, p3, p4) /\ TextPart(i.host, s, p4, p5) /\ PortPart(i, s, p5, p6)
      /\ TextPart(i.path, s, p6, p7) /\ LedPart(i.query, "?", s, p7, p8)
      /\ LedPart(i.fragment, "#", s, p8, Len(s) + 1)
  BY Zenon DEF HostedParts
<1>2. /\ i \in Iris /\ WithHost(i) /\ i.port < 1000
      /\ i.user \in FieldTexts /\ i.host \in FieldTexts /\ i.path \in FieldTexts
      /\ i.query \in FieldTexts /\ i.fragment \in FieldTexts /\ i.port \in Nat
      /\ s \in Strings /\ Len(s) \in Nat
      /\ p3 \in Nat \ {0} /\ p4 \in Nat \ {0} /\ p5 \in Nat \ {0} /\ p6 \in Nat \ {0}
      /\ p7 \in Nat \ {0} /\ p8 \in Nat \ {0}
  BY Zenon DEF Hosted
<1>3. /\ p3 <= p4 /\ p4 <= p5 /\ p5 <= p6 /\ p6 <= p7 /\ p7 <= p8 /\ p8 <= Len(s) + 1
  BY Zenon DEF Hosted
<1>4. /\ p5 + 1 < p6 /\ \A k \in p5 + 1..p6 - 1 : s[k] \in Digits
      /\ Kept(s, p5 + 1, p6, Decimal(i.port))
  BY <1>1, <1>2, PortPartKept, SMTT(30)
<1>5. ASSUME p6 <= Len(s) PROVE s[p6] \notin Digits
  <2>1. CASE i.path # NoText
    <3>1. s[p6] = "/"
      BY <1>1, <1>2, <2>1, PathBegins
    <3> QED BY <3>1, DigitsPlain DEF Delims
  <2>2. CASE i.path = NoText
    <3>1. p7 = p6
      BY <1>1, <1>2, <2>2, NoPath
    <3>2. s[p6] \in {"?", "#"}
      BY <1>5, <3>1, MarkFollows
    <3> QED BY <3>2, DigitsPlain DEF Delims
  <2> QED BY <2>1, <2>2
<1>6. PortDigits(s, p5 + 1) = Between(s, p5 + 1, p6)
  <2> DEFINE from == p5 + 1
  <2>1. from \in Nat \ {0} /\ from <= p6 /\ p6 <= Len(s) + 1
    BY <1>2, <1>3, <1>4
  <2>2. \A k \in from..p6 - 1 : s[k] \in Digits
    BY <1>4
  <2> HIDE DEF from
  <2>3. PortDigits(s, from) = Between(s, from, p6)
    BY <1>2, <1>5, <2>1, <2>2, PortDigitsIs
  <2> QED BY <2>3 DEF from
<1>7. PortDigits(s, p5 + 1) = Decimal(i.port)
  BY <1>4, <1>6, Zenon DEF Kept
<1>8. Number(Decimal(i.port)) = i.port /\ Len(Decimal(i.port)) \in 1..3
  BY <1>2, DecimalIs
<1>9. Decimal(i.port) # <<>>
  <2>1. Len(<<>>) = 0
    OBVIOUS
  <2>2. \A n \in 1..3 : n # 0
    OBVIOUS
  <2> QED BY <1>8, <2>1, <2>2, Zenon
<1> QED BY <1>7, <1>8, <1>9, Zenon

(* The path.                                                                *)
LEMMA PathIsRead ==
  ASSUME NEW i, NEW s, NEW p2, NEW p3, NEW p4, NEW p5, NEW p6, NEW p7, NEW p8,
         Setting(i, s, p2, p3, p4, p5, p6, p7, p8),
         Hosted(i, s, p2, p3, p4, p5, p6, p7, p8),
         HostedParts(i, s, p2, p3, p4, p5, p6, p7, p8)
  PROVE  UpTo(s, p6, Find(s, p6, {"?", "#"})) = Text(i.path)
<1>1. /\ UserPart(i, s, p3, p4) /\ TextPart(i.host, s, p4, p5) /\ PortPart(i, s, p5, p6)
      /\ TextPart(i.path, s, p6, p7) /\ LedPart(i.query, "?", s, p7, p8)
      /\ LedPart(i.fragment, "#", s, p8, Len(s) + 1)
  BY Zenon DEF HostedParts
<1>2. /\ i \in Iris /\ WithHost(i) /\ i.port < 1000
      /\ i.user \in FieldTexts /\ i.host \in FieldTexts /\ i.path \in FieldTexts
      /\ i.query \in FieldTexts /\ i.fragment \in FieldTexts /\ i.port \in Nat
      /\ s \in Strings /\ Len(s) \in Nat
      /\ p3 \in Nat \ {0} /\ p4 \in Nat \ {0} /\ p5 \in Nat \ {0} /\ p6 \in Nat \ {0}
      /\ p7 \in Nat \ {0} /\ p8 \in Nat \ {0}
  BY Zenon DEF Hosted
<1>3. /\ p3 <= p4 /\ p4 <= p5 /\ p5 <= p6 /\ p6 <= p7 /\ p7 <= p8 /\ p8 <= Len(s) + 1
  BY Zenon DEF Hosted
<1> DEFINE marks == {"?", "#"}
           cut == Find(s, p6, marks)
<1>4. Free(i.path, marks)
  BY Zenon DEF Hosted
<1>5. None(s, p6, p7, marks)
  BY <1>1, <1>2, <1>4, TextPartNone
<1>6. Kept(s, p6, p7, Text(i.path))
  BY <1>1, <1>2, TextKept
<1>7. p6 <= p7 /\ p7 <= Len(s) + 1 /\ p6 <= Len(s) + 1
  BY <1>2, <1>3
<1>8. IF cut = 0 THEN p7 = Len(s) + 1 ELSE p7 = cut
  <2>1. CASE p7 = Len(s) + 1
    <3>1. cut = 0
      BY <1>2, <1>5, <1>7, <2>1, FindNone
    <3> HIDE DEF cut
    <3> QED BY <2>1, <3>1
  <2>2. CASE p7 # Len(s) + 1
    <3>1. p7 <= Len(s)
      BY <1>2, <1>7, <2>2
    <3>2. s[p7] \in marks
      BY <3>1, MarkFollows
    <3>3. cut = p7
      BY <1>2, <1>5, <1>7, <3>1, <3>2, FindAt
    <3> HIDE DEF cut
    <3> QED BY <1>2, <3>3
  <2> QED BY <2>1, <2>2
<1> HIDE DEF cut
<1>9. UpTo(s, p6, cut) = Text(i.path)
  BY <1>6, <1>8, UpToIs, Zenon
<1> QED BY <1>9 DEF cut

(* The host, which ends where the first of what follows it begins.          *)
HostStop(i, p5, p6, p7, p8) ==
  IF i.port # 0 THEN p5 ELSE IF i.query # NoText THEN p7
  ELSE IF i.fragment # NoText THEN p8 ELSE Slash(i, p6)

LEMMA HostStopIs ==
  ASSUME NEW i, NEW s, NEW p2, NEW p3, NEW p4, NEW p5, NEW p6, NEW p7, NEW p8,
         Setting(i, s, p2, p3, p4, p5, p6, p7, p8),
         Hosted(i, s, p2, p3, p4, p5, p6, p7, p8),
         HostedParts(i, s, p2, p3, p4, p5, p6, p7, p8)
  PROVE  HostStop(i, p5, p6, p7, p8) =
           IF i.port = 0 /\ i.query = NoText /\ i.fragment = NoText /\ i.path = NoText
           THEN 0 ELSE p5
<1>1. /\ UserPart(i, s, p3, p4) /\ TextPart(i.host, s, p4, p5) /\ PortPart(i, s, p5, p6)
      /\ TextPart(i.path, s, p6, p7) /\ LedPart(i.query, "?", s, p7, p8)
      /\ LedPart(i.fragment, "#", s, p8, Len(s) + 1)
  BY Zenon DEF HostedParts
<1>2. /\ i \in Iris /\ WithHost(i) /\ i.port < 1000
      /\ i.user \in FieldTexts /\ i.host \in FieldTexts /\ i.path \in FieldTexts
      /\ i.query \in FieldTexts /\ i.fragment \in FieldTexts /\ i.port \in Nat
      /\ s \in Strings /\ Len(s) \in Nat
      /\ p3 \in Nat \ {0} /\ p4 \in Nat \ {0} /\ p5 \in Nat \ {0} /\ p6 \in Nat \ {0}
      /\ p7 \in Nat \ {0} /\ p8 \in Nat \ {0}
  BY Zenon DEF Hosted
<1>3. /\ p3 <= p4 /\ p4 <= p5 /\ p5 <= p6 /\ p6 <= p7 /\ p7 <= p8 /\ p8 <= Len(s) + 1
  BY Zenon DEF Hosted
<1>4. CASE i.port # 0
  BY <1>4 DEF HostStop
<1>5. CASE i.port = 0
  <2>1. p6 = p5
    BY <1>1, <1>5 DEF PortPart
  <2>2. i.path # NoText => i.query = NoText /\ i.fragment = NoText
    BY <1>2, <1>5 DEF WithHost
  <2>3. i.path = NoText => p7 = p6
    BY <1>1, <1>2, NoPath
  <2>4. i.query = NoText => p8 = p7
    BY <1>1 DEF LedPart
  <2> QED BY <1>5, <2>1, <2>2, <2>3, <2>4 DEF HostStop, Slash
<1> QED BY <1>4, <1>5

LEMMA HostIsRead ==
  ASSUME NEW i, NEW s, NEW p2, NEW p3, NEW p4, NEW p5, NEW p6, NEW p7, NEW p8,
         Setting(i, s, p2, p3, p4, p5, p6, p7, p8),
         Hosted(i, s, p2, p3, p4, p5, p6, p7, p8),
         HostedParts(i, s, p2, p3, p4, p5, p6, p7, p8),
         NEW e, e = HostStop(i, p5, p6, p7, p8)
  PROVE  UpTo(s, p4, IF e < p4 THEN 0 ELSE e) = Text(i.host)
<1>1. /\ UserPart(i, s, p3, p4) /\ TextPart(i.host, s, p4, p5) /\ PortPart(i, s, p5, p6)
      /\ TextPart(i.path, s, p6, p7) /\ LedPart(i.query, "?", s, p7, p8)
      /\ LedPart(i.fragment, "#", s, p8, Len(s) + 1)
  BY Zenon DEF HostedParts
<1>2. /\ i \in Iris /\ WithHost(i) /\ i.port < 1000
      /\ i.user \in FieldTexts /\ i.host \in FieldTexts /\ i.path \in FieldTexts
      /\ i.query \in FieldTexts /\ i.fragment \in FieldTexts /\ i.port \in Nat
      /\ s \in Strings /\ Len(s) \in Nat
      /\ p3 \in Nat \ {0} /\ p4 \in Nat \ {0} /\ p5 \in Nat \ {0} /\ p6 \in Nat \ {0}
      /\ p7 \in Nat \ {0} /\ p8 \in Nat \ {0}
  BY Zenon DEF Hosted
<1>3. /\ p3 <= p4 /\ p4 <= p5 /\ p5 <= p6 /\ p6 <= p7 /\ p7 <= p8 /\ p8 <= Len(s) + 1
  BY Zenon DEF Hosted
<1>4. Kept(s, p4, p5, Text(i.host))
  BY <1>1, <1>2, TextKept
<1> DEFINE cut == IF e < p4 THEN 0 ELSE e
<1>5. IF cut = 0 THEN p5 = Len(s) + 1 ELSE p5 = cut
  <2>1. CASE i.port = 0 /\ i.query = NoText /\ i.fragment = NoText /\ i.path = NoText
    <3>1. e = 0
      BY <2>1, HostStopIs
    <3>2. cut = 0
      BY <1>2, <3>1
    <3>3. p6 = p5 /\ p8 = p7 /\ p8 = Len(s) + 1
      BY <1>1, <2>1 DEF PortPart, LedPart
    <3>4. p7 = p6
      BY <1>1, <1>2, <2>1, NoPath
    <3> HIDE DEF cut
    <3> QED BY <3>2, <3>3, <3>4
  <2>2. CASE ~(i.port = 0 /\ i.query = NoText /\ i.fragment = NoText /\ i.path = NoText)
    <3>1. e = p5
      BY <2>2, HostStopIs
    <3>2. cut = p5
      BY <1>2, <1>3, <3>1
    <3> HIDE DEF cut
    <3> QED BY <1>2, <3>2
  <2> QED BY <2>1, <2>2
<1> HIDE DEF cut
<1>6. UpTo(s, p4, cut) = Text(i.host)
  BY <1>4, <1>5, UpToIs, Zenon
<1> QED BY <1>6 DEF cut

(* All of it: the IRI that the text sets is the one that was printed.       *)
LEMMA HostReads ==
  ASSUME NEW i, NEW s, NEW p2, NEW p3, NEW p4, NEW p5, NEW p6, NEW p7, NEW p8,
         Setting(i, s, p2, p3, p4, p5, p6, p7, p8), i.host # NoText
  PROVE  FromString(NewIri, s) = Outcome(TRUE, i)
<1> DEFINE c == Cuts(s)
           mark == Mark(i, p7)
           hash == Hash(i, p8)
           sign == At(i, p4)
           port == PortAt(i, p5)
           slash == Slash(i, p6)
           stop == HostStop(i, p5, p6, p7, p8)
<1>1. /\ Hosted(i, s, p2, p3, p4, p5, p6, p7, p8)
      /\ HostedParts(i, s, p2, p3, p4, p5, p6, p7, p8)
  BY HostedIs
<1>2. /\ i \in Iris /\ i.scheme \in FieldTexts /\ i.user \in FieldTexts /\ i.host \in FieldTexts
      /\ i.path \in FieldTexts /\ i.query \in FieldTexts /\ i.fragment \in FieldTexts
      /\ i.scheme # NoText
      /\ p2 \in Nat /\ p3 # 0 /\ p4 # 0 /\ p5 # 0 /\ p6 # 0 /\ p7 # 0 /\ p8 # 0
  BY <1>1, PartsTyped DEF Hosted
<1>3. p3 = p2 + 3 /\ SlashesAt(s, p2 + 1)
  BY <1>1, HostedSlashes
<1>4. Colon(s) = p2 /\ SchemeOK(s) /\ Between(s, 1, p2) = Text(i.scheme)
  BY SchemeIsRead DEF SchemeRead, Kept
<1>5. Find(s, p2, {"?"}) = mark /\ Find(s, IF mark = 0 THEN p2 ELSE mark + 1, {"#"}) = hash
  <2>1. Find(s, p2, {"?"}) = mark
    BY MarkIs
  <2>2. Find(s, IF mark = 0 THEN p2 ELSE mark + 1, {"#"}) = hash
    BY HashIs
  <2> QED BY <2>1, <2>2
<1>6. /\ Find(s, p3, {"@"}) = sign
      /\ (IF sign = 0 THEN p3 ELSE sign + 1) = p4
      /\ i.user # NoText => sign # 0 /\ Between(s, p3, sign) = Text(i.user)
  BY <1>1, AtIs
<1>7. PortColon(s, p4) = port /\ Find(s, p3, {"/"}) = slash
  BY <1>1, PortColonIs, SlashIs
<1>8. c = [colon |-> p2, mark |-> mark, hash |-> hash, start |-> p3, at |-> sign, host |-> p4,
           port |-> port, slash |-> slash]
  <2> HIDE DEF mark, hash, sign, port, slash
  <2>1. (IF SlashesAt(s, Colon(s) + 1) THEN Colon(s) + 3 ELSE 0) = p3
    BY <1>3, <1>4
  <2>2. (IF p3 = 0 THEN 0 ELSE Find(s, p3, {"@"})) = sign
    BY <1>2, <1>6
  <2>3. /\ (IF p3 = 0 THEN 0 ELSE PortColon(s, p4)) = port
        /\ (IF p3 = 0 THEN 0 ELSE Find(s, p3, {"/"})) = slash
    BY <1>2, <1>7
  <2> QED BY <1>4, <1>5, <1>6, <2>1, <2>2, <2>3, Zenon DEF Cuts
<1>9. /\ c.colon = p2 /\ c.mark = mark /\ c.hash = hash /\ c.start = p3 /\ c.at = sign
      /\ c.host = p4 /\ c.port = port /\ c.slash = slash
  <2> HIDE DEF c, mark, hash, sign, port, slash
  <2> QED BY <1>8
<1>10. i.port # 0 =>
         /\ PortDigits(s, p5 + 1) # <<>> /\ Number(PortDigits(s, p5 + 1)) = i.port
  BY <1>1, PortIsRead
<1>11. /\ UpTo(s, p6, Find(s, p6, {"?", "#"})) = Text(i.path)
  BY <1>1, PathIsRead
<1>12. UpTo(s, p4, IF stop < p4 THEN 0 ELSE stop) = Text(i.host)
  BY <1>1, HostIsRead
<1>13. /\ i.query # NoText => UpTo(s, p7 + 1, hash) = Text(i.query)
       /\ i.fragment # NoText => UpTo(s, p8 + 1, 0) = Text(i.fragment)
  BY MarksAreRead, Zenon DEF MarksRead
<1>14. HostEnd(c) = stop
  <2> HIDE DEF c
  <2> QED BY <1>2, <1>9 DEF HostEnd, HostStop, PortAt, Mark, Hash
<1> HIDE DEF c, stop
<1>15. FromString(NewIri, s) = Outcome(TRUE, Authority(NewIri, s, c))
  <2>1. c.start # 0
    BY <1>2, <1>9
  <2>2. ~(c.port # 0 /\ PortDigits(s, c.port + 1) = <<>>)
    BY <1>9, <1>10 DEF PortAt
  <2> QED BY <1>4, <2>1, <2>2, Zenon DEF FromString, c
<1> DEFINE o == Authority(NewIri, s, c)
<1>16. /\ Some(Between(s, 1, c.colon)) = i.scheme
       /\ Some(Host(s, c)) = i.host
       /\ (IF c.at = 0 THEN NoText ELSE Some(Between(s, c.start, c.at))) = i.user
  <2>1. Some(Between(s, 1, c.colon)) = i.scheme
    BY <1>2, <1>4, <1>9, FieldIs
  <2>2. Some(Host(s, c)) = i.host
    <3>1. Host(s, c) = Text(i.host)
      BY <1>9, <1>12, <1>14 DEF Host
    <3> QED BY <1>2, <3>1, FieldIs
  <2>3. (IF c.at = 0 THEN NoText ELSE Some(Between(s, c.start, c.at))) = i.user
    <3>1. CASE i.user = NoText
      BY <1>9, <3>1 DEF At
    <3>2. CASE i.user # NoText
      BY <1>2, <1>6, <1>9, <3>2, FieldIs
    <3> QED BY <3>1, <3>2
  <2> QED BY <2>1, <2>2, <2>3
<1>17. /\ (IF c.port = 0 THEN 0 ELSE Number(PortDigits(s, c.port + 1))) = i.port
       /\ (IF c.slash = 0 THEN NoText ELSE Some(Path(s, c))) = i.path
  <2>1. (IF c.port = 0 THEN 0 ELSE Number(PortDigits(s, c.port + 1))) = i.port
    BY <1>2, <1>9, <1>10 DEF PortAt
  <2>2. (IF c.slash = 0 THEN NoText ELSE Some(Path(s, c))) = i.path
    <3>1. CASE i.path = NoText
      BY <1>9, <3>1 DEF Slash
    <3>2. CASE i.path # NoText
      <4>1. c.slash = p6 /\ c.slash # 0
        BY <1>2, <1>9, <3>2 DEF Slash
      <4>2. Path(s, c) = Text(i.path)
        BY <1>11, <4>1, Zenon DEF Path
      <4> QED BY <1>2, <3>2, <4>1, <4>2, FieldIs
    <3> QED BY <3>1, <3>2
  <2> QED BY <2>1, <2>2
<1>18. /\ (IF c.mark = 0 THEN NoText ELSE Some(Query(s, c))) = i.query
       /\ (IF c.hash = 0 THEN NoText ELSE Some(UpTo(s, c.hash + 1, 0))) = i.fragment
  <2>1. (IF c.mark = 0 THEN NoText ELSE Some(Query(s, c))) = i.query
    <3>1. CASE i.query = NoText
      BY <1>9, <3>1 DEF Mark
    <3>2. CASE i.query # NoText
      <4>1. c.mark = p7 /\ c.mark # 0
        BY <1>2, <1>9, <3>2 DEF Mark
      <4>2. Query(s, c) = Text(i.query)
        BY <1>9, <1>13, <3>2, <4>1, Zenon DEF Query
      <4> QED BY <1>2, <3>2, <4>1, <4>2, FieldIs
    <3> QED BY <3>1, <3>2
  <2>2. (IF c.hash = 0 THEN NoText ELSE Some(UpTo(s, c.hash + 1, 0))) = i.fragment
    <3>1. CASE i.fragment = NoText
      BY <1>9, <3>1 DEF Hash
    <3>2. CASE i.fragment # NoText
      <4>1. c.hash = p8 /\ c.hash # 0
        BY <1>2, <1>9, <3>2 DEF Hash
      <4> QED BY <1>2, <1>13, <3>2, <4>1, FieldIs
    <3> QED BY <3>1, <3>2
  <2> QED BY <2>1, <2>2
<1>19. o = [scheme |-> i.scheme, user |-> i.user, host |-> i.host, port |-> i.port,
            path |-> i.path, query |-> i.query, fragment |-> i.fragment]
  <2> DEFINE a == Scheme(NewIri, s, c)
             u == User(NewIri, s, c)
  <2>1. a = [scheme |-> i.scheme, user |-> NoText, host |-> NoText, port |-> 0,
             path |-> NoText, query |-> i.query, fragment |-> i.fragment]
    BY <1>16, <1>18, SchemeSets, Zenon
  <2> HIDE DEF a
  <2>2. u = [a EXCEPT !.user = IF c.at = 0 THEN @ ELSE Some(Between(s, c.start, c.at))]
    BY Zenon DEF User, a
  <2>3. u = [a EXCEPT !.user = i.user]
    <3>1. a.user = NoText
      BY <2>1
    <3> HIDE DEF u
    <3> QED BY <1>16, <2>2, <3>1, Zenon
  <2> HIDE DEF u
  <2>4. u = [scheme |-> i.scheme, user |-> i.user, host |-> NoText, port |-> 0,
             path |-> NoText, query |-> i.query, fragment |-> i.fragment]
    BY <2>1, <2>3
  <2>5. o = [u EXCEPT !.port = IF c.port = 0 THEN @ ELSE Number(PortDigits(s, c.port + 1)),
                      !.path = IF c.slash = 0 THEN @ ELSE Some(Path(s, c)),
                      !.host = Some(Host(s, c))]
    BY Zenon DEF Authority, u
  <2>6. o = [u EXCEPT !.port = i.port, !.path = i.path, !.host = i.host]
    <3>1. u.port = 0 /\ u.path = NoText
      BY <2>4
    <3> HIDE DEF o
    <3> QED BY <1>16, <1>17, <2>5, <3>1, Zenon
  <2> HIDE DEF o
  <2> QED BY <2>4, <2>6
<1> HIDE DEF o
<1>20. o = i
  BY <1>2, <1>19, IriIs, Zenon
<1> QED BY <1>15, <1>20 DEF o

LEMMA RegularReads ==
  ASSUME NEW i \in Iris, Regular(i)
  PROVE  FromString(NewIri, Printed(i)) = Outcome(TRUE, i)
<1> DEFINE s == Printed(i)
<1>1. i.port < 1000
  BY DEF Regular
<1>2. PICK p2, p3, p4, p5, p6, p7, p8 \in Nat \ {0} : Parts(i, s, p2, p3, p4, p5, p6, p7, p8)
  BY <1>1, PrintedParts, Zenon
<1>3. s \in Strings
  BY <1>1, PrintedLaidOut
<1> HIDE DEF s
<1>4. Setting(i, s, p2, p3, p4, p5, p6, p7, p8)
  BY <1>2, <1>3, Zenon DEF Setting
<1>5. FromString(NewIri, s) = Outcome(TRUE, i)
  BY <1>4, OpaqueReads, HostReads, Zenon
<1> QED BY <1>5 DEF s
-----------------------------------------------------------------------------
(* Whatever is set and parsed, the fields hold texts and the port a number. *)
LEMMA BetweenTyped ==
  ASSUME NEW s, NEW S, NEW from \in Nat, NEW past \in Nat, \A k \in from..past - 1 : s[k] \in S
  PROVE  Between(s, from, past) \in Seq(S)
<1>1. past - 1 \in Int /\ from \in Int
  OBVIOUS
<1>2. SubSeq(s, from, past - 1) \in Seq(S)
  BY <1>1, SubSeqProperties
<1> QED BY <1>2 DEF Between

LEMMA UpToTyped ==
  ASSUME NEW s \in Strings, NEW from \in Nat \ {0}, NEW cut \in Nat, cut <= Len(s) + 1
  PROVE  UpTo(s, from, cut) \in Strings
<1> DEFINE past == IF cut = 0 THEN Len(s) + 1 ELSE cut
<1>1. Len(s) \in Nat /\ \A k \in 1..Len(s) : s[k] \in Chars
  BY StringsLen
<1>2. past \in Nat /\ past <= Len(s) + 1
  BY <1>1
<1> HIDE DEF past
<1>3. \A k \in from..past - 1 : s[k] \in Chars
  BY <1>1, <1>2
<1>4. Between(s, from, past) \in Seq(Chars)
  BY <1>2, <1>3, BetweenTyped
<1> QED BY <1>4, Zenon DEF UpTo, Strings, past

LEMMA SomeTyped ==
  ASSUME NEW x \in Strings
  PROVE  Some(x) \in FieldTexts
<1>1. <<x>> \in Seq(Strings) /\ Len(<<x>>) = 1
  OBVIOUS
<1> QED BY <1>1 DEF Some, FieldTexts

LEMMA NoTextTyped == NoText \in FieldTexts
BY EmptySeq DEF NoText, FieldTexts

LEMMA NewIriTyped == NewIri \in Iris
BY NoTextTyped DEF NewIri, Iris

(* The digits behind a colon.                                               *)
LEMMA PortDigitsTyped ==
  ASSUME NEW s \in Strings, NEW from \in Nat \ {0}
  PROVE  PortDigits(s, from) \in Seq(Digits)
<1> DEFINE L == Len(s)
           others == {k \in from..L : s[k] \notin Digits}
           past == IF others = {} THEN L + 1 ELSE Min(others)
<1>1. L \in Nat
  BY StringsLen
<1>2. PortDigits(s, from) = Between(s, from, past)
  BY Zenon DEF PortDigits
<1>3. past \in Nat /\ past <= L + 1 /\ \A k \in others : past <= k
  <2>1. CASE others = {}
    BY <1>1, <2>1
  <2>2. CASE others # {}
    <3>1. \A k \in others : k \in Nat /\ k <= L
      BY <1>1
    <3> HIDE DEF others
    <3>2. Min(others) \in others /\ \A k \in others : Min(others) <= k
      BY <2>2, <3>1, LeastIs DEF Min
    <3>3. past = Min(others)
      BY <2>2
    <3> HIDE DEF past
    <3> QED BY <1>1, <3>1, <3>2, <3>3
  <2> QED BY <2>1, <2>2
<1> HIDE DEF past
<1>4. ASSUME NEW k \in from..past - 1 PROVE s[k] \in Digits
  <2>1. k \in from..L /\ ~(past <= k)
    BY <1>1, <1>3
  <2> QED BY <1>3, <2>1
<1>5. Between(s, from, past) \in Seq(Digits)
  BY <1>3, <1>4, BetweenTyped
<1> QED BY <1>2, <1>5

CutsRange(s, c) ==
  /\ c.colon \in Nat \ {0} /\ c.mark \in Nat /\ c.hash \in Nat /\ c.start \in Nat
  /\ c.at \in Nat /\ c.host \in Nat /\ c.port \in Nat /\ c.slash \in Nat
  /\ c.colon <= Len(s) /\ c.mark <= Len(s) /\ c.hash <= Len(s) /\ c.at <= Len(s)
  /\ c.port <= Len(s) /\ c.slash <= Len(s)
  /\ c.start # 0 => c.host # 0

LEMMA CutsAreInRange ==
  ASSUME NEW s \in Strings, Colon(s) # 0
  PROVE  CutsRange(s, Cuts(s))
<1> DEFINE L == Len(s)
           colon == Colon(s)
           mark == Find(s, colon, {"?"})
           hash == Find(s, IF mark = 0 THEN colon ELSE mark + 1, {"#"})
           start == IF SlashesAt(s, colon + 1) THEN colon + 3 ELSE 0
           sign == IF start = 0 THEN 0 ELSE Find(s, start, {"@"})
           host == IF sign = 0 THEN start ELSE sign + 1
           port == IF start = 0 THEN 0 ELSE PortColon(s, host)
           slash == IF start = 0 THEN 0 ELSE Find(s, start, {"/"})
           c == [colon |-> colon, mark |-> mark, hash |-> hash, start |-> start, at |-> sign,
                 host |-> host, port |-> port, slash |-> slash]
<1>1. L \in Nat
  BY StringsLen
<1>2. Cuts(s) = c
  BY Zenon DEF Cuts
<1>3. colon \in Nat \ {0} /\ colon <= L
  <2>1. 1 \in Nat \ {0}
    OBVIOUS
  <2> QED BY <2>1, FindRange DEF Colon
<1> HIDE DEF L, colon
<1>4. mark \in Nat /\ mark <= L
  BY <1>1, <1>3, FindRange DEF L
<1> HIDE DEF mark
<1>5. hash \in Nat /\ hash <= L
  <2> DEFINE from == IF mark = 0 THEN colon ELSE mark + 1
  <2>1. from \in Nat \ {0}
    BY <1>3, <1>4
  <2> HIDE DEF from
  <2>2. Find(s, from, {"#"}) \in Nat /\ Find(s, from, {"#"}) <= L
    BY <1>1, <2>1, FindRange DEF L
  <2> QED BY <2>2 DEF from
<1>6. start \in Nat
  BY <1>3
<1> HIDE DEF hash, start
<1>7. sign \in Nat /\ sign <= L
  BY <1>1, <1>6, FindRange DEF L
<1>8. slash \in Nat /\ slash <= L
  BY <1>1, <1>6, FindRange DEF L
<1> HIDE DEF sign, slash
<1>9. host \in Nat /\ (start # 0 => host # 0)
  BY <1>6, <1>7
<1> HIDE DEF host
<1>10. port \in Nat /\ port <= L
  <2>1. CASE start = 0
    BY <1>1, <2>1
  <2>2. CASE start # 0
    <3> DEFINE stop == Find(s, host, {":", "?", "#"})
    <3>1. host \in Nat \ {0}
      BY <1>9, <2>2
    <3>2. stop \in Nat /\ stop <= L
      BY <1>1, <3>1, FindRange DEF L
    <3>3. PortColon(s, host) = stop \/ PortColon(s, host) = 0
      BY Zenon DEF PortColon
    <3> HIDE DEF stop
    <3> QED BY <1>1, <2>2, <3>2, <3>3
  <2> QED BY <2>1, <2>2
<1> HIDE DEF port
<1>11. CutsRange(s, c)
  BY <1>3, <1>4, <1>5, <1>6, <1>7, <1>8, <1>9, <1>10 DEF CutsRange, L
<1> QED BY <1>2, <1>11, Zenon

(* What one text sets, in the order in which FromString sets it.            *)
LEMMA SchemeTyped ==
  ASSUME NEW i \in Iris, NEW s \in Strings, NEW c, CutsRange(s, c)
  PROVE  Scheme(i, s, c) \in Iris
<1> DEFINE b == Some(Between(s, 1, c.colon))
           q == IF c.mark = 0 THEN i.query ELSE Some(Query(s, c))
           f == IF c.hash = 0 THEN i.fragment ELSE Some(UpTo(s, c.hash + 1, 0))
<1>1. Len(s) \in Nat
  BY StringsLen
<1>2. b \in FieldTexts
  <2>1. c.colon # 0 /\ c.colon \in Nat /\ c.colon <= Len(s) + 1 /\ 1 \in Nat \ {0}
    BY <1>1 DEF CutsRange
  <2>2. UpTo(s, 1, c.colon) \in Strings
    BY <2>1, UpToTyped
  <2> QED BY <2>1, <2>2, SomeTyped DEF UpTo
<1>3. q \in FieldTexts
  <2>1. c.mark + 1 \in Nat \ {0} /\ c.hash \in Nat /\ c.hash <= Len(s) + 1
    BY <1>1 DEF CutsRange
  <2>2. UpTo(s, c.mark + 1, c.hash) \in Strings
    BY <2>1, UpToTyped
  <2> QED BY <2>2, PartsTyped, SomeTyped DEF Query
<1>4. f \in FieldTexts
  <2>1. c.hash + 1 \in Nat \ {0} /\ 0 \in Nat /\ 0 <= Len(s) + 1
    BY <1>1 DEF CutsRange
  <2>2. UpTo(s, c.hash + 1, 0) \in Strings
    BY <2>1, UpToTyped
  <2> QED BY <2>2, PartsTyped, SomeTyped
<1>5. Scheme(i, s, c) = [i EXCEPT !.scheme = b, !.query = q, !.fragment = f]
  BY Zenon DEF Scheme
<1> HIDE DEF b, q, f
<1> QED BY <1>2, <1>3, <1>4, <1>5 DEF Iris

LEMMA UserTyped ==
  ASSUME NEW i \in Iris, NEW s \in Strings, NEW c, CutsRange(s, c), c.start # 0
  PROVE  User(i, s, c) \in Iris
<1> DEFINE a == Scheme(i, s, c)
           u == IF c.at = 0 THEN a.user ELSE Some(Between(s, c.start, c.at))
<1>1. a \in Iris /\ Len(s) \in Nat
  BY SchemeTyped, StringsLen
<1> HIDE DEF a
<1>2. u \in FieldTexts
  <2>1. CASE c.at = 0
    BY <1>1, <2>1, PartsTyped
  <2>2. CASE c.at # 0
    <3>1. c.start \in Nat \ {0} /\ c.at \in Nat /\ c.at <= Len(s) + 1
      BY <1>1 DEF CutsRange
    <3>2. UpTo(s, c.start, c.at) \in Strings
      BY <3>1, UpToTyped
    <3> QED BY <2>2, <3>2, SomeTyped DEF UpTo
  <2> QED BY <2>1, <2>2
<1>3. User(i, s, c) = [a EXCEPT !.user = u]
  BY Zenon DEF User, a
<1> HIDE DEF u
<1> QED BY <1>1, <1>2, <1>3 DEF Iris

LEMMA AuthorityTyped ==
  ASSUME NEW i \in Iris, NEW s \in Strings, NEW c, CutsRange(s, c), c.start # 0
  PROVE  Authority(i, s, c) \in Iris
<1> DEFINE a == User(i, s, c)
           port == IF c.port = 0 THEN a.port ELSE Number(PortDigits(s, c.port + 1))
           path == IF c.slash = 0 THEN a.path ELSE Some(Path(s, c))
           host == Some(Host(s, c))
<1>1. a \in Iris /\ Len(s) \in Nat
  BY UserTyped, StringsLen
<1> HIDE DEF a
<1>2. port \in Nat
  <2>1. c.port + 1 \in Nat \ {0}
    BY DEF CutsRange
  <2>2. Number(PortDigits(s, c.port + 1)) \in Nat
    BY <2>1, PortDigitsTyped, NumberTyped
  <2> QED BY <1>1, <2>2, PartsTyped
<1>3. path \in FieldTexts
  <2>1. CASE c.slash = 0
    BY <1>1, <2>1, PartsTyped
  <2>2. CASE c.slash # 0
    <3> DEFINE cut == Find(s, c.slash, {"?", "#"})
    <3>1. c.slash \in Nat \ {0}
      BY <2>2 DEF CutsRange
    <3>2. cut \in Nat /\ (cut # 0 => cut <= Len(s))
      BY <3>1, FindRange
    <3> HIDE DEF cut
    <3>3. cut <= Len(s) + 1
      BY <1>1, <3>2
    <3>4. UpTo(s, c.slash, cut) \in Strings
      BY <3>1, <3>2, <3>3, UpToTyped
    <3>5. Path(s, c) \in Strings
      BY <3>4, Zenon DEF Path, cut
    <3> QED BY <2>2, <3>5, SomeTyped
  <2> QED BY <2>1, <2>2
<1>4. host \in FieldTexts
  <2> DEFINE cut == IF HostEnd(c) < c.host THEN 0 ELSE HostEnd(c)
  <2>1. HostEnd(c) \in Nat /\ HostEnd(c) <= Len(s)
    BY DEF CutsRange, HostEnd
  <2>2. cut \in Nat /\ cut <= Len(s) + 1 /\ c.host \in Nat \ {0}
    BY <1>1, <2>1 DEF CutsRange
  <2> HIDE DEF cut
  <2>3. UpTo(s, c.host, cut) \in Strings
    BY <2>2, UpToTyped
  <2>4. Host(s, c) \in Strings
    BY <2>3, Zenon DEF Host, cut
  <2> QED BY <2>4, SomeTyped
<1>5. Authority(i, s, c) = [a EXCEPT !.port = port, !.path = path, !.host = host]
  BY Zenon DEF Authority, a
<1> HIDE DEF port, path, host
<1> QED BY <1>1, <1>2, <1>3, <1>4, <1>5 DEF Iris

LEMMA OpaqueTyped ==
  ASSUME NEW i \in Iris, NEW s \in Strings, NEW c, CutsRange(s, c)
  PROVE  Opaque(i, s, c) \in Iris
<1> DEFINE a == Scheme(i, s, c)
           cut == IF c.mark # 0 THEN c.mark ELSE c.hash
           path == Some(UpTo(s, c.colon + 1, cut))
<1>1. a \in Iris /\ Len(s) \in Nat
  BY SchemeTyped, StringsLen
<1> HIDE DEF a
<1>2. path \in FieldTexts
  <2>1. c.colon + 1 \in Nat \ {0} /\ cut \in Nat /\ cut <= Len(s) + 1
    BY <1>1 DEF CutsRange
  <2> HIDE DEF cut
  <2>2. UpTo(s, c.colon + 1, cut) \in Strings
    BY <2>1, UpToTyped
  <2> QED BY <2>2, SomeTyped
<1>3. Opaque(i, s, c) = [a EXCEPT !.path = path]
  BY Zenon DEF Opaque, a
<1> HIDE DEF path
<1> QED BY <1>1, <1>2, <1>3 DEF Iris

LEMMA FromStringTyped ==
  ASSUME NEW i \in Iris, NEW s \in Strings
  PROVE  FromString(i, s).iri \in Iris
<1> DEFINE c == Cuts(s)
<1>1. CASE ~SchemeOK(s)
  <2>1. FromString(i, s) = Outcome(FALSE, i)
    BY <1>1, Zenon DEF FromString
  <2> QED BY <2>1 DEF Outcome
<1>2. CASE SchemeOK(s)
  <2>1. CutsRange(s, c)
    BY <1>2, CutsAreInRange DEF SchemeOK
  <2> HIDE DEF c
  <2>2. \/ c.start = 0 /\ FromString(i, s) = Outcome(TRUE, Opaque(i, s, c))
        \/ c.start # 0 /\ FromString(i, s) = Outcome(FALSE, User(i, s, c))
        \/ c.start # 0 /\ FromString(i, s) = Outcome(TRUE, Authority(i, s, c))
    BY <1>2, Zenon DEF FromString, c
  <2>3. Opaque(i, s, c) \in Iris
    BY <2>1, OpaqueTyped
  <2>4. c.start # 0 => User(i, s, c) \in Iris /\ Authority(i, s, c) \in Iris
    BY <2>1, UserTyped, AuthorityTyped
  <2> QED BY <2>2, <2>3, <2>4 DEF Outcome
<1> QED BY <1>1, <1>2

LEMMA SetFieldTyped ==
  ASSUME NEW i \in Iris, NEW field \in DOMAIN Values, NEW value \in Values[field]
  PROVE  [i EXCEPT ![field] = value] \in Iris
<1>1. /\ field \in {"scheme", "user", "host", "port", "path", "query", "fragment"}
      /\ value \in IF field = "port" THEN Nat ELSE FieldTexts
  <2>1. field \in DOMAIN NewIri
    BY ValuesAssumption
  <2> QED BY <2>1, ValuesAssumption DEF NewIri
<1>2. CASE field = "port"
  BY <1>1, <1>2 DEF Iris
<1>3. CASE field # "port"
  BY <1>1, <1>3 DEF Iris
<1> QED BY <1>2, <1>3

(* Every step leaves an IRI with such fields, and is a step of the error    *)
(* state or leaves it alone.                                                *)
LEMMA CallsStep ==
  ASSUME iri \in Iris, [CallsNext]_<<vars, iri>>
  PROVE  iri' \in Iris /\ [Next]_vars
<1>1. CASE New
  BY <1>1, NewIriTyped DEF New
<1>2. ASSUME NEW field \in DOMAIN Values, NEW value \in Values[field], SetField(field, value)
      PROVE  iri' \in Iris /\ [Next]_vars
  BY <1>2, SetFieldTyped DEF SetField
<1>3. ASSUME NEW t \in Threads, NEW s \in Parsed, Parse(t, s)
      PROVE  iri' \in Iris /\ [Next]_vars
  <2>1. FromString(iri, s).iri \in Iris
    BY FromStringTyped, ParsedAssumption
  <2>2. iri' = FromString(iri, s).iri /\ (UNCHANGED vars \/ Set(t, FALSE))
    BY <1>3, Zenon DEF Parse
  <2> QED BY <2>1, <2>2 DEF Next
<1>4. ASSUME NEW t \in Threads, NEW quote \in BOOLEAN, Fail(t, quote)
      PROVE  iri' \in Iris /\ [Next]_vars
  BY <1>4 DEF Fail, Next
<1>5. CASE Others
  BY <1>5 DEF Others, Next
<1>6. CASE UNCHANGED <<vars, iri>>
  BY <1>6
<1> QED BY <1>1, <1>2, <1>3, <1>4, <1>5, <1>6, Zenon DEF CallsNext

(* The threads that fill in IRIs are threads of the error state: what holds *)
(* of every behaviour of ErrorState holds of theirs.                        *)
THEOREM CallsAreErrors == CallsSpec => Spec
<1>1. CallsInit => Init /\ iri \in Iris
  BY NewIriTyped DEF CallsInit
<1>2. iri \in Iris /\ [CallsNext]_<<vars, iri>> => (iri \in Iris)' /\ [Next]_vars
  BY CallsStep
<1> QED BY <1>1, <1>2, PTL DEF CallsSpec, Spec

(* What ta_iri_to_string writes fits into what it allocates.                *)
THEOREM PrintsFit == CallsSpec => []PrintFits
<1>1. CallsInit => iri \in Iris
  BY NewIriTyped DEF CallsInit
<1>2. iri \in Iris /\ [CallsNext]_<<vars, iri>> => (iri \in Iris)'
  BY CallsStep
<1>3. iri \in Iris => PrintFits
  BY Fits DEF PrintFits
<1> QED BY <1>1, <1>2, <1>3, PTL DEF CallsSpec

(* A regular IRI is read back from its text as it was.                      *)
THEOREM ReadsBackAll == CallsSpec => []ReadsBack
<1>1. CallsInit => iri \in Iris
  BY NewIriTyped DEF CallsInit
<1>2. iri \in Iris /\ [CallsNext]_<<vars, iri>> => (iri \in Iris)'
  BY CallsStep
<1>3. iri \in Iris => ReadsBack
  BY RegularReads DEF ReadsBack
<1> QED BY <1>1, <1>2, <1>3, PTL DEF CallsSpec
=============================================================================
