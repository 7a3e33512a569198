-------------------------- MODULE XmppClientProofs --------------------------
(***************************************************************************)
(* Theorems about XmppClient, for all values of its constants: the types,  *)
(* that the client owns its streams and asks only for what a stream is     *)
(* ready for; and, for applications whose callbacks do nothing but send,   *)
(* that no function on the call stack loses the memory it goes on using,   *)
(* that rules and watchers stay paired and that the client implements      *)
(* Session.                                                                *)
(***************************************************************************)
EXTENDS XmppClient, SequenceTheorems, TLAPS

(* NULL is the name of no connection.                                       *)
LEMMA ConnsAreNotNull == NULL \notin Conns /\ Conns \subseteq Nat
BY DEF NULL, Conns

-----------------------------------------------------------------------------
(* What the three ways to change the stack do to it.                        *)

LEMMA PushStack ==
  ASSUME frames \in Seq(FrameSet), NEW f \in FrameSet, Push(f)
  PROVE  /\ frames' \in Seq(FrameSet)
         /\ Len(frames') = Len(frames) + 1
         /\ frames'[Len(frames) + 1] = f
         /\ \A i \in 1..Len(frames) : frames'[i] = frames[i]
BY AppendProperties DEF Push

LEMMA PopStack ==
  ASSUME frames \in Seq(FrameSet), frames # <<>>, Pop
  PROVE  /\ frames' \in Seq(FrameSet)
         /\ Len(frames') = Len(frames) - 1
         /\ \A i \in 1..Len(frames') : frames'[i] = frames[i]
<1> DEFINE k == Len(frames) - 1
<1>1. k \in Nat
  BY EmptySeq
<1>2. \A i \in 1..k : frames[i] \in FrameSet
  BY <1>1, ElementOfSeq
<1>3. frames' = SubSeq(frames, 1, k)
  BY DEF Pop
<1> HIDE DEF k
<1>4. /\ SubSeq(frames, 1, k) \in Seq(FrameSet)
      /\ Len(SubSeq(frames, 1, k)) = IF 1 <= k THEN k - 1 + 1 ELSE 0
      /\ \A i \in 1..(k - 1 + 1) : SubSeq(frames, 1, k)[i] = frames[1 + i - 1]
  BY <1>1, <1>2, SubSeqProperties
<1>5. /\ frames' \in Seq(FrameSet) /\ Len(frames') = k
      /\ \A i \in 1..k : frames'[i] = frames[i]
  BY <1>1, <1>3, <1>4
<1> QED
  BY <1>5 DEF k

(* The frame of iks_recv becomes "parse"; the callback, if any, goes on top.*)
LEMMA TakeStack ==
  ASSUME frames \in Seq(FrameSet), frames # <<>>,
         NEW cb \in Seq(FrameSet), Take(cb)
  PROVE  /\ frames' \in Seq(FrameSet)
         /\ Len(frames') = Len(frames) + Len(cb)
         /\ \A i \in 1..(Len(frames) - 1) : frames'[i] = frames[i]
         /\ frames'[Len(frames)] = [frames[Len(frames)] EXCEPT !.fn = "parse"]
         /\ \A j \in 1..Len(cb) : frames'[Len(frames) + j] = cb[j]
<1> DEFINE n == Len(frames)
           top == [frames[n] EXCEPT !.fn = "parse"]
           base == [frames EXCEPT ![n] = top]
<1>1. n \in Nat \ {0} /\ Len(cb) \in Nat
  BY EmptySeq, LenProperties
<1>2. frames[n] \in FrameSet
  BY <1>1, ElementOfSeq
<1>3. top \in FrameSet
  BY <1>2 DEF FrameSet, Fns
<1>4. /\ base \in Seq(FrameSet) /\ Len(base) = n
      /\ \A j \in 1..n : base[j] = IF j = n THEN top ELSE frames[j]
  BY <1>1, <1>3, ExceptSeq
<1>5. frames' = base \o cb
  BY DEF Take
<1> HIDE DEF base, top
<1>6. /\ frames' \in Seq(FrameSet) /\ Len(frames') = n + Len(cb)
      /\ \A i \in 1..(n + Len(cb)) :
           frames'[i] = IF i <= n THEN base[i] ELSE cb[i - n]
  <2>1. /\ base \o cb \in Seq(FrameSet)
        /\ Len(base \o cb) = Len(base) + Len(cb)
        /\ \A i \in 1..(Len(base) + Len(cb)) :
             (base \o cb)[i] = IF i <= Len(base) THEN base[i]
                               ELSE cb[i - Len(base)]
    BY <1>4, ConcatProperties
  <2> QED
    BY <2>1, <1>4, <1>5
<1>7. frames'[n] = top
  BY <1>1, <1>4, <1>6, SMTT(30)
<1>8. \A j \in 1..Len(cb) : frames'[n + j] = cb[j]
  BY <1>1, <1>6
<1>9. \A i \in 1..(n - 1) : frames'[i] = frames[i]
  BY <1>1, <1>4, <1>6
<1> QED
  BY <1>6, <1>7, <1>8, <1>9 DEF top
-----------------------------------------------------------------------------
(* Type correctness.                                                        *)

LEMMA QueueTypes ==
  ASSUME NEW S, NEW q \in [Conns -> Seq(S)], NEW c
  PROVE  /\ \A e \in S : [q EXCEPT ![c] = Append(@, e)] \in [Conns -> Seq(S)]
         /\ \A t \in Seq(S) : [q EXCEPT ![c] = @ \o t] \in [Conns -> Seq(S)]
         /\ c \in Conns /\ q[c] # <<>> =>
              /\ Head(q[c]) \in S
              /\ [q EXCEPT ![c] = Tail(@)] \in [Conns -> Seq(S)]
<1>1. ASSUME NEW e \in S
      PROVE  [q EXCEPT ![c] = Append(@, e)] \in [Conns -> Seq(S)]
  <2>1. \A d \in Conns : Append(q[d], e) \in Seq(S)
    BY AppendProperties
  <2> QED
    BY <2>1
<1>2. ASSUME NEW t \in Seq(S)
      PROVE  [q EXCEPT ![c] = @ \o t] \in [Conns -> Seq(S)]
  <2>1. \A d \in Conns : q[d] \o t \in Seq(S)
    BY ConcatProperties
  <2> QED
    BY <2>1
<1>3. ASSUME c \in Conns, q[c] # <<>>
      PROVE  Head(q[c]) \in S /\ [q EXCEPT ![c] = Tail(@)] \in [Conns -> Seq(S)]
  <2>1. Head(q[c]) \in S /\ Tail(q[c]) \in Seq(S)
    BY <1>3, HeadTailProperties
  <2> QED
    BY <2>1
<1> QED
  BY <1>1, <1>2, <1>3

(* TypeOK alone is not inductive: a watcher's rule is named after           *)
(* client->filter, which is a filter because client->parser is a parser.    *)
TypeInv == TypeOK /\ parser = filter

LEMMA InitTypes == Init => TypeInv
<1> SUFFICES ASSUME Init PROVE TypeInv
  OBVIOUS
<1>1. NULL \notin Conns /\ 0 \in 0..MaxConnects
  BY BoundAssumption, ConnsAreNotNull
<1>2. watch \in [Watches -> WatchData]
  BY DEF Init, WatchData
<1>3. /\ frames \in Seq(FrameSet)
      /\ inbox \in [Conns -> Seq(Nodes)] /\ outbox \in [Conns -> Seq(Stanzas)]
  BY EmptySeq DEF Init
<1> QED
  BY <1>1, <1>2, <1>3 DEF Init, TypeInv, TypeOK, Phases, NULL

(* The application's calls.                                                 *)
LEMMA ApplicationTypes == TypeInv /\ Application => TypeInv'
<1> SUFFICES ASSUME TypeInv, Application PROVE TypeInv'
  OBVIOUS
<1> USE DEF client, heap, net, vars
<1>1. CASE Connect
  <2>1. made + 1 \in Conns /\ made + 1 \in 0..MaxConnects
    BY <1>1, BoundAssumption DEF Connect, TypeInv, TypeOK, Conns
  <2>2. frames' \in Seq(FrameSet)
    <3>1. Frame("connected", NULL, NoWatch) \in FrameSet
      BY DEF Frame, FrameSet, Fns, HookFns
    <3> QED
      BY <1>1, <3>1, PushStack DEF Connect, TypeInv, TypeOK
  <2>3. phase' \in [Conns -> Phases] /\ up' \subseteq Conns
    BY <1>1, <2>1 DEF Connect, TypeInv, TypeOK, Phases
  <2> QED
    BY <1>1, <2>1, <2>2, <2>3 DEF Connect, TypeInv, TypeOK
<1>2. CASE Run
  <2>1. Frame("run", NULL, NoWatch) \in FrameSet
    BY DEF Frame, FrameSet, Fns
  <2>2. frames' \in Seq(FrameSet)
    BY <1>2, <2>1, PushStack DEF Run, TypeInv, TypeOK
  <2> QED
    BY <1>2, <2>2 DEF Run, TypeInv, TypeOK
<1>3. CASE Disconnect \/ Free
  BY <1>3 DEF Disconnect, Free, DropStream, TypeInv, TypeOK
<1>4. CASE \E w \in Watches, id \in StanzaIds : SendAndFilter(w, id)
  <2> PICK w \in Watches, id \in StanzaIds : SendAndFilter(w, id)
    BY <1>4
  <2>1. filter \in Conns /\ id \in Ids
    BY ConnsAreNotNull DEF SendAndFilter, TypeInv, TypeOK, Ids
  <2>2. /\ NewWatch(id) \in WatchData
        /\ [NewWatch(id) EXCEPT !.st = "freed"] \in WatchData
    BY <2>1 DEF NewWatch, WatchData
  <2>3. CASE Undo(w, id)
    BY <2>2, <2>3 DEF SendAndFilter, Undo, TypeInv, TypeOK
  <2>4. CASE /\ watch' = [watch EXCEPT ![w] = NewWatch(id)]
             /\ rules' = [rules EXCEPT ![filter] = @ \cup {w}]
             /\ Send(parser, Stanza("stanza", id))
    <3>1. Stanza("stanza", id) \in Stanzas
      BY <2>1 DEF Stanza, Stanzas
    <3>2. outbox' \in [Conns -> Seq(Stanzas)]
      BY <2>4, <3>1, QueueTypes DEF Send, TypeInv, TypeOK
    <3> QED
      BY <2>2, <2>4, <3>2 DEF SendAndFilter, TypeInv, TypeOK
  <2> QED
    BY <2>3, <2>4 DEF SendAndFilter
<1> QED
  BY <1>1, <1>2, <1>3, <1>4 DEF Application

(* The loop, and the callbacks that return.                                 *)
LEMMA LoopTypes == TypeInv /\ (Loop \/ Return) => TypeInv'
<1> SUFFICES ASSUME TypeInv, Loop \/ Return PROVE TypeInv'
  OBVIOUS
<1> USE DEF client, heap, net, vars, TypeInv, TypeOK
<1>1. CASE Poll
  <2>1. Frame("recv", parser, NoWatch) \in FrameSet
    BY DEF Frame, FrameSet, Fns
  <2>2. frames' \in Seq(FrameSet)
    BY <1>1, <2>1, PushStack DEF Poll
  <2> QED
    BY <1>1, <2>2 DEF Poll
<1>2. CASE Pop /\ frames # <<>> /\ ~Poll
  <2>1. frames' \in Seq(FrameSet)
    BY <1>2, PopStack
  <2>2. CASE RunReturn \/ RecvOk \/ RecvError \/ HookReturn
    BY <2>1, <2>2 DEF RunReturn, RecvOk, RecvError, HookReturn
  <2>3. CASE ConnectReturn
    BY <2>1, <2>3 DEF ConnectReturn
  <2>4. CASE AnswerReturn
    <3>1. watch' \in [Watches -> WatchData]
      <4>1. \A v \in Watches : [watch[v] EXCEPT !.st = "freed"] \in WatchData
        BY DEF WatchData
      <4>2. watch' = [watch EXCEPT ![Top.w].st = "freed"]
        BY <2>4 DEF AnswerReturn, FreeWatch
      <4> QED
        BY <4>1, <4>2
    <3>2. rules' \in [Conns -> SUBSET Watches]
      BY <2>4 DEF AnswerReturn, RemoveRule
    <3> QED
      BY <2>1, <2>4, <3>1, <3>2 DEF AnswerReturn
  <2> QED
    BY <1>2, <2>2, <2>3, <2>4 DEF Loop, Return
<1> QED
  BY <1>1, <1>2 DEF Loop, Return, RunReturn, RecvOk, RecvError, ConnectReturn,
                    HookReturn, AnswerReturn, InFn

(* The stream hook.                                                         *)
LEMMA DeliverTypes == TypeInv /\ Deliver => TypeInv'
<1> SUFFICES ASSUME TypeInv, Deliver PROVE TypeInv'
  OBVIOUS
<1> USE DEF client, heap, net, vars, TypeInv, TypeOK
<1>1. ASSUME NEW kinds, Incoming(kinds)
      PROVE  /\ frames # <<>> /\ Top.obj \in Conns
             /\ Received \in Nodes
             /\ [inbox EXCEPT ![Top.obj] = Tail(@)] \in [Conns -> Seq(Nodes)]
  BY <1>1, QueueTypes DEF Incoming, InFn, Received
<1>2. ASSUME NEW cb \in Seq(FrameSet), NEW kinds, Incoming(kinds), Take(cb)
      PROVE  frames' \in Seq(FrameSet) /\ inbox' \in [Conns -> Seq(Nodes)]
  BY <1>1, <1>2, TakeStack DEF Take
<1>3. <<>> \in Seq(FrameSet) /\ \A f \in FrameSet : <<f>> \in Seq(FrameSet)
  BY EmptySeq
<1>4. CASE OnMechanisms
  <2>1. outbox' \in [Conns -> Seq(Stanzas)]
    <3>1. Stanza("md5", NoId) \in Stanzas /\ Stanza("plain", NoId) \in Stanzas
      BY DEF Stanza, Stanzas, Features
    <3> DEFINE choice == IF "md5" \in Received.offer THEN "md5" ELSE "plain"
    <3>2. Stanza(choice, NoId) \in Stanzas
      BY <3>1
    <3>3. Send(parser, Stanza(choice, NoId)) \/ UNCHANGED outbox
      BY <1>4 DEF OnMechanisms
    <3> HIDE DEF choice
    <3> QED
      <4> DEFINE s == Stanza(choice, NoId)
      <4>1. s \in Stanzas
        BY <3>2
      <4>2. CASE Send(parser, s)
        <5> HIDE DEF s
        <5> QED
          BY <4>1, <4>2, QueueTypes DEF Send
      <4> QED
        BY <3>3, <4>2
  <2> QED
    BY <1>2, <1>3, <1>4, <2>1 DEF OnMechanisms
<1>5. CASE OnSessionFeatures
  <2>1. outbox' \in [Conns -> Seq(Stanzas)]
    <3> DEFINE Ask(f) == IF f \in Received.offer THEN <<Stanza(f, NoId)>>
                                                 ELSE <<>>
    <3>1. \A f \in Features : Ask(f) \in Seq(Stanzas)
      <4> TAKE f \in Features
      <4>1. Stanza(f, NoId) \in Stanzas
        BY DEF Stanza, Stanzas
      <4>2. <<>> \in Seq(Stanzas) /\ <<Stanza(f, NoId)>> \in Seq(Stanzas)
        BY <4>1, EmptySeq
      <4> QED
        BY <4>2
    <3>2. Ask("bind") \in Seq(Stanzas) /\ Ask("session") \in Seq(Stanzas)
      BY <3>1 DEF Features
    <3>3. outbox' = [outbox EXCEPT ![parser] = @ \o Ask("bind") \o Ask("session")]
      BY <1>5 DEF OnSessionFeatures, RequestSession
    <3> HIDE DEF Ask
    <3>4. \A c \in Conns :
            outbox[c] \o Ask("bind") \o Ask("session") \in Seq(Stanzas)
      BY <3>2, ConcatProperties
    <3> QED
      BY <3>3, <3>4
  <2> QED
    BY <1>2, <1>3, <1>5, <2>1 DEF OnSessionFeatures
<1>6. CASE OnSuccess
  <2>1. outbox' \in [Conns -> Seq(Stanzas)]
    <3>1. Stanza("header", NoId) \in Stanzas
      BY DEF Stanza, Stanzas
    <3> QED
      BY <1>6, <3>1, QueueTypes DEF OnSuccess, Send
  <2> QED
    BY <1>2, <1>3, <1>6, <2>1 DEF OnSuccess
<1>7. CASE OnOutcome
  <2>1. Frame(OutcomeEvent, NULL, NoWatch) \in FrameSet
    BY DEF Frame, FrameSet, Fns, HookFns, OutcomeEvent
  <2> QED
    BY <1>1, <1>2, <1>3, <1>7, <2>1 DEF OnOutcome
<1>8. CASE \E w \in Watches : OnAnswer(w)
  <2> PICK w \in Watches : OnAnswer(w)
    BY <1>8
  <2>1. Frame("answer", filter, w) \in FrameSet
    BY DEF Frame, FrameSet, Fns
  <2> QED
    BY <1>2, <1>3, <2>1 DEF OnAnswer
<1>9. CASE OnTyped
  <2>1. Frame(Received.kind, filter, NoWatch) \in FrameSet
    BY <1>9 DEF OnTyped, Incoming, Frame, FrameSet, Fns, HookFns
  <2> QED
    BY <1>2, <1>3, <1>9, <2>1 DEF OnTyped
<1>10. CASE OnUnmatched \/ OnStreamError
  BY <1>2, <1>3, <1>10 DEF OnUnmatched, OnStreamError
<1> QED
  BY <1>4, <1>5, <1>6, <1>7, <1>8, <1>9, <1>10 DEF Deliver

(* The server and the network do not touch the client.                      *)
LEMMA ServerTypes == TypeInv /\ Server => TypeInv'
<1> SUFFICES ASSUME TypeInv, NEW c \in Conns,
                    ServerProgress(c) \/ ServerRoute(c) \/ LoseConnection(c)
             PROVE  TypeInv'
  BY DEF Server
<1> USE DEF client, heap, net, vars, TypeInv, TypeOK
<1>1. \A n \in Nodes : Reply(c, n) => inbox' \in [Conns -> Seq(Nodes)]
  BY QueueTypes DEF Reply
<1>2. ASSUME NEW kinds, Request(c, kinds)
      PROVE  outbox' \in [Conns -> Seq(Stanzas)] /\ Head(outbox[c]) \in Stanzas
  BY <1>2, QueueTypes DEF Request
<1>3. \A p \in Phases : Enter(c, p) => phase' \in [Conns -> Phases]
  BY DEF Enter
<1>4. /\ \A f \in SUBSET Features : Offer(f) \in Nodes
      /\ \A id \in Ids \cup {NoId} : Pak(id) \in Nodes
      /\ \A k \in {"success", "failure", "error", "message-received",
                   "presence-noticed"} : Node(k) \in Nodes
  BY DEF Offer, Pak, Node, Nodes
<1>5. CASE ServerOffer(c)
  BY <1>1, <1>3, <1>4, <1>5, OfferAssumption DEF ServerOffer, Phases
<1>6. CASE ServerAuth(c)
  BY <1>1, <1>2, <1>3, <1>4, <1>6 DEF ServerAuth, Phases
<1>7. CASE ServerRestart(c)
  BY <1>1, <1>2, <1>3, <1>4, <1>7, OfferAssumption DEF ServerRestart, Phases
<1>8. CASE ServerBind(c)
  BY <1>1, <1>2, <1>3, <1>4, <1>8 DEF ServerBind, Phases
<1>9. CASE ServerSession(c)
  BY <1>1, <1>2, <1>3, <1>4, <1>9 DEF ServerSession, Phases, Ids
<1>10. CASE ServerStanza(c)
  <2>1. Pak(Head(outbox[c]).id) \in Nodes
    BY <1>2, <1>4, <1>10 DEF ServerStanza, Stanzas
  <2> QED
    BY <1>1, <1>2, <1>10, <2>1 DEF ServerStanza
<1>11. CASE ServerReject(c)
  <2>1. PICK kinds : Request(c, kinds)
    BY <1>11 DEF ServerReject
  <2> QED
    BY <1>1, <1>2, <1>4, <1>11, <2>1 DEF ServerReject
<1>12. CASE ServerRoute(c)
  BY <1>1, <1>4, <1>12 DEF ServerRoute, Ids
<1>13. CASE LoseConnection(c)
  BY <1>13 DEF LoseConnection
<1> QED
  BY <1>5, <1>6, <1>7, <1>8, <1>9, <1>10, <1>11, <1>12, <1>13
     DEF ServerProgress

LEMMA StutterTypes == TypeInv /\ UNCHANGED vars => TypeInv'
BY DEF TypeInv, TypeOK, vars, client, heap, net

LEMMA TypeInvariant == Spec => []TypeInv
<1>1. TypeInv /\ [Next]_vars => TypeInv'
  BY ApplicationTypes, DeliverTypes, LoopTypes, ServerTypes, StutterTypes
     DEF Next
<1> QED
  BY <1>1, InitTypes, PTL DEF Spec

(* Every variable keeps its type, whatever the application calls from its   *)
(* callbacks.                                                               *)
THEOREM TypeCorrect == Spec => []TypeOK
<1>1. TypeInv => TypeOK
  BY DEF TypeInv
<1> QED
  BY <1>1, TypeInvariant, PTL
-----------------------------------------------------------------------------
(* Memory safety of an application whose callbacks do nothing but send, and *)
(* that runs the loop only when it has a stream.                            *)

CallbacksOnlySend == HookOps \subseteq {"filter"} /\ "run-closed" \notin AppOps

(* Such an application makes every other call with nothing on the stack.    *)
LEMMA CallsFromOutside ==
  ASSUME CallbacksOnlySend, NEW op, op # "filter", MayCall(op)
  PROVE  alive /\ frames = <<>> /\ op \in AppOps
BY DEF CallbacksOnlySend, MayCall

(* Heap and pointers unchanged, only the stack has to be looked at.         *)
LEMMA OnlyStack ==
  ASSUME IInv, UNCHANGED <<parser, filter, heap>>, StackShape', StackPinned'
  PROVE  IInv'
BY DEF IInv, heap, StreamExists, Numbered, RuleOwnsWatch, LiveWatchWaits

(* With an empty stack there is nothing to say about it.                    *)
LEMMA EmptyStack ==
  ASSUME frames = <<>>
  PROVE  StackShape /\ StackPinned
BY DEF StackShape, StackPinned

LEMMA EmptyStackNext ==
  ASSUME frames' = <<>>
  PROVE  StackShape' /\ StackPinned'
BY DEF StackShape, StackPinned

LEMMA InitSafe == Init => IInv
<1> SUFFICES ASSUME Init PROVE IInv
  OBVIOUS
<1>1. StackShape /\ StackPinned
  BY EmptyStack DEF Init
<1>2. StreamExists /\ Numbered /\ RuleOwnsWatch /\ LiveWatchWaits
  BY DEF Init, StreamExists, Numbered, RuleOwnsWatch, LiveWatchWaits, NULL
<1> QED
  BY <1>1, <1>2 DEF IInv

LEMMA RuleNumbers ==
  ASSUME TypeInv PROVE \A w \in Watches : watch[w].rule \in Nat
<1>1. \A d \in WatchData : d.rule \in Nat
  <2>1. \A d \in WatchData : d.rule \in Conns \cup {NULL}
    BY DEF WatchData
  <2>2. \A n \in Conns \cup {NULL} : n \in Nat
    BY ConnsAreNotNull DEF NULL
  <2> QED
    BY <2>1, <2>2
<1>2. \A w \in Watches : watch[w] \in WatchData
  BY DEF TypeInv, TypeOK
<1> QED
  BY <1>1, <1>2

LEMMA ConnectSafe ==
  ASSUME CallbacksOnlySend, TypeInv, IInv, Connect PROVE IInv'
<1> USE DEF TypeInv, TypeOK, IInv
<1> DEFINE c == made + 1
<1>1. alive /\ frames = <<>>
  BY CallsFromOutside DEF Connect
<1>2. c \in Conns /\ c # NULL /\ made' = c /\ parser' = c /\ filter' = c
  BY BoundAssumption DEF Connect, Conns, NULL
<1>3. StreamExists'
  BY <1>2 DEF Connect, StreamExists
<1>4. Numbered'
  <2>1. made \in Nat /\ 1..made \subseteq 1..c
    BY BoundAssumption
  <2>2. \A w \in Watches : watch[w].rule \in Nat
    BY RuleNumbers
  <2> QED
    BY <1>2, <2>1, <2>2 DEF Connect, Numbered
<1>5. RuleOwnsWatch'
  BY DEF Connect, RuleOwnsWatch
<1>6. LiveWatchWaits'
  <2>1. \A w \in Watches : watch[w].rule # c
    BY BoundAssumption DEF Numbered
  <2> QED
    BY <2>1 DEF Connect, LiveWatchWaits
<1>7. StackShape' /\ StackPinned'
  <2>1. CASE UNCHANGED frames
    BY <1>1, <2>1, EmptyStackNext
  <2>2. CASE Push(Frame("connected", NULL, NoWatch))
    <3>1. frames' = <<Frame("connected", NULL, NoWatch)>>
      BY <1>1, <2>2 DEF Push
    <3> QED
      BY <1>1, <1>2, <3>1 DEF StackShape, StackPinned, Frame, Connect
  <2> QED
    BY <2>1, <2>2 DEF Connect
<1> QED
  BY <1>3, <1>4, <1>5, <1>6, <1>7

LEMMA RunSafe ==
  ASSUME CallbacksOnlySend, TypeInv, IInv, Run PROVE IInv'
<1>1. alive /\ frames = <<>> /\ parser # NULL
  BY CallsFromOutside DEF Run, CallbacksOnlySend
<1>2. frames' = <<Frame("run", NULL, NoWatch)>>
  BY <1>1 DEF Run, Push
<1>3. StackShape' /\ StackPinned'
  BY <1>1, <1>2 DEF StackShape, StackPinned, Frame, Run
<1> QED
  BY <1>3, OnlyStack DEF Run

(* Deleting the filter takes its rules along, so no rule outlives it.       *)
LEMMA DropSafe ==
  ASSUME CallbacksOnlySend, TypeInv, IInv, Disconnect \/ Free PROVE IInv'
<1> USE DEF TypeInv, TypeOK, IInv
<1>1. frames' = <<>>
  BY CallsFromOutside DEF Disconnect, Free
<1>2. DropStream /\ UNCHANGED <<made, watch>>
  BY DEF Disconnect, Free
<1>3. StreamExists'
  BY <1>2 DEF DropStream, StreamExists
<1>4. Numbered'
  BY <1>2, BoundAssumption DEF DropStream, Numbered, NULL
<1>5. RuleOwnsWatch'
  BY <1>2 DEF DropStream, RuleOwnsWatch
<1>6. LiveWatchWaits'
  <2>1. \A w \in Watches : watch[w].rule \in filters' =>
                             watch[w].rule \in Conns /\ watch[w].rule # filter
    BY <1>2 DEF DropStream
  <2> QED
    BY <1>2, <2>1 DEF DropStream, LiveWatchWaits
<1> QED
  BY <1>1, <1>3, <1>4, <1>5, <1>6, EmptyStackNext

(* Only a watcher that is in no filter is taken, and it goes into the       *)
(* filter its rule names.                                                   *)
LEMMA SendSafe ==
  ASSUME TypeInv, IInv, NEW w \in Watches, NEW id \in StanzaIds,
         SendAndFilter(w, id)
  PROVE  IInv'
<1> USE DEF TypeInv, TypeOK, IInv
<1>1. /\ filter \in Conns /\ watch[w].st = "unused"
      /\ UNCHANGED <<alive, parser, filter, made, parsers, filters, frames>>
  BY ConnsAreNotNull DEF SendAndFilter, client
<1>2. \A c \in Conns : w \notin rules[c]
  BY <1>1 DEF RuleOwnsWatch
<1>3. /\ \A v \in Watches \ {w} : watch'[v] = watch[v]
      /\ watch'[w].rule = filter
      /\ \/ watch'[w].st = "live" /\ rules' = [rules EXCEPT ![filter] = @ \cup {w}]
         \/ watch'[w].st = "freed" /\ rules' = rules
  BY DEF SendAndFilter, Undo, NewWatch
<1>4. StackShape' /\ StackPinned'
  BY <1>1, <1>3 DEF StackShape, StackPinned
<1>5. StreamExists'
  BY <1>1 DEF StreamExists
<1>6. Numbered'
  BY <1>1, <1>3 DEF Numbered
<1>7. /\ \A c \in Conns : \A v \in rules'[c] :
           v \in rules[c] \/ (v = w /\ c = filter /\ watch'[w].st = "live")
      /\ \A c \in Conns : rules[c] \subseteq rules'[c]
      /\ watch'[w].st = "live" => w \in rules'[filter]
  <2>1. CASE rules' = rules /\ watch'[w].st = "freed"
    BY <2>1
  <2>2. CASE rules' = [rules EXCEPT ![filter] = @ \cup {w}]
               /\ watch'[w].st = "live"
    BY <1>1, <2>2
  <2> QED
    BY <1>3, <2>1, <2>2
<1>8. RuleOwnsWatch'
  <2> SUFFICES ASSUME NEW c \in Conns, NEW v \in rules'[c]
               PROVE  watch'[v].st = "live" /\ watch'[v].rule = c
    BY DEF RuleOwnsWatch
  <2>1. CASE v = w /\ c = filter /\ watch'[w].st = "live"
    BY <1>3, <2>1
  <2>2. CASE v \in rules[c]
    <3>1. v \in Watches /\ v # w
      BY <1>2, <2>2
    <3>2. watch[v].st = "live" /\ watch[v].rule = c
      BY <2>2 DEF RuleOwnsWatch
    <3> QED
      BY <1>3, <3>1, <3>2
  <2> QED
    BY <1>7, <2>1, <2>2
<1>9. LiveWatchWaits'
  BY <1>1, <1>3, <1>7 DEF LiveWatchWaits
<1> QED
  BY <1>4, <1>5, <1>6, <1>8, <1>9

(* The top of the stack tells how deep it is.                               *)
LEMMA StackCases ==
  ASSUME TypeInv, IInv, frames # <<>>
  PROVE  /\ Top \in FrameSet
         /\ Top.fn \in {"run", "connected"} => Len(frames) = 1 /\ frames[1] = Top
         /\ Top.fn \in {"recv", "parse"} =>
              Len(frames) = 2 /\ frames[2] = Top /\ frames[1].fn = "run"
         /\ Top.fn = "answer" => Len(frames) = 3 /\ frames[3] = Top
<1> DEFINE n == Len(frames)
<1>1. n \in Nat \ {0} /\ n <= 3 /\ Top = frames[n] /\ Top \in FrameSet
  BY EmptySeq, ElementOfSeq DEF IInv, StackShape, Top, TypeInv, TypeOK
<1>2. /\ n = 1 => frames[1].fn \in {"run", "connected"}
      /\ n > 1 => frames[1].fn = "run"
      /\ n = 2 => frames[2].fn \in {"recv", "parse"}
      /\ n = 3 => frames[3].fn \in (HookFns \ {"connected"}) \cup {"answer"}
  BY DEF IInv, StackShape
<1> HIDE DEF n
<1>3. n \in {1, 2, 3}
  BY <1>1
<1>4. CASE n = 1
  BY <1>1, <1>2, <1>4 DEF n
<1>5. CASE n = 2
  BY <1>1, <1>2, <1>5 DEF n
<1>6. CASE n = 3
  BY <1>1, <1>2, <1>6 DEF n, HookFns
<1> QED
  BY <1>3, <1>4, <1>5, <1>6

LEMMA PollSafe ==
  ASSUME TypeInv, IInv, Poll PROVE IInv'
<1>1. /\ frames # <<>> /\ Top.fn = "run" /\ frames \in Seq(FrameSet)
      /\ Push(Frame("recv", parser, NoWatch))
      /\ UNCHANGED <<alive, parser, filter, heap>>
  BY DEF Poll, InFn, client, TypeInv, TypeOK
<1>2. Len(frames) = 1 /\ frames[1].fn = "run"
  BY <1>1, StackCases
<1>3. /\ Len(frames') = 2 /\ frames'[1] = frames[1]
      /\ frames'[2] = Frame("recv", parser, NoWatch)
  <2>1. Frame("recv", parser, NoWatch) \in FrameSet
    BY DEF Frame, FrameSet, Fns, TypeInv, TypeOK
  <2>2. /\ Len(frames') = Len(frames) + 1
        /\ frames'[Len(frames) + 1] = Frame("recv", parser, NoWatch)
        /\ \A i \in 1..Len(frames) : frames'[i] = frames[i]
    BY <1>1, <2>1, PushStack
  <2> QED
    BY <1>2, <2>2
<1>4. frames'[2].fn = "recv" /\ frames'[2].obj = parser
  BY <1>3 DEF Frame
<1>5. StackShape'
  BY <1>2, <1>3, <1>4 DEF StackShape
<1>6. StackPinned'
  BY <1>1, <1>3, <1>4 DEF StackPinned, IInv
<1> QED
  BY <1>1, <1>5, <1>6, OnlyStack

(* A function that returns leaves what its callers hold as it was.          *)
LEMMA PopShape ==
  ASSUME TypeInv, IInv, frames # <<>>, Pop, UNCHANGED <<alive, parser, filter>>
  PROVE  StackShape' /\ StackPinned'
<1> USE DEF TypeInv, TypeOK, IInv
<1>1. /\ frames' \in Seq(FrameSet) /\ Len(frames') = Len(frames) - 1
      /\ \A i \in 1..Len(frames') : frames'[i] = frames[i]
  BY PopStack
<1>2. Len(frames) \in Nat \ {0} /\ Len(frames') \in Nat
  BY <1>1, EmptySeq
<1>3. StackShape'
  BY <1>1, <1>2 DEF StackShape
<1>4. StackPinned'
  BY <1>1, <1>2 DEF StackPinned, StackShape
<1> QED
  BY <1>3, <1>4

LEMMA ReturnSafe ==
  ASSUME TypeInv, IInv,
         RunReturn \/ RecvOk \/ RecvError \/ ConnectReturn \/ HookReturn
  PROVE  IInv'
<1> USE DEF client, heap
<1>1. StackShape' /\ StackPinned'
  BY PopShape DEF RunReturn, RecvOk, RecvError, ConnectReturn, HookReturn, InFn
<1>2. CASE RunReturn \/ RecvOk \/ RecvError \/ HookReturn
  BY <1>1, <1>2, OnlyStack DEF RunReturn, RecvOk, RecvError, HookReturn
<1>3. CASE ConnectReturn
  BY <1>1, <1>3 DEF ConnectReturn, IInv, StreamExists, Numbered,
                    RuleOwnsWatch, LiveWatchWaits
<1> QED
  BY <1>2, <1>3

(* The watcher that returns is the only one on the stack; its rule is in    *)
(* the client's filter and nowhere else, so its removal leaves no rule that *)
(* points to the watch_data about to be freed.                              *)
LEMMA AnswerReturnSafe ==
  ASSUME TypeInv, IInv, AnswerReturn PROVE IInv'
<1> DEFINE w == Top.w
<1>1. /\ frames # <<>> /\ Top.fn = "answer" /\ Pop
      /\ UNCHANGED <<alive, parser, filter, made, parsers, filters>>
      /\ RemoveRule(w) /\ FreeWatch(w)
  BY DEF AnswerReturn, InFn, client
<1>2. StackShape' /\ StackPinned'
  BY <1>1, PopShape
<1>3. Len(frames) = 3 /\ Top = frames[3]
  BY <1>1, StackCases
<1>4. w \in Watches /\ watch[w].st = "live" /\ watch[w].rule = filter
  BY <1>1, <1>3 DEF StackPinned, IInv
<1>5. filter \in Conns /\ filter # NULL
  BY <1>1, ConnsAreNotNull DEF StackPinned, IInv, TypeInv, TypeOK
<1> HIDE DEF w
<1>6. /\ \A v \in Watches \ {w} : watch'[v] = watch[v]
      /\ watch'[w].st = "freed" /\ watch'[w].rule = watch[w].rule
      /\ \A c \in Conns : rules'[c] = IF c = filter THEN rules[c] \ {w}
                                                    ELSE rules[c]
  <2>1. watch' = [watch EXCEPT ![w] = [watch[w] EXCEPT !.st = "freed"]]
    BY <1>1 DEF FreeWatch
  <2>2. watch \in [Watches -> WatchData] /\ watch[w] \in WatchData
    BY <1>4 DEF TypeInv, TypeOK
  <2>3. /\ [watch[w] EXCEPT !.st = "freed"].st = "freed"
        /\ [watch[w] EXCEPT !.st = "freed"].rule = watch[w].rule
    BY <2>2 DEF WatchData
  <2>4. watch[w].rule # NULL
    BY <1>4, <1>5
  <2> QED
    BY <1>1, <1>4, <2>1, <2>2, <2>3, <2>4 DEF RemoveRule
<1>7. StreamExists' /\ Numbered'
  BY <1>1, <1>6 DEF IInv, StreamExists, Numbered
<1>8. RuleOwnsWatch'
  <2> SUFFICES ASSUME NEW c \in Conns, NEW v \in rules'[c]
               PROVE  watch'[v].st = "live" /\ watch'[v].rule = c
    BY DEF RuleOwnsWatch
  <2>1. v \in rules[c] /\ v \in Watches
    BY <1>6 DEF TypeInv, TypeOK
  <2>2. watch[v].st = "live" /\ watch[v].rule = c
    BY <2>1 DEF IInv, RuleOwnsWatch
  <2>3. v # w
    BY <1>4, <1>6, <2>2
  <2> QED
    BY <1>6, <2>1, <2>2, <2>3
<1>9. LiveWatchWaits'
  <2> SUFFICES ASSUME NEW v \in Watches, watch'[v].st = "live",
                      watch'[v].rule \in filters
               PROVE  v \in rules'[watch'[v].rule]
    BY <1>1 DEF LiveWatchWaits
  <2>1. v # w /\ watch'[v] = watch[v]
    BY <1>6
  <2>2. watch[v].rule \in Conns /\ v \in rules[watch[v].rule]
    BY <2>1 DEF IInv, LiveWatchWaits, TypeInv, TypeOK
  <2> QED
    BY <1>6, <2>1, <2>2
<1> QED
  BY <1>2, <1>7, <1>8, <1>9 DEF IInv

(* A node that is handed over adds at most one callback to the stack; a     *)
(* watcher is called through a rule, so it is live and its rule is in the   *)
(* client's filter.                                                         *)
LEMMA TakeStackHere ==
  ASSUME TypeInv, IInv, NEW kinds, Incoming(kinds),
         NEW cb \in Seq(FrameSet), Take(cb)
  PROVE  /\ Len(frames') = 2 + Len(cb)
         /\ frames'[1].fn = "run" /\ frames' # <<>>
         /\ frames'[2].fn = "parse" /\ frames'[2].obj = parser
         /\ \A j \in 1..Len(cb) : frames'[2 + j] = cb[j]
<1>1. /\ frames # <<>> /\ Top.fn \in {"recv", "parse"}
      /\ frames \in Seq(FrameSet)
  BY DEF Incoming, InFn, TypeInv, TypeOK
<1>2. /\ Len(frames) = 2 /\ frames[1].fn = "run"
      /\ frames[2] \in FrameSet /\ frames[2].obj = parser
  BY <1>1, StackCases DEF IInv, StackPinned
<1>3. /\ frames' \in Seq(FrameSet)
      /\ Len(frames') = Len(frames) + Len(cb)
      /\ \A i \in 1..(Len(frames) - 1) : frames'[i] = frames[i]
      /\ frames'[Len(frames)] = [frames[Len(frames)] EXCEPT !.fn = "parse"]
      /\ \A j \in 1..Len(cb) : frames'[Len(frames) + j] = cb[j]
  BY <1>1, TakeStack
<1>4. frames'[2] = [frames[2] EXCEPT !.fn = "parse"] /\ frames'[1] = frames[1]
  BY <1>2, <1>3
<1>5. frames'[2].fn = "parse" /\ frames'[2].obj = parser
  BY <1>2, <1>4 DEF FrameSet
<1>6. Len(cb) \in Nat
  BY LenProperties
<1> QED
  BY <1>2, <1>3, <1>4, <1>5, <1>6, EmptySeq

LEMMA TakeNothingSafe ==
  ASSUME TypeInv, IInv, NEW kinds, Incoming(kinds), Take(<<>>),
         UNCHANGED <<alive, parser, filter, heap>>
  PROVE  IInv'
<1> DEFINE cb == <<>>
<1>1. cb \in Seq(FrameSet) /\ Len(cb) = 0 /\ Take(cb)
  BY EmptySeq
<1> HIDE DEF cb
<1>2. /\ Len(frames') = 2 /\ frames' # <<>> /\ frames'[1].fn = "run"
      /\ frames'[2].fn = "parse" /\ frames'[2].obj = parser
  <2>1. /\ Len(frames') = 2 + Len(cb)
        /\ frames'[1].fn = "run" /\ frames' # <<>>
        /\ frames'[2].fn = "parse" /\ frames'[2].obj = parser
        /\ \A j \in 1..Len(cb) : frames'[2 + j] = cb[j]
    BY <1>1, TakeStackHere
  <2> QED
    BY <1>1, <2>1
<1>3. alive /\ parser # NULL
  BY DEF Incoming, InFn, IInv, StackPinned
<1>4. StackShape'
  BY <1>2 DEF StackShape
<1>5. StackPinned'
  BY <1>2, <1>3 DEF StackPinned
<1> QED
  BY <1>4, <1>5, OnlyStack

LEMMA TakeCallbackSafe ==
  ASSUME TypeInv, IInv, NEW kinds, Incoming(kinds),
         NEW f \in FrameSet, Take(<<f>>),
         UNCHANGED <<alive, parser, filter, heap>>,
         f.fn \in (HookFns \ {"connected"}) \cup {"answer"},
         f.fn = "answer" => /\ f.w \in Watches /\ watch[f.w].st = "live"
                            /\ watch[f.w].rule = filter
  PROVE  IInv'
<1> DEFINE cb == <<f>>
<1>1. cb \in Seq(FrameSet) /\ Len(cb) = 1 /\ cb[1] = f /\ Take(cb)
  OBVIOUS
<1> HIDE DEF cb
<1>2. /\ Len(frames') = 3 /\ frames' # <<>> /\ frames'[1].fn = "run"
      /\ frames'[2].fn = "parse" /\ frames'[2].obj = parser
      /\ frames'[3] = f
  <2>1. /\ Len(frames') = 2 + Len(cb)
        /\ frames'[1].fn = "run" /\ frames' # <<>>
        /\ frames'[2].fn = "parse" /\ frames'[2].obj = parser
        /\ \A j \in 1..Len(cb) : frames'[2 + j] = cb[j]
    BY <1>1, TakeStackHere
  <2>2. frames'[2 + 1] = cb[1] /\ 2 + 1 = 3
    BY <1>1, <2>1
  <2> QED
    BY <1>1, <2>1, <2>2
<1>3. alive /\ parser # NULL
  BY DEF Incoming, InFn, IInv, StackPinned
<1>4. StackShape'
  BY <1>2 DEF StackShape
<1>5. StackPinned'
  BY <1>2, <1>3 DEF StackPinned, heap
<1> QED
  BY <1>4, <1>5, OnlyStack

LEMMA DeliverSafe ==
  ASSUME TypeInv, IInv, Deliver PROVE IInv'
<1> USE DEF client
<1>1. CASE \/ OnMechanisms \/ OnSessionFeatures \/ OnSuccess \/ OnUnmatched
           \/ OnStreamError
  BY <1>1, TakeNothingSafe DEF OnMechanisms, OnSessionFeatures, OnSuccess,
                               OnUnmatched, OnStreamError
<1>2. CASE OnOutcome
  <2>1. /\ Frame(OutcomeEvent, NULL, NoWatch) \in FrameSet
        /\ Frame(OutcomeEvent, NULL, NoWatch).fn \in
             HookFns \ {"connected"}
        /\ Frame(OutcomeEvent, NULL, NoWatch).fn # "answer"
    BY DEF Frame, FrameSet, Fns, HookFns, OutcomeEvent
  <2> QED
    BY <1>2, <2>1, TakeCallbackSafe DEF OnOutcome
<1>3. CASE OnTyped
  <2>1. Received.kind \in {"message-received", "presence-noticed"}
    BY <1>3 DEF OnTyped, Incoming
  <2> DEFINE f == Frame(Received.kind, filter, NoWatch)
  <2>2. f \in FrameSet /\ f.fn \in HookFns \ {"connected"} /\ f.fn # "answer"
    BY <2>1 DEF Frame, FrameSet, Fns, HookFns, TypeInv, TypeOK
  <2>3. Take(<<f>>)
    BY <1>3 DEF OnTyped
  <2> HIDE DEF f
  <2> QED
    BY <1>3, <2>2, <2>3, TakeCallbackSafe DEF OnTyped
<1>4. CASE \E w \in Watches : OnAnswer(w)
  <2> PICK w \in Watches : OnAnswer(w)
    BY <1>4
  <2> DEFINE f == Frame("answer", filter, w)
  <2>1. f \in FrameSet /\ f.fn = "answer" /\ f.w = w
    BY DEF Frame, FrameSet, Fns, TypeInv, TypeOK
  <2>2. watch[w].st = "live" /\ watch[w].rule = filter
    <3>1. filter \in Conns /\ w \in rules[filter]
      BY DEF OnAnswer, Answered, TypeInv, TypeOK
    <3> QED
      BY <3>1 DEF IInv, RuleOwnsWatch
  <2>3. Take(<<f>>)
    BY DEF OnAnswer
  <2> HIDE DEF f
  <2> QED
    BY <2>1, <2>2, <2>3, TakeCallbackSafe DEF OnAnswer
<1> QED
  BY <1>1, <1>2, <1>3, <1>4 DEF Deliver

LEMMA ServerSafe ==
  ASSUME IInv, Server \/ UNCHANGED vars PROVE IInv'
<1>1. UNCHANGED <<alive, parser, filter, heap, frames>>
  BY DEF Server, ServerProgress, ServerOffer, ServerAuth, ServerRestart,
         ServerBind, ServerSession, ServerStanza, ServerReject, ServerRoute,
         LoseConnection, client, vars
<1>2. StackShape'
  BY <1>1 DEF IInv, StackShape
<1>3. StackPinned'
  BY <1>1 DEF IInv, StackPinned, heap
<1> QED
  BY <1>1, <1>2, <1>3, OnlyStack

LEMMA SafeInvariant ==
  ASSUME CallbacksOnlySend PROVE Spec => [](TypeInv /\ IInv)
<1>1. TypeInv /\ IInv /\ [Next]_vars => IInv'
  <2> SUFFICES ASSUME TypeInv, IInv, [Next]_vars PROVE IInv'
    OBVIOUS
  <2>1. CASE Application
    BY <2>1, ConnectSafe, RunSafe, DropSafe, SendSafe DEF Application
  <2>2. CASE Deliver
    BY <2>2, DeliverSafe
  <2>3. CASE Loop \/ Return
    BY <2>3, PollSafe, ReturnSafe, AnswerReturnSafe DEF Loop, Return
  <2>4. CASE Server \/ UNCHANGED vars
    BY <2>4, ServerSafe
  <2> QED
    BY <2>1, <2>2, <2>3, <2>4 DEF Next
<1> QED
  BY <1>1, InitSafe, TypeInvariant, PTL DEF Spec

(* No call returns into freed memory: what FramesLive asks of each frame    *)
(* follows from where the frames are and whose they are.                    *)
THEOREM NoUseAfterFree ==
  ASSUME CallbacksOnlySend PROVE Spec => []FramesLive
<1>1. TypeInv /\ IInv => FramesLive
  <2> SUFFICES ASSUME TypeInv, IInv, NEW i \in DOMAIN frames
               PROVE  alive /\ FrameLive(frames[i])
    BY DEF FramesLive
  <2> DEFINE n == Len(frames)
  <2>1. /\ i \in 1..n /\ n \in Nat /\ n <= 3 /\ frames # <<>>
    BY LenProperties, EmptySeq DEF TypeInv, TypeOK, IInv, StackShape
  <2>2. /\ alive /\ parser \in parsers /\ filter \in filters
        /\ n > 1 => frames[2].obj = parser
        /\ n = 3 /\ frames[3].fn = "answer" =>
             frames[3].w \in Watches /\ watch[frames[3].w].st = "live"
    BY <2>1 DEF IInv, StackPinned, StreamExists
  <2>3. /\ n = 1 => frames[1].fn \in {"run", "connected"}
        /\ n > 1 => frames[1].fn = "run"
        /\ n = 2 => frames[2].fn \in {"recv", "parse"}
        /\ n = 3 => /\ frames[2].fn = "parse"
                    /\ frames[3].fn \in (HookFns \ {"connected"}) \cup {"answer"}
    BY DEF IInv, StackShape
  <2> HIDE DEF n
  <2>4. CASE i = 1
    BY <2>1, <2>2, <2>3, <2>4 DEF FrameLive
  <2>5. CASE i = 2
    <3>1. n \in {2, 3}
      BY <2>1, <2>5
    <3> QED
      BY <2>2, <2>3, <2>5, <3>1 DEF FrameLive
  <2>6. CASE i = 3
    <3>1. n = 3
      BY <2>1, <2>6
    <3> QED
      BY <2>2, <2>3, <2>6, <3>1 DEF FrameLive, HookFns
  <2> QED
    BY <2>1, <2>4, <2>5, <2>6
<1> QED
  BY <1>1, SafeInvariant, PTL

(* Every rule points to a live watcher that knows it (xmpp.c:474-478), and  *)
(* a watcher that was not freed still has its rule (186-190).               *)
THEOREM RulesAndWatches == ASSUME CallbacksOnlySend PROVE Spec => []RulesMatchWatches
<1>1. IInv => RulesMatchWatches
  BY DEF IInv, RulesMatchWatches
<1> QED
  BY <1>1, SafeInvariant, PTL

-----------------------------------------------------------------------------
(* An application that never connects over a stream it has leaks none,      *)
(* whatever its callbacks do otherwise.                                     *)

NeverReconnects == "reconnect" \notin AppOps \cup HookOps

THEOREM StreamsAreOwned ==
  ASSUME NeverReconnects PROVE Spec => []OneStream
<1>1. Init => OneStream
  BY DEF Init, OneStream
<1>2. ASSUME TypeInv, OneStream, [Next]_vars PROVE OneStream'
  <2> USE DEF client, heap, net, vars
  <2>1. CASE Connect
    <3>1. parser = NULL /\ filter = NULL /\ parsers = {} /\ filters = {}
      BY <1>2, <2>1 DEF Connect, MayCall, NeverReconnects, OneStream
    <3>2. made + 1 # NULL
      BY <1>2, BoundAssumption DEF TypeInv, TypeOK, NULL
    <3> QED
      BY <2>1, <3>1, <3>2 DEF Connect, OneStream
  <2>2. CASE Disconnect \/ Free
    BY <1>2, <2>2 DEF Disconnect, Free, DropStream, OneStream
  <2>3. CASE UNCHANGED <<parser, filter, parsers, filters>>
    BY <1>2, <2>3 DEF OneStream
  <2>4. CASE Run \/ \E w \in Watches, id \in StanzaIds : SendAndFilter(w, id)
    BY <2>3, <2>4 DEF Run, SendAndFilter
  <2>5. CASE Loop \/ Return
    BY <2>3, <2>5 DEF Loop, Return, Poll, RunReturn, RecvOk, RecvError,
                      ConnectReturn, HookReturn, AnswerReturn
  <2>6. CASE Deliver
    BY <2>3, <2>6 DEF Deliver, OnMechanisms, OnSessionFeatures, OnSuccess,
                      OnOutcome, OnAnswer, OnTyped, OnUnmatched, OnStreamError
  <2>7. CASE Server
    BY <2>3, <2>7 DEF Server, ServerProgress, ServerOffer, ServerAuth,
         ServerRestart, ServerBind, ServerSession, ServerStanza, ServerReject,
         ServerRoute, LoseConnection
  <2> QED
    BY <1>2, <2>1, <2>2, <2>3, <2>4, <2>5, <2>6, <2>7 DEF Next, Application
<1> QED
  BY <1>1, <1>2, TypeInvariant, PTL DEF Spec
-----------------------------------------------------------------------------
(* What the client asks for fits the phase of the stream.  The client keeps *)
(* no phase, only the flag `authenticated', and takes every <features> and  *)
(* <success> as it comes; that it asks for the right thing at the right     *)
(* time follows from what may be on its way in either direction in each     *)
(* phase, and from what the flag says of it.                                *)

Early == {"closed", "open", "offered"}
Served == {"ready", "bound", "session"}
Mechanisms == {"md5", "plain"}
Later == {"bind", "session"}

No(q, kinds) == \A i \in DOMAIN q : q[i].kind \notin kinds
AtMostOne(q, kinds) ==
  \A i, j \in DOMAIN q : q[i].kind \in kinds /\ q[j].kind \in kinds => i = j

(* The queues of a stream in phase ph: while a mechanism is awaited, either *)
(* the one offer is on its way or the one choice, or neither any more.      *)
Fits(ph, in, out) ==
  /\ ph # "offered" => No(out, Mechanisms)
  /\ ph = "offered" => /\ AtMostOne(in, {"features"}) /\ AtMostOne(out, Mechanisms)
                       /\ No(in, {"features"}) \/ No(out, Mechanisms)
  /\ ph \in {"closed", "open", "accepted"} => No(in, {"features"})
  /\ ph \in Early => No(in, {"success"}) /\ No(out, {"header"})
  /\ ph \notin Served => No(out, Later)

(* The flag of the client, on its own stream.                               *)
Knows(ph, out, auth) ==
  /\ ph \in Early => ~auth
  /\ ph = "accepted" => auth \/ No(out, {"header"})
  /\ ph \in Served => auth

FitInv ==
  /\ \A c \in Conns :
       /\ Fits(phase[c], inbox[c], outbox[c])
       /\ parser = c => Knows(phase[c], outbox[c], authenticated)
       /\ c > made => phase[c] = "closed"
  /\ made = 0 => ~authenticated

(* Nodes and stanzas that are queued or taken.                              *)
LEMMA QueueGrows ==
  ASSUME NEW S, NEW q \in Seq(S), NEW e \in S, NEW kinds
  PROVE  /\ No(q, kinds) /\ e.kind \notin kinds => No(Append(q, e), kinds)
         /\ AtMostOne(q, kinds) /\ e.kind \notin kinds => AtMostOne(Append(q, e), kinds)
         /\ No(q, kinds) => AtMostOne(Append(q, e), kinds)
<1>1. /\ Len(Append(q, e)) = Len(q) + 1 /\ DOMAIN Append(q, e) = 1..Len(q) + 1
      /\ DOMAIN q = 1..Len(q) /\ Len(q) \in Nat
      /\ Append(q, e)[Len(q) + 1] = e
      /\ \A i \in 1..Len(q) : Append(q, e)[i] = q[i]
  BY AppendProperties
<1> DEFINE n == Len(q)
           a == Append(q, e)
<1>2. \A i \in DOMAIN a : \/ i \in DOMAIN q /\ a[i] = q[i]
                          \/ i = n + 1 /\ a[i] = e
  BY <1>1
<1> HIDE DEF a, n
<1>3. No(q, kinds) /\ e.kind \notin kinds => No(a, kinds)
  BY <1>2 DEF No
<1>4. AtMostOne(q, kinds) /\ e.kind \notin kinds => AtMostOne(a, kinds)
  BY <1>2 DEF AtMostOne
<1>5. No(q, kinds) => AtMostOne(a, kinds)
  BY <1>2 DEF AtMostOne, No
<1> QED BY <1>3, <1>4, <1>5 DEF a

LEMMA QueueShrinks ==
  ASSUME NEW S, NEW q \in Seq(S), q # <<>>, NEW kinds
  PROVE  /\ No(q, kinds) => No(Tail(q), kinds)
         /\ AtMostOne(q, kinds) => AtMostOne(Tail(q), kinds)
         /\ AtMostOne(q, kinds) /\ Head(q).kind \in kinds => No(Tail(q), kinds)
         /\ Head(q).kind \in kinds => ~No(q, kinds)
<1> DEFINE t == Tail(q)
<1>1. /\ DOMAIN q = 1..Len(q) /\ Len(q) \in Nat /\ Len(q) # 0
      /\ DOMAIN t = 1..Len(q) - 1 /\ Head(q) = q[1]
      /\ \A i \in DOMAIN t : t[i] = q[i + 1]
  BY HeadTailProperties, EmptySeq
<1> HIDE DEF t
<1>2. \A i \in DOMAIN t : i + 1 \in DOMAIN q /\ i + 1 # 1 /\ i \in Int /\ t[i] = q[i + 1]
  BY <1>1
<1>3. 1 \in DOMAIN q
  BY <1>1
<1>4. No(q, kinds) => No(t, kinds)
  BY <1>2 DEF No
<1>5. AtMostOne(q, kinds) => AtMostOne(t, kinds)
  <2> SUFFICES ASSUME AtMostOne(q, kinds), NEW i \in DOMAIN t, NEW j \in DOMAIN t,
                      t[i].kind \in kinds, t[j].kind \in kinds
               PROVE  i = j
    BY DEF AtMostOne
  <2>1. i + 1 = j + 1
    BY <1>2 DEF AtMostOne
  <2> QED BY <1>2, <2>1
<1>6. AtMostOne(q, kinds) /\ Head(q).kind \in kinds => No(t, kinds)
  BY <1>1, <1>2, <1>3 DEF AtMostOne, No
<1>7. Head(q).kind \in kinds => ~No(q, kinds)
  BY <1>1, <1>3 DEF No
<1> QED BY <1>4, <1>5, <1>6, <1>7 DEF t

(* Most of what is queued or taken changes nothing.                         *)
LEMMA FitsShrinks ==
  ASSUME NEW ph \in Phases, NEW in \in Seq(Nodes), NEW out \in Seq(Stanzas), NEW auth, Fits(ph, in, out)
  PROVE  /\ in # <<>> => Fits(ph, Tail(in), out)
         /\ out # <<>> => Fits(ph, in, Tail(out))
         /\ out # <<>> /\ Knows(ph, out, auth) => Knows(ph, Tail(out), auth)
BY QueueShrinks DEF Fits, Knows

LEMMA FitsGrows ==
  ASSUME NEW ph \in Phases, NEW in \in Seq(Nodes), NEW out \in Seq(Stanzas), NEW auth, Fits(ph, in, out)
  PROVE  /\ \A n \in Nodes : n.kind \notin {"features", "success"}
                               => Fits(ph, Append(in, n), out)
         /\ \A s \in Stanzas : s.kind = "stanza" =>
              /\ Fits(ph, in, Append(out, s))
              /\ Knows(ph, out, auth) => Knows(ph, Append(out, s), auth)
BY QueueGrows DEF Fits, Knows, Mechanisms, Later

(* The client's own stanzas.                                                *)
LEMMA FitsMechanism ==
  ASSUME NEW ph \in Phases, NEW in \in Seq(Nodes), NEW out \in Seq(Stanzas),
         Fits(ph, in, out), Knows(ph, out, FALSE),
         in # <<>>, Head(in).kind = "features",
         NEW s \in Stanzas, s.kind \in Mechanisms
  PROVE  Fits(ph, Tail(in), Append(out, s)) /\ Knows(ph, Append(out, s), FALSE)
<1>1. ~No(in, {"features"})
  BY QueueShrinks
<1>2. ph = "offered"
  BY <1>1 DEF Fits, Knows, Early, Served, Phases
<1>3. No(out, Mechanisms) /\ No(Tail(in), {"features"}) /\ No(Tail(in), {"success"})
  BY <1>1, <1>2, QueueShrinks DEF Fits, Early
<1>4. /\ AtMostOne(Append(out, s), Mechanisms) /\ AtMostOne(Tail(in), {"features"})
      /\ No(Append(out, s), {"header"}) /\ No(Append(out, s), Later)
  BY <1>2, <1>3, QueueGrows DEF Fits, Early, Served, Mechanisms, Later, AtMostOne, No
<1> QED BY <1>2, <1>3, <1>4 DEF Fits, Knows, Early, Served

LEMMA FitsSuccess ==
  ASSUME NEW ph \in Phases, NEW in \in Seq(Nodes), NEW out \in Seq(Stanzas),
         Fits(ph, in, out), in # <<>>, Head(in).kind = "success",
         NEW s \in Stanzas, s.kind = "header"
  PROVE  /\ ph \notin Early
         /\ Fits(ph, Tail(in), Append(out, s)) /\ Knows(ph, Append(out, s), TRUE)
<1>1. ph \notin Early
  BY QueueShrinks DEF Fits
<1>2. /\ No(out, Mechanisms) => No(Append(out, s), Mechanisms)
      /\ No(out, Later) => No(Append(out, s), Later)
  BY QueueGrows DEF Mechanisms, Later
<1>3. Fits(ph, Tail(in), out)
  BY FitsShrinks
<1> QED BY <1>1, <1>2, <1>3 DEF Fits, Knows, Early

LEMMA FitsSession ==
  ASSUME NEW ph \in Phases, NEW in \in Seq(Nodes), NEW out \in Seq(Stanzas),
         Fits(ph, in, out), Knows(ph, out, TRUE),
         in # <<>>, Head(in).kind = "features",
         NEW r \in Seq(Stanzas), No(r, Mechanisms)
  PROVE  Fits(ph, Tail(in), out \o r) /\ Knows(ph, out \o r, TRUE)
<1>1. ph \in Served
  BY QueueShrinks DEF Fits, Knows, Early, Served, Phases
<1>2. No(out, Mechanisms)
  BY <1>1 DEF Fits, Served
<1>3. No(out \o r, Mechanisms)
  <2> DEFINE both == out \o r
  <2>1. /\ Len(both) = Len(out) + Len(r) /\ DOMAIN both = 1..Len(out) + Len(r)
        /\ Len(out) \in Nat /\ Len(r) \in Nat
        /\ DOMAIN out = 1..Len(out) /\ DOMAIN r = 1..Len(r)
        /\ \A i \in 1..Len(out) + Len(r) :
             both[i] = IF i <= Len(out) THEN out[i] ELSE r[i - Len(out)]
    BY ConcatProperties
  <2> HIDE DEF both
  <2>2. ASSUME NEW i \in DOMAIN both PROVE both[i].kind \notin Mechanisms
    <3>1. \/ i \in DOMAIN out /\ both[i] = out[i]
          \/ i - Len(out) \in DOMAIN r /\ both[i] = r[i - Len(out)]
      BY <2>1
    <3> QED BY <1>2, <3>1 DEF No
  <2> QED BY <2>2 DEF No, both
<1> QED BY <1>1, <1>3 DEF Fits, Knows, Early, Served

(* What a step of one stream has to do.                                     *)
StreamFits(c) ==
  /\ phase \in [Conns -> Phases] /\ inbox \in [Conns -> Seq(Nodes)]
  /\ outbox \in [Conns -> Seq(Stanzas)] /\ c \in Conns
  /\ Fits(phase[c], inbox[c], outbox[c])
FitsAfter(c) ==
  /\ Fits(phase'[c], inbox'[c], outbox'[c])
  /\ Knows(phase[c], outbox[c], authenticated)
       => Knows(phase'[c], outbox'[c], authenticated)
  /\ phase[c] = "closed" => phase'[c] = "closed"
  /\ \A d \in Conns \ {c} :
       phase'[d] = phase[d] /\ inbox'[d] = inbox[d] /\ outbox'[d] = outbox[d]

LEMMA ReplyFits ==
  ASSUME NEW c, StreamFits(c), NEW n \in Nodes, n.kind \notin {"features", "success"},
         NEW out \in Seq(Stanzas), Fits(phase[c], inbox[c], out)
  PROVE  Fits(phase[c], Append(inbox[c], n), out)
BY FitsGrows DEF StreamFits

LEMMA ServerFits ==
  ASSUME NEW c, StreamFits(c), ServerProgress(c) \/ ServerRoute(c) \/ LoseConnection(c)
  PROVE  FitsAfter(c)
<1> DEFINE ph == phase[c]
           in == inbox[c]
           out == outbox[c]
<1>0. /\ ph \in Phases /\ in \in Seq(Nodes) /\ out \in Seq(Stanzas) /\ Fits(ph, in, out)
      /\ phase \in [Conns -> Phases] /\ inbox \in [Conns -> Seq(Nodes)]
      /\ outbox \in [Conns -> Seq(Stanzas)] /\ c \in Conns
  BY DEF StreamFits
<1>1. \A n : Reply(c, n) =>
        inbox'[c] = Append(in, n) /\ \A d \in Conns \ {c} : inbox'[d] = inbox[d]
  BY <1>0 DEF Reply
<1>2. ASSUME NEW kinds, Request(c, kinds)
      PROVE  /\ out # <<>> /\ outbox'[c] = Tail(out) /\ Head(out).kind \in kinds
             /\ \A d \in Conns \ {c} : outbox'[d] = outbox[d]
             /\ Tail(out) \in Seq(Stanzas) /\ Head(out) \in Stanzas
  <2>1. out # <<>> /\ Head(out).kind \in kinds /\ outbox' = [outbox EXCEPT ![c] = Tail(@)]
    BY <1>2 DEF Request
  <2>2. Tail(out) \in Seq(Stanzas) /\ Head(out) \in Stanzas
    BY <1>0, <2>1, HeadTailProperties
  <2> QED BY <1>0, <2>1, <2>2
<1>3. \A p : Enter(c, p) => phase'[c] = p /\ \A d \in Conns \ {c} : phase'[d] = phase[d]
  BY <1>0 DEF Enter
<1>4. /\ \A f \in SUBSET Features : Offer(f) \in Nodes /\ Offer(f).kind = "features"
      /\ \A id \in Ids \cup {NoId} : Pak(id) \in Nodes /\ Pak(id).kind = "pak"
      /\ \A k \in {"success", "failure", "error", "message-received", "presence-noticed"} :
           Node(k) \in Nodes /\ Node(k).kind = k
  BY DEF Offer, Pak, Node, Nodes
<1> HIDE DEF ph, in, out
<1>5. CASE ServerOffer(c)
  <2>1. PICK offer \in SaslOffers : Reply(c, Offer(offer))
    BY <1>5 DEF ServerOffer
  <2>2. Offer(offer) \in Nodes /\ Offer(offer).kind = "features"
    BY <1>4, OfferAssumption
  <2>3. ph = "open" /\ phase'[c] = "offered" /\ outbox' = outbox
        /\ inbox'[c] = Append(in, Offer(offer))
        /\ \A d \in Conns \ {c} : inbox'[d] = inbox[d] /\ phase'[d] = phase[d]
    BY <1>1, <1>3, <1>5, <2>1 DEF ServerOffer, ph
  <2>4. Fits("offered", Append(in, Offer(offer)), out)
    BY <1>0, <2>2, <2>3, QueueGrows DEF Fits, Early, Served, Mechanisms, AtMostOne, No
  <2> QED BY <2>3, <2>4 DEF FitsAfter, Knows, Early, Served, ph, in, out
<1>6. CASE ServerAuth(c)
  <2>1. /\ ph = "offered" /\ out # <<>> /\ outbox'[c] = Tail(out)
        /\ Head(out).kind \in Mechanisms /\ Tail(out) \in Seq(Stanzas)
        /\ \A d \in Conns \ {c} : outbox'[d] = outbox[d]
    BY <1>2, <1>6 DEF ServerAuth, ph, Mechanisms
  <2>2. No(Tail(out), Mechanisms) /\ No(in, {"features"}) /\ Fits(ph, in, Tail(out))
        /\ No(Tail(out), {"header"})
    BY <1>0, <2>1, QueueShrinks DEF Fits, Early
  <2>3. CASE Reply(c, Node("success")) /\ Enter(c, "accepted")
    <3>1. No(Append(in, Node("success")), {"features"})
      BY <1>0, <1>4, <2>2, QueueGrows
    <3>2. Fits("accepted", Append(in, Node("success")), Tail(out))
      BY <2>1, <2>2, <3>1 DEF Fits, Early, Served
    <3>3. phase'[c] = "accepted" /\ inbox'[c] = Append(in, Node("success"))
          /\ \A d \in Conns \ {c} : inbox'[d] = inbox[d] /\ phase'[d] = phase[d]
      BY <1>1, <1>3, <2>3
    <3> QED BY <2>1, <2>2, <3>2, <3>3 DEF FitsAfter, Knows, Early, Served, ph, in, out
  <2>4. CASE Reply(c, Node("failure")) /\ UNCHANGED phase
    <3>1. Fits(ph, Append(in, Node("failure")), Tail(out))
      BY <1>0, <1>4, <2>1, <2>2, FitsGrows
    <3> QED BY <1>1, <2>1, <2>4, <3>1 DEF FitsAfter, Knows, Early, Served, ph, in, out
  <2> QED BY <1>6, <2>3, <2>4 DEF ServerAuth
<1>7. CASE ServerRestart(c)
  <2>1. /\ ph = "accepted" /\ out # <<>> /\ outbox'[c] = Tail(out)
        /\ Head(out).kind \in {"header"} /\ Tail(out) \in Seq(Stanzas)
        /\ \A d \in Conns \ {c} : outbox'[d] = outbox[d]
    BY <1>2, <1>7 DEF ServerRestart, ph
  <2>2. PICK offer \in SessionOffers : Reply(c, Offer(offer))
    BY <1>7 DEF ServerRestart
  <2>3. /\ phase'[c] = "ready" /\ inbox'[c] = Append(in, Offer(offer))
        /\ \A d \in Conns \ {c} : inbox'[d] = inbox[d] /\ phase'[d] = phase[d]
    BY <1>1, <1>3, <1>7, <2>2 DEF ServerRestart
  <2>4. Fits(ph, in, Tail(out)) /\ ~No(out, {"header"})
    BY <1>0, <2>1, FitsShrinks, QueueShrinks
  <2>5. Fits("ready", Append(in, Offer(offer)), Tail(out))
    BY <2>1, <2>4 DEF Fits, Early, Served
  <2> QED BY <2>1, <2>3, <2>4, <2>5 DEF FitsAfter, Knows, Early, Served, ph, in, out
<1>8. CASE ServerBind(c) \/ ServerSession(c)
  <2>1. /\ ph \in Served /\ phase'[c] \in Served
        /\ \A d \in Conns \ {c} : phase'[d] = phase[d]
    BY <1>3, <1>8 DEF ServerBind, ServerSession, Served, ph
  <2>2. /\ out # <<>> /\ outbox'[c] = Tail(out) /\ Tail(out) \in Seq(Stanzas)
        /\ \A d \in Conns \ {c} : outbox'[d] = outbox[d]
    BY <1>2, <1>8 DEF ServerBind, ServerSession
  <2>3. PICK id \in Ids \cup {NoId} : Reply(c, Pak(id))
    BY <1>8 DEF ServerBind, ServerSession, Ids
  <2>4. /\ inbox'[c] = Append(in, Pak(id))
        /\ \A d \in Conns \ {c} : inbox'[d] = inbox[d]
    BY <1>1, <2>3
  <2>5. Fits(ph, in, Tail(out))
    BY <1>0, <2>2, FitsShrinks
  <2>6. Fits(phase'[c], Append(in, Pak(id)), Tail(out))
    BY <2>1, <2>5 DEF Fits, Early, Served
  <2> QED BY <2>1, <2>2, <2>4, <2>6 DEF FitsAfter, Knows, Early, Served, ph, in, out
<1>9. CASE ServerStanza(c) \/ ServerReject(c)
  <2>1. /\ out # <<>> /\ outbox'[c] = Tail(out) /\ Tail(out) \in Seq(Stanzas)
        /\ Head(out) \in Stanzas
        /\ \A d \in Conns \ {c} : outbox'[d] = outbox[d]
    BY <1>2, <1>9 DEF ServerStanza, ServerReject
  <2>2. PICK n \in Nodes : Reply(c, n) /\ n.kind \notin {"features", "success"}
    <3>1. Head(out).id \in Ids \cup {NoId}
      BY <2>1 DEF Stanzas
    <3> QED BY <1>4, <1>9, <3>1 DEF ServerStanza, ServerReject, out
  <2>3. /\ inbox'[c] = Append(in, n) /\ phase' = phase
        /\ \A d \in Conns \ {c} : inbox'[d] = inbox[d]
    BY <1>1, <1>9, <2>2 DEF ServerStanza, ServerReject
  <2>4. /\ Fits(ph, in, Tail(out))
        /\ Knows(ph, out, authenticated) => Knows(ph, Tail(out), authenticated)
    BY <1>0, <2>1, FitsShrinks
  <2>5. Fits(ph, Append(in, n), Tail(out))
    BY <1>0, <2>1, <2>2, <2>4, FitsGrows
  <2> QED BY <2>1, <2>3, <2>4, <2>5 DEF FitsAfter, ph, in, out
<1>10. CASE ServerRoute(c)
  <2>1. PICK n \in Nodes : Reply(c, n) /\ n.kind \notin {"features", "success"}
    BY <1>4, <1>10 DEF ServerRoute, Ids
  <2>2. /\ inbox'[c] = Append(in, n) /\ phase' = phase /\ outbox' = outbox
        /\ \A d \in Conns \ {c} : inbox'[d] = inbox[d]
    BY <1>1, <1>10, <2>1 DEF ServerRoute
  <2>3. Fits(ph, Append(in, n), out)
    BY <1>0, <2>1, FitsGrows
  <2> QED BY <2>2, <2>3 DEF FitsAfter, ph, in, out
<1>11. CASE LoseConnection(c)
  BY <1>0, <1>11 DEF LoseConnection, FitsAfter, ph, in, out
<1> QED
  BY <1>5, <1>6, <1>7, <1>8, <1>9, <1>10, <1>11 DEF ServerProgress, StreamFits

(* The steps of the client.  iks_recv hands over what came on the client's  *)
(* own stream, or the client has none.                                      *)
OwnStream == InFn({"recv", "parse"}) /\ Top.obj \in Conns => parser \in {NULL, Top.obj}

LEMMA DeliverFits ==
  ASSUME TypeInv, FitInv, OwnStream, Deliver PROVE FitInv'
<1> DEFINE o == Top.obj
<1>1. PICK kinds : Incoming(kinds)
  BY DEF Deliver, OnMechanisms, OnSessionFeatures, OnSuccess, OnOutcome, OnAnswer, OnTyped,
     OnUnmatched, OnStreamError
<1>2. /\ o \in Conns /\ inbox[o] # <<>> /\ parser \in {NULL, o}
  BY <1>1 DEF Incoming, OwnStream, InFn
<1>3. /\ phase \in [Conns -> Phases] /\ inbox \in [Conns -> Seq(Nodes)]
      /\ outbox \in [Conns -> Seq(Stanzas)] /\ made \in Nat /\ NULL \notin Conns
      /\ authenticated \in BOOLEAN /\ o \in Nat \ {0}
  BY <1>2, BoundAssumption DEF TypeInv, TypeOK, Conns, NULL
<1>4. inbox' = [inbox EXCEPT ![o] = Tail(@)] /\ phase' = phase /\ made' = made
      /\ parser' = parser
  BY DEF Deliver, OnMechanisms, OnSessionFeatures, OnSuccess, OnOutcome, OnAnswer, OnTyped,
     OnUnmatched, OnStreamError, Take, client, heap
<1>5. Received = Head(inbox[o])
  BY DEF Received
<1> HIDE DEF o
<1>6. /\ inbox'[o] = Tail(inbox[o])
      /\ \A d \in Conns \ {o} : inbox'[d] = inbox[d]
  BY <1>2, <1>3, <1>4
<1>7. /\ \A d \in Conns : Fits(phase[d], inbox[d], outbox[d])
      /\ \A d \in Conns : parser = d => Knows(phase[d], outbox[d], authenticated)
      /\ \A d \in Conns : d > made => phase[d] = "closed"
      /\ made = 0 => ~authenticated
  BY DEF FitInv
<1>8. Fits(phase[o], Tail(inbox[o]), outbox[o])
  BY <1>2, <1>3, <1>7, FitsShrinks
<1>9. CASE authenticated' = authenticated /\ outbox' = outbox
  BY <1>2, <1>3, <1>4, <1>6, <1>7, <1>8, <1>9 DEF FitInv
<1>10. ASSUME parser = o, Fits(phase[o], Tail(inbox[o]), outbox'[o]),
              Knows(phase[o], outbox'[o], authenticated'),
              \A d \in Conns \ {o} : outbox'[d] = outbox[d],
              authenticated' => made # 0
       PROVE  FitInv'
  BY <1>2, <1>3, <1>4, <1>6, <1>7, <1>10 DEF FitInv
<1>11. CASE OnMechanisms /\ outbox' # outbox
  <2>1. PICK s \in Stanzas : Send(parser, s) /\ s.kind \in Mechanisms
    BY <1>11 DEF OnMechanisms, Send, Stanza, Stanzas, Features, Mechanisms
  <2>2. outbox' = [outbox EXCEPT ![parser] = Append(@, s)] /\ authenticated' = authenticated
        /\ ~authenticated /\ Received.kind = "features"
    BY <1>11, <2>1 DEF Send, OnMechanisms, client, Incoming
  <2>3. parser = o
    BY <1>2, <1>3, <1>11, <2>2
  <2>4. outbox'[o] = Append(outbox[o], s) /\ \A d \in Conns \ {o} : outbox'[d] = outbox[d]
    BY <1>2, <1>3, <2>2, <2>3
  <2>5. Knows(phase[o], outbox[o], FALSE)
    BY <1>2, <1>7, <2>2, <2>3 DEF Knows
  <2>6. /\ Fits(phase[o], Tail(inbox[o]), Append(outbox[o], s))
        /\ Knows(phase[o], Append(outbox[o], s), FALSE)
    BY <1>2, <1>3, <1>5, <1>7, <2>1, <2>2, <2>5, FitsMechanism
  <2>7. Knows(phase[o], outbox'[o], authenticated')
    BY <2>2, <2>4, <2>6 DEF Knows
  <2> QED BY <1>10, <2>2, <2>3, <2>4, <2>6, <2>7
<1>12. CASE OnSessionFeatures /\ outbox' # outbox
  <2> DEFINE Ask(f) == IF f \in Received.offer THEN <<Stanza(f, NoId)>> ELSE <<>>
             r == Ask("bind") \o Ask("session")
  <2>1. authenticated' = authenticated /\ authenticated /\ Received.kind = "features"
        /\ outbox' = [outbox EXCEPT ![parser] = @ \o Ask("bind") \o Ask("session")]
    BY <1>12 DEF OnSessionFeatures, RequestSession, client, Incoming
  <2>2. /\ Stanza("bind", NoId) \in Stanzas /\ Stanza("bind", NoId).kind = "bind"
        /\ Stanza("session", NoId) \in Stanzas /\ Stanza("session", NoId).kind = "session"
    BY DEF Stanza, Stanzas, Features
  <2>3. /\ Ask("bind") \in {<<>>, <<Stanza("bind", NoId)>>}
        /\ Ask("session") \in {<<>>, <<Stanza("session", NoId)>>}
    OBVIOUS
  <2>4. Ask("bind") \in Seq(Stanzas) /\ Ask("session") \in Seq(Stanzas)
    BY <2>2, <2>3
  <2>5. r \in Seq(Stanzas) /\ No(r, Mechanisms)
    BY <2>2, <2>3 DEF No, Mechanisms
  <2> HIDE DEF Ask
  <2>6. parser = o
    BY <1>2, <1>3, <1>12, <2>1
  <2>7. /\ outbox'[o] = outbox[o] \o Ask("bind") \o Ask("session")
        /\ \A d \in Conns \ {o} : outbox'[d] = outbox[d]
    BY <1>2, <1>3, <2>1, <2>6
  <2>8. outbox'[o] = outbox[o] \o r
    BY <1>2, <1>3, <2>4, <2>7, SMTT(30)
  <2> HIDE DEF r
  <2>9. Knows(phase[o], outbox[o], TRUE)
    BY <1>2, <1>7, <2>1, <2>6 DEF Knows
  <2>10. /\ Fits(phase[o], Tail(inbox[o]), outbox[o] \o r)
         /\ Knows(phase[o], outbox[o] \o r, TRUE)
    BY <1>2, <1>3, <1>5, <1>7, <2>1, <2>5, <2>9, FitsSession
  <2>11. Knows(phase[o], outbox'[o], authenticated')
    BY <2>1, <2>8, <2>10 DEF Knows
  <2> QED BY <1>7, <1>10, <2>1, <2>6, <2>7, <2>8, <2>10, <2>11
<1>13. CASE OnSuccess
  <2> DEFINE s == Stanza("header", NoId)
  <2>1. s \in Stanzas /\ s.kind = "header"
    BY DEF Stanza, Stanzas
  <2>2. /\ outbox' = [outbox EXCEPT ![parser] = Append(@, s)] /\ authenticated' = TRUE
        /\ Received.kind = "success"
    BY <1>13 DEF Send, OnSuccess, Incoming
  <2> HIDE DEF s
  <2>3. /\ phase[o] \notin Early
        /\ Fits(phase[o], Tail(inbox[o]), Append(outbox[o], s))
        /\ Knows(phase[o], Append(outbox[o], s), TRUE)
    BY <1>2, <1>3, <1>5, <1>7, <2>1, <2>2, FitsSuccess
  <2>4. made # 0
    BY <1>2, <1>3, <1>7, <2>3 DEF Early
  <2>5. CASE parser = o
    <3>1. outbox'[o] = Append(outbox[o], s) /\ \A d \in Conns \ {o} : outbox'[d] = outbox[d]
      BY <1>2, <1>3, <2>2, <2>5
    <3>2. Knows(phase[o], outbox'[o], authenticated')
      BY <2>2, <2>3, <3>1 DEF Knows
    <3> QED BY <1>10, <2>3, <2>4, <2>5, <3>1, <3>2
  <2>6. CASE parser = NULL
    <3>1. \A d \in Conns : outbox'[d] = outbox[d]
      BY <1>3, <2>2, <2>6
    <3> QED BY <1>2, <1>3, <1>4, <1>6, <1>7, <1>8, <2>4, <2>6, <3>1 DEF FitInv
  <2> QED BY <1>2, <2>5, <2>6
<1>14. CASE OnOutcome \/ OnTyped \/ OnUnmatched \/ OnStreamError
            \/ \E w \in Watches : OnAnswer(w)
  BY <1>9, <1>14 DEF OnOutcome, OnTyped, OnUnmatched, OnStreamError, OnAnswer, client
<1>15. CASE (OnMechanisms \/ OnSessionFeatures) /\ outbox' = outbox
  BY <1>9, <1>15 DEF OnMechanisms, OnSessionFeatures, client
<1> QED BY <1>11, <1>12, <1>13, <1>14, <1>15 DEF Deliver

LEMMA ConnectFits ==
  ASSUME TypeInv, FitInv, Connect, ~authenticated PROVE FitInv'
<1>1. /\ made' = made + 1 /\ parser' = made' /\ inbox' = inbox /\ outbox' = outbox
      /\ authenticated' = authenticated /\ made < MaxConnects
      /\ phase' = phase \/ phase' = [phase EXCEPT ![made'] = "open"]
  BY DEF Connect
<1>2. /\ phase \in [Conns -> Phases] /\ made \in Nat /\ MaxConnects \in Nat
      /\ Conns \subseteq Nat
  BY BoundAssumption DEF TypeInv, TypeOK, Conns
<1>3. made' \in Conns /\ made' > made /\ phase[made'] = "closed"
  BY <1>1, <1>2 DEF Conns, FitInv
<1>4. /\ phase'[made'] \in {"closed", "open"}
      /\ \A d \in Conns \ {made'} : phase'[d] = phase[d]
  BY <1>1, <1>2, <1>3
<1>5. Fits(phase'[made'], inbox[made'], outbox[made'])
  BY <1>3, <1>4 DEF FitInv, Fits, Early, Served
<1>6. Knows(phase'[made'], outbox[made'], authenticated)
  BY <1>4 DEF Knows, Early, Served
<1>7. \A d \in Conns : d > made' => d > made /\ d # made'
  BY <1>1, <1>2
<1> QED BY <1>1, <1>2, <1>3, <1>4, <1>5, <1>6, <1>7 DEF FitInv

LEMMA CallFits ==
  ASSUME TypeInv, FitInv, Run \/ Disconnect \/ Free \/ Loop \/ Return
                          \/ \E w \in Watches, id \in StanzaIds : SendAndFilter(w, id)
  PROVE  FitInv'
<1>0. NULL \notin Conns
  BY ConnsAreNotNull
<1>1. CASE /\ outbox' = outbox /\ inbox' = inbox /\ phase' = phase /\ made' = made
           /\ parser' \in {NULL, parser} /\ authenticated' = authenticated
  BY <1>0, <1>1 DEF FitInv
<1>2. CASE Run \/ Disconnect \/ Free
  BY <1>1, <1>2 DEF Run, Disconnect, Free, DropStream, heap, net
<1>3. CASE Loop \/ Return
  BY <1>1, <1>3 DEF Loop, Return, Poll, RunReturn, RecvOk, RecvError, ConnectReturn,
     HookReturn, AnswerReturn, client, heap, net
<1>4. CASE \E w \in Watches, id \in StanzaIds : SendAndFilter(w, id)
  <2>1. PICK w \in Watches, id \in StanzaIds : SendAndFilter(w, id)
    BY <1>4
  <2>2. CASE outbox' = outbox
    BY <1>1, <2>1, <2>2 DEF SendAndFilter, client
  <2>3. CASE Send(parser, Stanza("stanza", id)) /\ parser \in up
    <3> DEFINE s == Stanza("stanza", id)
    <3>1. s \in Stanzas /\ s.kind = "stanza"
      BY DEF Stanza, Stanzas, Ids
    <3>2. outbox' = [outbox EXCEPT ![parser] = Append(@, s)]
      BY <2>3 DEF Send
    <3> HIDE DEF s
    <3>3. /\ phase \in [Conns -> Phases] /\ inbox \in [Conns -> Seq(Nodes)]
          /\ outbox \in [Conns -> Seq(Stanzas)] /\ parser \in Conns
      BY <2>3 DEF TypeInv, TypeOK
    <3>4. /\ outbox'[parser] = Append(outbox[parser], s)
          /\ \A d \in Conns \ {parser} : outbox'[d] = outbox[d]
      BY <3>2, <3>3
    <3>5. /\ Fits(phase[parser], inbox[parser], outbox[parser])
          /\ Knows(phase[parser], outbox[parser], authenticated)
      BY <3>3 DEF FitInv
    <3>6. /\ Fits(phase[parser], inbox[parser], Append(outbox[parser], s))
          /\ Knows(phase[parser], Append(outbox[parser], s), authenticated)
      BY <3>1, <3>3, <3>5, FitsGrows
    <3>7. /\ phase' = phase /\ inbox' = inbox /\ made' = made /\ parser' = parser
          /\ authenticated' = authenticated
      BY <2>1 DEF SendAndFilter, client
    <3> QED BY <3>3, <3>4, <3>6, <3>7 DEF FitInv
  <2> QED BY <2>1, <2>2, <2>3 DEF SendAndFilter, Undo
<1> QED BY <1>2, <1>3, <1>4

LEMMA ServerFitsAll ==
  ASSUME TypeInv, FitInv, Server PROVE FitInv'
<1>1. PICK c \in Conns : ServerProgress(c) \/ ServerRoute(c) \/ LoseConnection(c)
  BY DEF Server
<1>2. StreamFits(c)
  BY DEF TypeInv, TypeOK, FitInv, StreamFits
<1>3. FitsAfter(c)
  BY <1>1, <1>2, ServerFits
<1>4. UNCHANGED <<parser, authenticated, made>>
  BY <1>1 DEF ServerProgress, ServerOffer, ServerAuth, ServerRestart, ServerBind,
     ServerSession, ServerStanza, ServerReject, ServerRoute, LoseConnection, client, heap
<1> QED BY <1>3, <1>4 DEF FitInv, FitsAfter

LEMMA FitStep ==
  ASSUME TypeInv, FitInv, [Next]_vars, OwnStream, Connect => ~authenticated PROVE FitInv'
<1>1. CASE Next
  BY <1>1, DeliverFits, ConnectFits, CallFits, ServerFitsAll DEF Next, Application
<1>2. CASE UNCHANGED vars
  BY <1>2 DEF vars, client, heap, net, FitInv
<1> QED BY <1>1, <1>2

LEMMA InitFits == Init => FitInv
<1> SUFFICES ASSUME Init PROVE FitInv
  OBVIOUS
<1>1. /\ \A c \in Conns : phase[c] = "closed" /\ inbox[c] = <<>> /\ outbox[c] = <<>>
      /\ parser = NULL /\ authenticated = FALSE
  BY DEF Init
<1>2. \A kinds : No(<<>>, kinds) /\ AtMostOne(<<>>, kinds)
  BY DEF No, AtMostOne
<1> QED BY <1>1, <1>2, ConnsAreNotNull DEF FitInv, Fits

LEMMA FitsPhase == FitInv => RequestsFitPhase
BY DEF FitInv, Fits, No, Mechanisms, Later, Served, RequestsFitPhase

(* An application that connects only while the flag is unset.              *)
FreshConnect == Connect => ~authenticated

(* On its first stream a client never asks for what does not fit, whatever  *)
(* the application and its callbacks do (xmpp.c:684-723).                   *)
THEOREM RequestsFit == ASSUME MaxConnects = 1 PROVE Spec => []RequestsFitPhase
<1>1. TypeInv /\ FitInv /\ [Next]_vars => FitInv'
  <2> SUFFICES ASSUME TypeInv, FitInv, [Next]_vars PROVE FitInv'
    OBVIOUS
  <2>1. OwnStream
    BY DEF OwnStream, Conns, TypeInv, TypeOK
  <2>2. Connect => ~authenticated
    BY DEF Connect, FitInv, TypeInv, TypeOK
  <2> QED BY <2>1, <2>2, FitStep
<1> QED BY <1>1, InitFits, FitsPhase, TypeInvariant, PTL DEF Spec

(* On later ones, too, as long as it connects only with its flag unset,     *)
(* which ta_xmpp_client_init clears (xmpp.c:281) and nothing after it, and  *)
(* as its callbacks only send, so that no node of an old stream is answered *)
(* on a new one.                                                            *)
THEOREM RequestsFitLater ==
  ASSUME CallbacksOnlySend
  PROVE  Spec /\ [][FreshConnect]_vars => []RequestsFitPhase
<1>1. TypeInv /\ IInv /\ FitInv /\ [Next]_vars /\ [FreshConnect]_vars => FitInv'
  <2> SUFFICES ASSUME TypeInv, IInv, FitInv, [Next]_vars, [FreshConnect]_vars PROVE FitInv'
    OBVIOUS
  <2>1. OwnStream
    BY StackCases DEF OwnStream, InFn, IInv, StackPinned
  <2>2. CASE UNCHANGED vars
    BY <2>2 DEF vars, client, heap, net, FitInv
  <2> QED BY <2>1, <2>2, FitStep DEF FreshConnect
<1> QED BY <1>1, InitFits, FitsPhase, TypeInvariant, SafeInvariant, PTL DEF Spec
-----------------------------------------------------------------------------
(* The client calls the application back as Session says.  The callback is  *)
(* told from the stack, which IInv describes; what it may be follows from   *)
(* what the server says in each phase of a stream and what the flag says of *)
(* the client's own, also when it was left over from an earlier stream.     *)

Heard == {"pak", "message-received", "presence-noticed"}

(* The queues of a stream in phase ph.  In turn, the offer, the choice and  *)
(* the refusal are under way while a mechanism is awaited, and nothing of a *)
(* session before there is one.                                             *)
Tells(ph, in, out) ==
  /\ ph = "closed" => in = <<>> /\ out = <<>>
  /\ ph \in Early => No(in, {"success"}) /\ No(out, {"header"})
  /\ ph \in {"closed", "open", "accepted"} => No(in, {"features"})
  /\ ph # "offered" => No(in, {"failure"}) /\ No(out, Mechanisms)
  /\ ph = "offered" => /\ AtMostOne(in, {"features", "failure"}) /\ AtMostOne(out, Mechanisms)
                       /\ No(in, {"features", "failure"}) \/ No(out, Mechanisms)
  /\ ph \notin Served => No(in, Heard)

Believes(ph, in, out, auth) ==
  /\ ph \in Served \/ ~No(out, {"header"}) => auth
  /\ auth => No(in, {"failure"}) /\ No(out, Mechanisms)

SessionInv ==
  /\ parser = filter
  /\ \A c \in Conns :
       /\ Tells(phase[c], inbox[c], outbox[c])
       /\ parser = c => Believes(phase[c], inbox[c], outbox[c], authenticated)
       /\ c \in up => phase[c] # "closed"
       /\ c > made => phase[c] = "closed"

LEMMA TellsShrinks ==
  ASSUME NEW ph, NEW in \in Seq(Nodes), NEW out \in Seq(Stanzas), NEW auth, Tells(ph, in, out)
  PROVE  /\ in # <<>> => /\ Tells(ph, Tail(in), out)
                         /\ Believes(ph, in, out, auth) => Believes(ph, Tail(in), out, auth)
         /\ out # <<>> => /\ Tells(ph, in, Tail(out))
                          /\ Believes(ph, in, out, auth) => Believes(ph, in, Tail(out), auth)
<1>1. ASSUME in # <<>>
      PROVE  /\ Tells(ph, Tail(in), out)
             /\ Believes(ph, in, out, auth) => Believes(ph, Tail(in), out, auth)
  <2>1. \A kinds : /\ No(in, kinds) => No(Tail(in), kinds)
                   /\ AtMostOne(in, kinds) => AtMostOne(Tail(in), kinds)
    BY <1>1, QueueShrinks
  <2> QED BY <1>1, <2>1 DEF Tells, Believes
<1>2. ASSUME out # <<>>
      PROVE  /\ Tells(ph, in, Tail(out))
             /\ Believes(ph, in, out, auth) => Believes(ph, in, Tail(out), auth)
  <2>1. \A kinds : /\ No(out, kinds) => No(Tail(out), kinds)
                   /\ AtMostOne(out, kinds) => AtMostOne(Tail(out), kinds)
    BY <1>2, QueueShrinks
  <2> QED BY <1>2, <2>1 DEF Tells, Believes
<1> QED BY <1>1, <1>2

LEMMA TellsGrows ==
  ASSUME NEW ph, NEW in \in Seq(Nodes), NEW out \in Seq(Stanzas), NEW auth, Tells(ph, in, out),
         ph # "closed"
  PROVE  /\ \A n \in Nodes : n.kind \notin {"features", "success", "failure"}
                             /\ (n.kind \in Heard => ph \in Served) =>
              /\ Tells(ph, Append(in, n), out)
              /\ Believes(ph, in, out, auth) => Believes(ph, Append(in, n), out, auth)
         /\ \A s \in Stanzas : s.kind = "stanza" =>
              /\ Tells(ph, in, Append(out, s))
              /\ Believes(ph, in, out, auth) => Believes(ph, in, Append(out, s), auth)
<1>1. ASSUME NEW n \in Nodes, n.kind \notin {"features", "success", "failure"},
             n.kind \in Heard => ph \in Served
      PROVE  /\ Tells(ph, Append(in, n), out)
             /\ Believes(ph, in, out, auth) => Believes(ph, Append(in, n), out, auth)
  <2>1. \A kinds : n.kind \notin kinds =>
          /\ No(in, kinds) => No(Append(in, n), kinds)
          /\ AtMostOne(in, kinds) => AtMostOne(Append(in, n), kinds)
    BY QueueGrows
  <2> QED BY <1>1, <2>1 DEF Tells, Believes
<1>2. ASSUME NEW s \in Stanzas, s.kind = "stanza"
      PROVE  /\ Tells(ph, in, Append(out, s))
             /\ Believes(ph, in, out, auth) => Believes(ph, in, Append(out, s), auth)
  <2>1. \A kinds : "stanza" \notin kinds =>
          /\ No(out, kinds) => No(Append(out, s), kinds)
          /\ AtMostOne(out, kinds) => AtMostOne(Append(out, s), kinds)
    BY <1>2, QueueGrows
  <2>2. No(Append(out, s), {"header"}) => No(out, {"header"})
    <3>1. DOMAIN out = 1..Len(out) /\ Len(out) \in Nat
          /\ DOMAIN Append(out, s) = 1..Len(out) + 1
          /\ \A i \in 1..Len(out) : Append(out, s)[i] = out[i]
      BY AppendProperties
    <3> QED BY <3>1 DEF No
  <2> QED BY <2>1, <2>2 DEF Tells, Believes, Mechanisms
<1> QED BY <1>1, <1>2

(* The client's own stanzas.                                                *)
LEMMA TellsMechanism ==
  ASSUME NEW ph \in Phases, NEW in \in Seq(Nodes), NEW out \in Seq(Stanzas),
         Tells(ph, in, out), Believes(ph, in, out, FALSE),
         in # <<>>, Head(in).kind = "features",
         NEW s \in Stanzas, s.kind \in Mechanisms
  PROVE  /\ Tells(ph, Tail(in), Append(out, s))
         /\ Believes(ph, Tail(in), Append(out, s), FALSE)
<1>1. ~No(in, {"features"}) /\ ~No(in, {"features", "failure"})
  BY QueueShrinks
<1>2. ph = "offered"
  BY <1>1 DEF Tells, Believes, Served, Phases
<1>3. /\ No(out, Mechanisms) /\ No(Tail(in), {"features", "failure"})
      /\ No(Tail(in), {"success"}) /\ No(Tail(in), Heard)
      /\ AtMostOne(Tail(in), {"features", "failure"})
  BY <1>1, <1>2, QueueShrinks DEF Tells, Early, Served
<1>4. /\ AtMostOne(Append(out, s), Mechanisms) /\ No(Append(out, s), {"header"})
  BY <1>2, <1>3, QueueGrows DEF Tells, Believes, Mechanisms
<1> QED BY <1>2, <1>3, <1>4 DEF Tells, Believes, Early, Served

LEMMA TellsSuccess ==
  ASSUME NEW ph \in Phases, NEW in \in Seq(Nodes), NEW out \in Seq(Stanzas),
         Tells(ph, in, out), in # <<>>, Head(in).kind = "success",
         NEW s \in Stanzas, s.kind = "header"
  PROVE  /\ Tells(ph, Tail(in), Append(out, s))
         /\ Believes(ph, Tail(in), Append(out, s), TRUE)
<1>1. ph \notin Early
  BY QueueShrinks DEF Tells
<1>2. Tells(ph, Tail(in), out)
  BY TellsShrinks
<1>3. No(out, Mechanisms) => No(Append(out, s), Mechanisms)
  BY QueueGrows DEF Mechanisms
<1> QED BY <1>1, <1>2, <1>3 DEF Tells, Believes, Early

LEMMA TellsSession ==
  ASSUME NEW ph \in Phases, NEW in \in Seq(Nodes), NEW out \in Seq(Stanzas),
         Tells(ph, in, out), Believes(ph, in, out, TRUE), in # <<>>,
         NEW r \in Seq(Stanzas), No(r, Mechanisms \cup {"header"})
  PROVE  Tells(ph, Tail(in), out \o r) /\ Believes(ph, Tail(in), out \o r, TRUE)
<1> DEFINE both == out \o r
<1>1. /\ DOMAIN both = 1..Len(out) + Len(r) /\ Len(out) \in Nat /\ Len(r) \in Nat
      /\ DOMAIN out = 1..Len(out) /\ DOMAIN r = 1..Len(r)
      /\ \A i \in 1..Len(out) + Len(r) :
           both[i] = IF i <= Len(out) THEN out[i] ELSE r[i - Len(out)]
  BY ConcatProperties
<1> HIDE DEF both
<1>2. \A i \in DOMAIN both : \/ i \in DOMAIN out /\ both[i] = out[i]
                             \/ i - Len(out) \in DOMAIN r /\ both[i] = r[i - Len(out)]
  BY <1>1
<1>3. /\ No(out, Mechanisms) => No(both, Mechanisms)
      /\ No(out, {"header"}) => No(both, {"header"})
  BY <1>2 DEF No
<1>4. No(both, Mechanisms) => AtMostOne(both, Mechanisms)
  BY DEF No, AtMostOne
<1>5. Tells(ph, Tail(in), out) /\ Believes(ph, Tail(in), out, TRUE) /\ ph # "closed"
  BY TellsShrinks DEF Tells
<1> QED BY <1>3, <1>4, <1>5 DEF Tells, Believes, both

(* What a step of one stream has to do.                                     *)
StreamTells(c) ==
  /\ phase \in [Conns -> Phases] /\ inbox \in [Conns -> Seq(Nodes)]
  /\ outbox \in [Conns -> Seq(Stanzas)] /\ c \in Conns
  /\ Tells(phase[c], inbox[c], outbox[c])
  /\ c \in up => phase[c] # "closed"
TellsAfter(c) ==
  /\ Tells(phase'[c], inbox'[c], outbox'[c])
  /\ Believes(phase[c], inbox[c], outbox[c], authenticated)
       => Believes(phase'[c], inbox'[c], outbox'[c], authenticated)
  /\ (phase[c] = "closed") <=> (phase'[c] = "closed")
  /\ \A d \in Conns \ {c} :
       phase'[d] = phase[d] /\ inbox'[d] = inbox[d] /\ outbox'[d] = outbox[d]

LEMMA ServerTells ==
  ASSUME NEW c, StreamTells(c), ServerProgress(c) \/ ServerRoute(c) \/ LoseConnection(c)
  PROVE  TellsAfter(c)
<1> DEFINE ph == phase[c]
           in == inbox[c]
           out == outbox[c]
<1>0. /\ ph \in Phases /\ in \in Seq(Nodes) /\ out \in Seq(Stanzas) /\ Tells(ph, in, out)
      /\ phase \in [Conns -> Phases] /\ inbox \in [Conns -> Seq(Nodes)]
      /\ outbox \in [Conns -> Seq(Stanzas)] /\ c \in Conns
      /\ c \in up => ph # "closed"
  BY DEF StreamTells
<1>1. \A n : Reply(c, n) =>
        inbox'[c] = Append(in, n) /\ \A d \in Conns \ {c} : inbox'[d] = inbox[d]
  BY <1>0 DEF Reply
<1>2. ASSUME NEW kinds, Request(c, kinds)
      PROVE  /\ out # <<>> /\ outbox'[c] = Tail(out) /\ Head(out).kind \in kinds
             /\ \A d \in Conns \ {c} : outbox'[d] = outbox[d]
             /\ Tail(out) \in Seq(Stanzas) /\ Head(out) \in Stanzas /\ c \in up
  <2>1. /\ out # <<>> /\ Head(out).kind \in kinds /\ outbox' = [outbox EXCEPT ![c] = Tail(@)]
        /\ c \in up
    BY <1>2 DEF Request
  <2>2. Tail(out) \in Seq(Stanzas) /\ Head(out) \in Stanzas
    BY <1>0, <2>1, HeadTailProperties
  <2> QED BY <1>0, <2>1, <2>2
<1>3. \A p : Enter(c, p) => phase'[c] = p /\ \A d \in Conns \ {c} : phase'[d] = phase[d]
  BY <1>0 DEF Enter
<1>4. /\ \A f \in SUBSET Features : Offer(f) \in Nodes /\ Offer(f).kind = "features"
      /\ \A id \in Ids \cup {NoId} : Pak(id) \in Nodes /\ Pak(id).kind = "pak"
      /\ \A k \in {"success", "failure", "error", "message-received", "presence-noticed"} :
           Node(k) \in Nodes /\ Node(k).kind = k
  BY DEF Offer, Pak, Node, Nodes
<1> HIDE DEF ph, in, out
<1>5. CASE ServerOffer(c)
  <2>1. PICK offer \in SaslOffers : Reply(c, Offer(offer))
    BY <1>5 DEF ServerOffer
  <2>2. Offer(offer) \in Nodes /\ Offer(offer).kind = "features"
    BY <1>4, OfferAssumption
  <2>3. ph = "open" /\ phase'[c] = "offered" /\ outbox' = outbox
        /\ inbox'[c] = Append(in, Offer(offer))
        /\ \A d \in Conns \ {c} : inbox'[d] = inbox[d] /\ phase'[d] = phase[d]
    BY <1>1, <1>3, <1>5, <2>1 DEF ServerOffer, ph
  <2>4. /\ No(in, {"features"}) /\ No(in, {"failure"}) /\ No(in, {"success"})
        /\ No(in, Heard) /\ No(out, {"header"}) /\ No(out, Mechanisms)
    BY <1>0, <2>3 DEF Tells, Early, Served
  <2>5. No(in, {"features", "failure"}) /\ AtMostOne(out, Mechanisms)
    BY <2>4 DEF No, AtMostOne
  <2>6. /\ AtMostOne(Append(in, Offer(offer)), {"features", "failure"})
        /\ No(Append(in, Offer(offer)), {"success"})
        /\ No(Append(in, Offer(offer)), Heard)
        /\ No(Append(in, Offer(offer)), {"failure"})
    BY <1>0, <2>2, <2>4, <2>5, QueueGrows DEF Heard
  <2>7. Tells("offered", Append(in, Offer(offer)), out)
    BY <2>4, <2>5, <2>6 DEF Tells, Early, Served
  <2>8. Believes(ph, in, out, authenticated)
          => Believes("offered", Append(in, Offer(offer)), out, authenticated)
    BY <2>6 DEF Believes, Served
  <2> QED BY <2>3, <2>7, <2>8 DEF TellsAfter, ph, in, out
<1>6. CASE ServerAuth(c)
  <2>1. /\ ph = "offered" /\ out # <<>> /\ outbox'[c] = Tail(out)
        /\ Head(out).kind \in Mechanisms /\ Tail(out) \in Seq(Stanzas)
        /\ \A d \in Conns \ {c} : outbox'[d] = outbox[d]
    BY <1>2, <1>6 DEF ServerAuth, ph, Mechanisms
  <2>2. ~No(out, Mechanisms) /\ No(Tail(out), Mechanisms) /\ No(Tail(out), {"header"})
    BY <1>0, <2>1, QueueShrinks DEF Tells, Early
  <2>3. /\ No(in, {"features", "failure"}) /\ No(in, {"success"}) /\ No(in, Heard)
        /\ AtMostOne(Tail(out), Mechanisms)
    BY <1>0, <2>1, <2>2 DEF Tells, Early, Served, No, AtMostOne
  <2>4. No(in, {"features"}) /\ No(in, {"failure"})
    BY <2>3 DEF No
  <2>5. CASE Reply(c, Node("success")) /\ Enter(c, "accepted")
    <3>1. /\ No(Append(in, Node("success")), {"features"})
          /\ No(Append(in, Node("success")), {"failure"})
          /\ No(Append(in, Node("success")), Heard)
      BY <1>0, <1>4, <2>3, <2>4, QueueGrows DEF Heard
    <3>2. Tells("accepted", Append(in, Node("success")), Tail(out))
      BY <2>2, <3>1 DEF Tells, Early
    <3>3. phase'[c] = "accepted" /\ inbox'[c] = Append(in, Node("success"))
          /\ \A d \in Conns \ {c} : inbox'[d] = inbox[d] /\ phase'[d] = phase[d]
      BY <1>1, <1>3, <2>5
    <3>4. Believes("accepted", Append(in, Node("success")), Tail(out), authenticated)
      BY <2>2, <3>1 DEF Believes, Served
    <3> QED BY <2>1, <3>2, <3>3, <3>4 DEF TellsAfter, ph, in, out
  <2>6. CASE Reply(c, Node("failure")) /\ UNCHANGED phase
    <3>1. /\ AtMostOne(Append(in, Node("failure")), {"features", "failure"})
          /\ No(Append(in, Node("failure")), {"success"})
          /\ No(Append(in, Node("failure")), Heard)
      BY <1>0, <1>4, <2>3, QueueGrows DEF Heard
    <3>2. Tells(ph, Append(in, Node("failure")), Tail(out))
      BY <2>1, <2>2, <2>3, <3>1 DEF Tells, Early
    <3>3. Believes(ph, in, out, authenticated)
            => Believes(ph, Append(in, Node("failure")), Tail(out), authenticated)
      BY <2>1, <2>2 DEF Believes, Served
    <3> QED BY <1>1, <2>1, <2>6, <3>2, <3>3 DEF TellsAfter, ph, in, out
  <2> QED BY <1>6, <2>5, <2>6 DEF ServerAuth
<1>7. CASE ServerRestart(c)
  <2>1. /\ ph = "accepted" /\ out # <<>> /\ outbox'[c] = Tail(out)
        /\ Head(out).kind \in {"header"} /\ Tail(out) \in Seq(Stanzas)
        /\ \A d \in Conns \ {c} : outbox'[d] = outbox[d]
    BY <1>2, <1>7 DEF ServerRestart, ph
  <2>2. PICK offer \in SessionOffers : Reply(c, Offer(offer))
    BY <1>7 DEF ServerRestart
  <2>3. /\ phase'[c] = "ready" /\ inbox'[c] = Append(in, Offer(offer))
        /\ \A d \in Conns \ {c} : inbox'[d] = inbox[d] /\ phase'[d] = phase[d]
    BY <1>1, <1>3, <1>7, <2>2 DEF ServerRestart
  <2>4. ~No(out, {"header"}) /\ No(Tail(out), Mechanisms) /\ No(in, {"failure"})
    BY <1>0, <2>1, QueueShrinks DEF Tells
  <2>5. No(Append(in, Offer(offer)), {"failure"})
    BY <1>0, <1>4, <2>4, OfferAssumption, QueueGrows
  <2>6. Tells("ready", Append(in, Offer(offer)), Tail(out))
    BY <2>4, <2>5 DEF Tells, Early, Served
  <2>7. Believes(ph, in, out, authenticated)
          => Believes("ready", Append(in, Offer(offer)), Tail(out), authenticated)
    BY <2>4, <2>5 DEF Believes
  <2> QED BY <2>1, <2>3, <2>6, <2>7 DEF TellsAfter, ph, in, out
<1>8. CASE ServerBind(c) \/ ServerSession(c)
  <2>1. /\ ph \in Served /\ phase'[c] \in Served
        /\ \A d \in Conns \ {c} : phase'[d] = phase[d]
    BY <1>3, <1>8 DEF ServerBind, ServerSession, Served, ph
  <2>2. /\ out # <<>> /\ outbox'[c] = Tail(out) /\ Tail(out) \in Seq(Stanzas)
        /\ \A d \in Conns \ {c} : outbox'[d] = outbox[d]
    BY <1>2, <1>8 DEF ServerBind, ServerSession
  <2>3. PICK id \in Ids \cup {NoId} : Reply(c, Pak(id))
    BY <1>8 DEF ServerBind, ServerSession, Ids
  <2>4. /\ inbox'[c] = Append(in, Pak(id))
        /\ \A d \in Conns \ {c} : inbox'[d] = inbox[d]
    BY <1>1, <2>3
  <2>5. /\ Tells(ph, in, Tail(out)) /\ ph # "closed"
        /\ Believes(ph, in, out, authenticated) => Believes(ph, in, Tail(out), authenticated)
    BY <1>0, <2>1, <2>2, TellsShrinks DEF Served
  <2>6. /\ Tells(ph, Append(in, Pak(id)), Tail(out))
        /\ Believes(ph, in, out, authenticated)
             => Believes(ph, Append(in, Pak(id)), Tail(out), authenticated)
    BY <1>0, <1>4, <2>1, <2>2, <2>5, TellsGrows
  <2>7. /\ Tells(phase'[c], Append(in, Pak(id)), Tail(out))
        /\ Believes(ph, Append(in, Pak(id)), Tail(out), authenticated)
             => Believes(phase'[c], Append(in, Pak(id)), Tail(out), authenticated)
    BY <2>1, <2>6 DEF Tells, Believes, Early, Served
  <2> QED BY <2>1, <2>2, <2>4, <2>5, <2>6, <2>7 DEF TellsAfter, Served, ph, in, out
<1>9. CASE ServerStanza(c) \/ ServerReject(c)
  <2>1. /\ out # <<>> /\ outbox'[c] = Tail(out) /\ Tail(out) \in Seq(Stanzas)
        /\ Head(out) \in Stanzas /\ ph # "closed"
        /\ \A d \in Conns \ {c} : outbox'[d] = outbox[d]
    BY <1>0, <1>2, <1>9 DEF ServerStanza, ServerReject
  <2>2. PICK n \in Nodes : /\ Reply(c, n) /\ n.kind \notin {"features", "success", "failure"}
                           /\ n.kind \in Heard => ph \in Served
    <3>1. Head(out).id \in Ids \cup {NoId}
      BY <2>1 DEF Stanzas
    <3>2. CASE ServerStanza(c)
      BY <1>4, <3>1, <3>2 DEF ServerStanza, Served, out, ph
    <3>3. CASE ServerReject(c)
      BY <1>4, <3>3 DEF ServerReject, Heard
    <3> QED BY <1>9, <3>2, <3>3
  <2>3. /\ inbox'[c] = Append(in, n) /\ phase' = phase
        /\ \A d \in Conns \ {c} : inbox'[d] = inbox[d]
    BY <1>1, <1>9, <2>2 DEF ServerStanza, ServerReject
  <2>4. /\ Tells(ph, in, Tail(out))
        /\ Believes(ph, in, out, authenticated) => Believes(ph, in, Tail(out), authenticated)
    BY <1>0, <2>1, TellsShrinks
  <2>5. /\ Tells(ph, Append(in, n), Tail(out))
        /\ Believes(ph, in, Tail(out), authenticated)
             => Believes(ph, Append(in, n), Tail(out), authenticated)
    BY <1>0, <2>1, <2>2, <2>4, TellsGrows
  <2> QED BY <2>1, <2>3, <2>4, <2>5 DEF TellsAfter, ph, in, out
<1>10. CASE ServerRoute(c)
  <2>1. PICK n \in Nodes : Reply(c, n) /\ n.kind \notin {"features", "success", "failure"}
    BY <1>4, <1>10 DEF ServerRoute, Ids
  <2>2. /\ inbox'[c] = Append(in, n) /\ phase' = phase /\ outbox' = outbox
        /\ \A d \in Conns \ {c} : inbox'[d] = inbox[d]
    BY <1>1, <1>10, <2>1 DEF ServerRoute
  <2>3. ph \in Served /\ ph # "closed"
    BY <1>10 DEF ServerRoute, Served, ph
  <2>4. /\ Tells(ph, Append(in, n), out)
        /\ Believes(ph, in, out, authenticated)
             => Believes(ph, Append(in, n), out, authenticated)
    BY <1>0, <2>1, <2>3, TellsGrows
  <2> QED BY <2>2, <2>4 DEF TellsAfter, ph, in, out
<1>11. CASE LoseConnection(c)
  BY <1>0, <1>11 DEF LoseConnection, TellsAfter, ph, in, out
<1> QED
  BY <1>5, <1>6, <1>7, <1>8, <1>9, <1>10, <1>11 DEF ServerProgress, StreamTells

LEMMA ServerTellsAll ==
  ASSUME TypeInv, SessionInv, Server PROVE SessionInv' /\ Reached' = Reached
<1>1. PICK c \in Conns : ServerProgress(c) \/ ServerRoute(c) \/ LoseConnection(c)
  BY DEF Server
<1>2. StreamTells(c)
  BY DEF TypeInv, TypeOK, SessionInv, StreamTells
<1>3. TellsAfter(c)
  BY <1>1, <1>2, ServerTells
<1>4. UNCHANGED <<parser, filter, authenticated, made>> /\ up' \subseteq up
  BY <1>1 DEF ServerProgress, ServerOffer, ServerAuth, ServerRestart, ServerBind,
     ServerSession, ServerStanza, ServerReject, ServerRoute, LoseConnection, client, heap
<1>5. \A d \in Conns : (phase'[d] = "closed") <=> (phase[d] = "closed")
  BY <1>3 DEF TellsAfter
<1>6. Reached' = Reached
  BY <1>5 DEF Reached
<1> QED BY <1>3, <1>4, <1>5, <1>6 DEF SessionInv, TellsAfter

(* The steps of the client, which are made on its own stream.               *)
LEMMA DeliverTells ==
  ASSUME TypeInv, SessionInv, OwnStream, parser # NULL, Deliver
  PROVE  SessionInv' /\ Reached' = Reached
<1> DEFINE o == Top.obj
<1>1. PICK kinds : Incoming(kinds)
  BY DEF Deliver, OnMechanisms, OnSessionFeatures, OnSuccess, OnOutcome, OnAnswer, OnTyped,
     OnUnmatched, OnStreamError
<1>2. /\ o \in Conns /\ inbox[o] # <<>> /\ parser = o /\ Received = Head(inbox[o])
  BY <1>1 DEF Incoming, OwnStream, InFn, Received
<1>3. /\ phase \in [Conns -> Phases] /\ inbox \in [Conns -> Seq(Nodes)]
      /\ outbox \in [Conns -> Seq(Stanzas)] /\ authenticated \in BOOLEAN
  BY DEF TypeInv, TypeOK
<1>4. /\ inbox' = [inbox EXCEPT ![o] = Tail(@)]
      /\ UNCHANGED <<parser, filter, made, up, phase>>
  BY DEF Deliver, OnMechanisms, OnSessionFeatures, OnSuccess, OnOutcome, OnAnswer, OnTyped,
     OnUnmatched, OnStreamError, Take, client, heap
<1> HIDE DEF o
<1>0. Reached' = Reached
  BY <1>4 DEF Reached
<1> SUFFICES SessionInv'
  BY <1>0
<1>5. /\ inbox'[o] = Tail(inbox[o]) /\ \A d \in Conns \ {o} : inbox'[d] = inbox[d]
  BY <1>2, <1>3, <1>4
<1>6. /\ Tells(phase[o], inbox[o], outbox[o])
      /\ Believes(phase[o], inbox[o], outbox[o], authenticated)
  BY <1>2 DEF SessionInv
<1>7. /\ Tells(phase[o], Tail(inbox[o]), outbox[o])
      /\ Believes(phase[o], Tail(inbox[o]), outbox[o], authenticated)
  BY <1>2, <1>3, <1>6, TellsShrinks
<1>8. ASSUME Tells(phase[o], Tail(inbox[o]), outbox'[o]),
             Believes(phase[o], Tail(inbox[o]), outbox'[o], authenticated'),
             \A d \in Conns \ {o} : outbox'[d] = outbox[d]
      PROVE  SessionInv'
  <2>1. \A d \in Conns : Tells(phase'[d], inbox'[d], outbox'[d])
    BY <1>4, <1>5, <1>8 DEF SessionInv
  <2>2. Believes(phase'[o], inbox'[o], outbox'[o], authenticated')
    BY <1>4, <1>5, <1>8
  <2>3. /\ parser' = filter' /\ parser' = o
        /\ \A d \in Conns : /\ d \in up' => phase'[d] # "closed"
                            /\ d > made' => phase'[d] = "closed"
    BY <1>2, <1>4 DEF SessionInv
  <2> QED BY <2>1, <2>2, <2>3 DEF SessionInv
<1>9. CASE authenticated' = authenticated /\ outbox' = outbox
  BY <1>7, <1>8, <1>9
<1>10. CASE OnMechanisms /\ outbox' # outbox
  <2>1. PICK s \in Stanzas : Send(parser, s) /\ s.kind \in Mechanisms
    BY <1>10 DEF OnMechanisms, Send, Stanza, Stanzas, Features, Mechanisms
  <2>2. authenticated' = authenticated /\ ~authenticated /\ Received.kind = "features"
    BY <1>10 DEF OnMechanisms, client, Incoming
  <2>3. outbox'[o] = Append(outbox[o], s) /\ \A d \in Conns \ {o} : outbox'[d] = outbox[d]
    BY <1>2, <1>3, <2>1 DEF Send
  <2>4. authenticated = FALSE
    BY <1>3, <2>2
  <2>5. /\ Tells(phase[o], Tail(inbox[o]), Append(outbox[o], s))
        /\ Believes(phase[o], Tail(inbox[o]), Append(outbox[o], s), FALSE)
    BY <1>2, <1>3, <1>6, <2>1, <2>2, <2>4, TellsMechanism
  <2> QED BY <1>8, <2>2, <2>3, <2>4, <2>5
<1>11. CASE OnSessionFeatures /\ outbox' # outbox
  <2> DEFINE Ask(f) == IF f \in Received.offer THEN <<Stanza(f, NoId)>> ELSE <<>>
             r == Ask("bind") \o Ask("session")
  <2>1. authenticated' = authenticated /\ authenticated = TRUE
        /\ outbox' = [outbox EXCEPT ![parser] = @ \o Ask("bind") \o Ask("session")]
    BY <1>3, <1>11 DEF OnSessionFeatures, RequestSession, client
  <2>2. /\ Stanza("bind", NoId) \in Stanzas /\ Stanza("bind", NoId).kind = "bind"
        /\ Stanza("session", NoId) \in Stanzas /\ Stanza("session", NoId).kind = "session"
    BY DEF Stanza, Stanzas, Features
  <2>3. /\ Ask("bind") \in {<<>>, <<Stanza("bind", NoId)>>}
        /\ Ask("session") \in {<<>>, <<Stanza("session", NoId)>>}
    OBVIOUS
  <2>4. Ask("bind") \in Seq(Stanzas) /\ Ask("session") \in Seq(Stanzas)
    BY <2>2, <2>3
  <2>5. r \in Seq(Stanzas) /\ No(r, Mechanisms \cup {"header"})
    BY <2>2, <2>3 DEF No, Mechanisms
  <2> HIDE DEF Ask
  <2>6. /\ outbox'[o] = outbox[o] \o Ask("bind") \o Ask("session")
        /\ \A d \in Conns \ {o} : outbox'[d] = outbox[d]
    BY <1>2, <1>3, <2>1
  <2>7. outbox'[o] = outbox[o] \o r
    BY <1>2, <1>3, <2>4, <2>6, SMTT(30)
  <2> HIDE DEF r
  <2>8. /\ Tells(phase[o], Tail(inbox[o]), outbox[o] \o r)
        /\ Believes(phase[o], Tail(inbox[o]), outbox[o] \o r, TRUE)
    BY <1>2, <1>3, <1>6, <2>1, <2>5, TellsSession
  <2> QED BY <1>8, <2>1, <2>6, <2>7, <2>8
<1>12. CASE OnSuccess
  <2> DEFINE s == Stanza("header", NoId)
  <2>1. s \in Stanzas /\ s.kind = "header"
    BY DEF Stanza, Stanzas
  <2>2. /\ outbox' = [outbox EXCEPT ![parser] = Append(@, s)] /\ authenticated' = TRUE
        /\ Received.kind = "success"
    BY <1>12 DEF Send, OnSuccess, Incoming
  <2> HIDE DEF s
  <2>3. outbox'[o] = Append(outbox[o], s) /\ \A d \in Conns \ {o} : outbox'[d] = outbox[d]
    BY <1>2, <1>3, <2>2
  <2>4. /\ Tells(phase[o], Tail(inbox[o]), Append(outbox[o], s))
        /\ Believes(phase[o], Tail(inbox[o]), Append(outbox[o], s), TRUE)
    BY <1>2, <1>3, <1>6, <2>1, <2>2, TellsSuccess
  <2> QED BY <1>8, <2>2, <2>3, <2>4
<1>13. CASE OnOutcome \/ OnTyped \/ OnUnmatched \/ OnStreamError
            \/ \E w \in Watches : OnAnswer(w)
  BY <1>9, <1>13 DEF OnOutcome, OnTyped, OnUnmatched, OnStreamError, OnAnswer, client
<1>14. CASE (OnMechanisms \/ OnSessionFeatures) /\ outbox' = outbox
  BY <1>9, <1>14 DEF OnMechanisms, OnSessionFeatures, client
<1> QED BY <1>10, <1>11, <1>12, <1>13, <1>14 DEF Deliver

LEMMA ConnectTells ==
  ASSUME TypeInv, SessionInv, Connect PROVE SessionInv'
<1>1. /\ made' = made + 1 /\ parser' = made' /\ filter' = made' /\ inbox' = inbox
      /\ outbox' = outbox /\ authenticated' = authenticated /\ made < MaxConnects
      /\ \/ phase' = phase /\ up' = up
         \/ phase' = [phase EXCEPT ![made'] = "open"] /\ up' = up \cup {made'}
  BY DEF Connect
<1>2. /\ phase \in [Conns -> Phases] /\ made \in Nat /\ MaxConnects \in Nat
      /\ Conns \subseteq Nat
  BY BoundAssumption DEF TypeInv, TypeOK, Conns
<1>3. made' \in Conns /\ made' > made /\ phase[made'] = "closed" /\ made' \notin up
  BY <1>1, <1>2 DEF Conns, SessionInv
<1>4. inbox[made'] = <<>> /\ outbox[made'] = <<>>
  BY <1>3 DEF SessionInv, Tells
<1>5. /\ phase'[made'] \in {"closed", "open"} /\ (made' \in up' => phase'[made'] = "open")
      /\ \A d \in Conns \ {made'} : phase'[d] = phase[d] /\ (d \in up' => d \in up)
  BY <1>1, <1>2, <1>3
<1>6. \A kinds : No(<<>>, kinds) /\ AtMostOne(<<>>, kinds)
  BY DEF No, AtMostOne
<1>7. /\ Tells(phase'[made'], inbox[made'], outbox[made'])
      /\ Believes(phase'[made'], inbox[made'], outbox[made'], authenticated)
  BY <1>4, <1>5, <1>6 DEF Tells, Believes, Served
<1>8. \A d \in Conns : d > made' => d > made /\ d # made'
  BY <1>1, <1>2
<1> QED BY <1>1, <1>2, <1>3, <1>5, <1>7, <1>8 DEF SessionInv

LEMMA CallTells ==
  ASSUME TypeInv, SessionInv, Run \/ Disconnect \/ Free \/ Loop \/ Return
                              \/ \E w \in Watches, id \in StanzaIds : SendAndFilter(w, id)
  PROVE  SessionInv' /\ Reached' = Reached
<1>0. NULL \notin Conns
  BY ConnsAreNotNull
<1>1. CASE /\ outbox' = outbox /\ inbox' = inbox /\ phase' = phase /\ made' = made
           /\ up' \subseteq up /\ authenticated' = authenticated
           /\ \/ parser' = parser /\ filter' = filter
              \/ parser' = NULL /\ filter' = NULL
  BY <1>0, <1>1 DEF SessionInv, Reached
<1>2. CASE Run \/ Disconnect \/ Free
  BY <1>1, <1>2 DEF Run, Disconnect, Free, DropStream, heap, net
<1>3. CASE Loop \/ Return
  BY <1>1, <1>3 DEF Loop, Return, Poll, RunReturn, RecvOk, RecvError, ConnectReturn,
     HookReturn, AnswerReturn, client, heap, net
<1>4. CASE \E w \in Watches, id \in StanzaIds : SendAndFilter(w, id)
  <2>1. PICK w \in Watches, id \in StanzaIds : SendAndFilter(w, id)
    BY <1>4
  <2>2. CASE outbox' = outbox
    BY <1>1, <2>1, <2>2 DEF SendAndFilter, client
  <2>3. CASE Send(parser, Stanza("stanza", id)) /\ parser \in up
    <3> DEFINE s == Stanza("stanza", id)
    <3>1. s \in Stanzas /\ s.kind = "stanza"
      BY DEF Stanza, Stanzas, Ids
    <3>2. outbox' = [outbox EXCEPT ![parser] = Append(@, s)]
      BY <2>3 DEF Send
    <3> HIDE DEF s
    <3>3. /\ phase \in [Conns -> Phases] /\ inbox \in [Conns -> Seq(Nodes)]
          /\ outbox \in [Conns -> Seq(Stanzas)] /\ parser \in Conns
      BY <2>3 DEF TypeInv, TypeOK
    <3>4. /\ outbox'[parser] = Append(outbox[parser], s)
          /\ \A d \in Conns \ {parser} : outbox'[d] = outbox[d]
      BY <3>2, <3>3
    <3>5. /\ Tells(phase[parser], inbox[parser], outbox[parser])
          /\ Believes(phase[parser], inbox[parser], outbox[parser], authenticated)
          /\ phase[parser] # "closed"
      BY <2>3, <3>3 DEF SessionInv
    <3>6. /\ Tells(phase[parser], inbox[parser], Append(outbox[parser], s))
          /\ Believes(phase[parser], inbox[parser], Append(outbox[parser], s), authenticated)
      BY <3>1, <3>3, <3>5, TellsGrows
    <3>7. UNCHANGED <<phase, inbox, made, parser, filter, authenticated, up>>
      BY <2>1 DEF SendAndFilter, client
    <3> QED BY <3>3, <3>4, <3>6, <3>7 DEF SessionInv, Reached
  <2> QED BY <2>1, <2>2, <2>3 DEF SendAndFilter, Undo
<1> QED BY <1>2, <1>3, <1>4

LEMMA InitTells == Init => SessionInv
<1> SUFFICES ASSUME Init PROVE SessionInv
  OBVIOUS
<1>1. /\ \A c \in Conns : /\ phase[c] = "closed" /\ inbox[c] = <<>> /\ outbox[c] = <<>>
                          /\ c \notin up
      /\ parser = NULL /\ filter = NULL
  BY DEF Init
<1>2. \A kinds : No(<<>>, kinds) /\ AtMostOne(<<>>, kinds)
  BY DEF No, AtMostOne
<1> QED BY <1>1, <1>2, ConnsAreNotNull DEF SessionInv, Tells

(* What the stack tells of the application: whether it is in run, and which *)
(* callback it is in.                                                       *)
None == Promised!NoCall

LEMMA CallbackHere ==
  ASSUME TypeInv, IInv
  PROVE  /\ frames = <<>> => ~Looping /\ Callback = None
         /\ InFn({"run", "recv", "parse"}) => Looping /\ Callback = None
         /\ InFn({"connected"}) => ~Looping
         /\ InFn(HookFns) => Callback = Promised!Call(Top.fn, NoWatch)
         /\ InFn({"answer"}) => Callback = Promised!Call("answer", Top.w)
         /\ InCallback => Callback # None
<1>1. /\ InFn({"run", "recv", "parse"}) => frames[1].fn = "run"
      /\ InFn({"connected"}) => frames[1].fn = "connected"
  BY StackCases DEF InFn
<1> QED BY <1>1 DEF Looping, Callback, InCallback, InFn, HookFns, None, Promised!NoCall,
           Promised!Call

LEMMA CallbackNext ==
  ASSUME frames' # <<>>, NEW f, f = frames'[Len(frames')]
  PROVE  /\ frames'[1].fn = "run" => Looping' = TRUE
         /\ frames'[1].fn # "run" => Looping' = FALSE
         /\ f.fn \in {"run", "recv", "parse"} => Callback' = None
         /\ f.fn \in HookFns => Callback' = Promised!Call(f.fn, NoWatch)
         /\ f.fn = "answer" => Callback' = Promised!Call("answer", f.w)
BY DEF Looping, Callback, InCallback, InFn, Top, HookFns, None, Promised!NoCall,
   Promised!Call

LEMMA StackDepth ==
  ASSUME TypeInv, IInv, frames # <<>>
  PROVE  Len(frames) \in {1, 2, 3} /\ (Len(frames) > 1 <=> Len(frames) # 1)
<1> DEFINE n == Len(frames)
<1>1. n \in Nat \ {0} /\ n <= 3
  BY EmptySeq DEF IInv, StackShape, TypeInv, TypeOK
<1> HIDE DEF n
<1>2. n \in {1, 2, 3} /\ (n > 1 <=> n # 1)
  BY <1>1
<1> QED BY <1>2 DEF n

(* Whatever returns, no callback is under way any more, and the loop goes   *)
(* on if there is one below.                                                *)
LEMMA CallbackReturns ==
  ASSUME TypeInv, IInv, frames # <<>>, Pop
  PROVE  /\ Callback' = None
         /\ Len(frames) = 1 => Looping' = FALSE
         /\ Len(frames) # 1 => Looping' = TRUE
<1>1. /\ frames' \in Seq(FrameSet) /\ Len(frames') = Len(frames) - 1
      /\ \A i \in 1..Len(frames') : frames'[i] = frames[i]
  BY PopStack DEF TypeInv, TypeOK
<1>2. Len(frames) \in {1, 2, 3}
  BY StackDepth
<1>3. CASE Len(frames) = 1
  <2>1. frames' = <<>>
    BY <1>1, <1>3, EmptySeq
  <2> QED BY <1>3, <2>1 DEF Looping, Callback, InCallback, InFn, None, Promised!NoCall,
             Promised!Call
<1>4. CASE Len(frames) \in {2, 3}
  <2>1. frames' # <<>> /\ Len(frames') \in {1, 2}
    BY <1>1, <1>4, EmptySeq
  <2>2. frames[1].fn = "run" /\ (Len(frames) = 3 => frames[2].fn = "parse")
    BY <1>4 DEF IInv, StackShape
  <2>3. frames'[1].fn = "run" /\ frames'[Len(frames')].fn \in {"run", "parse"}
    BY <1>1, <1>4, <2>1, <2>2
  <2> DEFINE f == frames'[Len(frames')]
  <2>4. f.fn \in {"run", "recv", "parse"}
    BY <2>3
  <2>5. f = frames'[Len(frames')]
    OBVIOUS
  <2> HIDE DEF f
  <2>6. Callback' = None
    BY <2>1, <2>4, <2>5, CallbackNext
  <2>7. Looping' = TRUE
    BY <2>1, <2>3, <2>5, CallbackNext
  <2>8. Len(frames) # 1
    BY <1>4
  <2> QED BY <2>6, <2>7, <2>8
<1> QED BY <1>2, <1>3, <1>4

(* Most steps change nothing the application sees.                          *)
LEMMA SessionStutters ==
  ASSUME UNCHANGED <<alive, parser, made, authenticated, watch>>, Reached' = Reached,
         Looping' = Looping, Callback' = Callback
  PROVE  UNCHANGED Promised!sessionVars
<1>1. Asked' = Asked /\ Due' = Due
  BY DEF Asked, Due
<1> QED BY <1>1 DEF Promised!sessionVars

LEMMA ConnectOpens ==
  ASSUME CallbacksOnlySend, TypeInv, IInv, SessionInv, Connect PROVE Promised!Open
<1>1. alive /\ frames = <<>> /\ Looping = FALSE /\ Callback = None
  BY CallsFromOutside, CallbackHere DEF Connect, Looping
<1>2. /\ made' = made + 1 /\ parser' = made' /\ made < MaxConnects
      /\ UNCHANGED <<alive, authenticated, watch>>
  BY DEF Connect
<1>3. Asked' = Asked /\ Due' = Due
  BY <1>2 DEF Asked, Due
<1>4. \/ UNCHANGED <<phase, frames>>
      \/ phase' = [phase EXCEPT ![made'] = "open"] /\ Push(Frame("connected", NULL, NoWatch))
  BY DEF Connect
<1>5. CASE UNCHANGED <<phase, frames>>
  <2>1. Reached' = Reached /\ Looping' = Looping /\ Callback' = Callback
    BY <1>5 DEF Reached, Looping, Callback, InCallback, InFn, Top
  <2>2. Promised!Outside
    BY <1>1 DEF Promised!Outside, None
  <2> QED BY <1>2, <1>3, <2>1, <2>2 DEF Promised!Open
<1>6. CASE phase' = [phase EXCEPT ![made'] = "open"] /\ Push(Frame("connected", NULL, NoWatch))
  <2> DEFINE f == Frame("connected", NULL, NoWatch)
  <2>1. f \in FrameSet /\ f.fn = "connected"
    BY DEF Frame, FrameSet, Fns, HookFns
  <2> HIDE DEF f
  <2>2. frames' # <<>> /\ Len(frames') = 1 /\ frames'[1] = f
    BY <1>1, <1>6, <2>1 DEF Push, f
  <2>3. Looping' = FALSE /\ Callback' = Promised!Call("connected", NoWatch)
    BY <2>1, <2>2, CallbackNext DEF HookFns
  <2>4. made' \in Conns
    BY <1>2, BoundAssumption DEF Conns, TypeInv, TypeOK
  <2>5. Reached' = Reached \cup {made'}
    BY <1>6, <2>4 DEF Reached, TypeInv, TypeOK
  <2> QED BY <1>1, <1>2, <1>3, <2>3, <2>5 DEF Promised!Open, Promised!Outside, None
<1> QED BY <1>4, <1>5, <1>6

LEMMA RunEnters ==
  ASSUME CallbacksOnlySend, TypeInv, IInv, Run PROVE Promised!Enter
<1>1. alive /\ frames = <<>> /\ ~Looping /\ Callback = None /\ parser # NULL
  BY CallsFromOutside, CallbackHere DEF Run, CallbacksOnlySend
<1>2. UNCHANGED <<alive, parser, made, authenticated, watch, phase>>
  BY DEF Run, heap, net
<1>3. Asked' = Asked /\ Due' = Due /\ Reached' = Reached
  BY <1>2 DEF Asked, Due, Reached
<1> DEFINE f == Frame("run", NULL, NoWatch)
<1>4. f.fn = "run"
  BY DEF Frame
<1> HIDE DEF f
<1>5. frames' # <<>> /\ Len(frames') = 1 /\ frames'[1] = f
  BY <1>1 DEF Push, Run, f
<1>6. Looping' = TRUE /\ Callback' = None
  BY <1>4, <1>5, CallbackNext
<1> QED BY <1>1, <1>2, <1>3, <1>6 DEF Promised!Enter, Promised!Outside, Promised!NoStream,
           NULL, None

LEMMA DropCloses ==
  ASSUME CallbacksOnlySend, TypeInv, IInv, Disconnect \/ Free PROVE Promised!Close
<1>1. alive /\ frames = <<>> /\ ~Looping /\ Callback = None
  BY CallsFromOutside, CallbackHere DEF Disconnect, Free
<1>2. /\ UNCHANGED <<made, authenticated, watch, phase, frames>>
      /\ parser' = NULL /\ alive' \in {alive, FALSE}
  BY DEF Disconnect, Free, DropStream
<1>3. Asked' = Asked /\ Due' = Due /\ Reached' = Reached
      /\ Looping' = Looping /\ Callback' = Callback
  BY <1>2 DEF Asked, Due, Reached, Looping, Callback, InCallback, InFn, Top
<1> QED BY <1>1, <1>2, <1>3 DEF Promised!Close, Promised!Outside, Promised!NoStream, NULL, None

LEMMA SendAsks ==
  ASSUME TypeInv, IInv, SessionInv, NEW w \in Watches, NEW id \in StanzaIds,
         SendAndFilter(w, id)
  PROVE  Promised!Ask(w)
<1>1. /\ alive /\ parser # NULL /\ (frames = <<>> \/ InCallback)
      /\ watch[w].st = "unused"
      /\ UNCHANGED <<alive, parser, filter, authenticated, made, frames, phase>>
  BY DEF SendAndFilter, MayCall, client
<1>2. Promised!Outside \/ Promised!InCallback
  BY <1>1, CallbackHere DEF Promised!Outside, Promised!InCallback, None
<1>3. Reached' = Reached /\ Looping' = Looping /\ Callback' = Callback
  BY <1>1 DEF Reached, Looping, Callback, InCallback, InFn, Top
<1>4. watch \in [Watches -> WatchData] /\ w \notin Asked /\ Due[w] = NULL
      /\ parser = filter
  BY <1>1 DEF TypeInv, TypeOK, Asked, Due, SessionInv
<1>5. \/ parser \in up /\ watch' = [watch EXCEPT ![w] = NewWatch(id)]
      \/ watch' = [watch EXCEPT ![w] = [NewWatch(id) EXCEPT !.st = "freed"]]
  BY DEF SendAndFilter, Undo
<1>6. /\ NewWatch(id).st = "live" /\ NewWatch(id).rule = parser
      /\ [NewWatch(id) EXCEPT !.st = "freed"].st = "freed"
  BY <1>4 DEF NewWatch
<1>7. /\ watch'[w].st \in {"live", "freed"}
      /\ \A v \in Watches \ {w} : watch'[v] = watch[v]
  BY <1>4, <1>5, <1>6
<1>8. Asked' = Asked \cup {w}
  BY <1>7 DEF Asked
<1>9. CASE parser \in up /\ watch' = [watch EXCEPT ![w] = NewWatch(id)]
  <2>1. watch'[w].st = "live" /\ watch'[w].rule = parser
    BY <1>4, <1>6, <1>9
  <2>2. Due' = [Due EXCEPT ![w] = parser]
    BY <1>7, <2>1 DEF Due
  <2>3. parser \in Reached
    BY <1>9 DEF SessionInv, Reached, TypeInv, TypeOK
  <2> QED BY <1>1, <1>2, <1>3, <1>4, <1>8, <2>2, <2>3 DEF Promised!Ask, Promised!NoStream, NULL
<1>10. CASE watch' = [watch EXCEPT ![w] = [NewWatch(id) EXCEPT !.st = "freed"]]
  <2>1. watch'[w].st = "freed"
    BY <1>4, <1>6, <1>10
  <2>2. Due' = Due
    BY <1>1, <1>7, <2>1 DEF Due
  <2> QED BY <1>1, <1>2, <1>3, <1>4, <1>8, <2>2 DEF Promised!Ask, Promised!NoStream, NULL
<1> QED BY <1>5, <1>9, <1>10

LEMMA LoopKeeps ==
  ASSUME TypeInv, IInv, SessionInv, Loop
  PROVE  Promised!Leave \/ UNCHANGED Promised!sessionVars
<1>1. UNCHANGED <<alive, parser, made, authenticated, watch, phase>>
  BY DEF Loop, Poll, RunReturn, RecvOk, RecvError, client, heap, net
<1>2. Reached' = Reached /\ Asked' = Asked /\ Due' = Due
  BY <1>1 DEF Reached, Asked, Due
<1>3. InFn({"run", "recv", "parse"}) /\ Looping /\ Callback = None /\ frames # <<>>
  BY CallbackHere DEF Loop, Poll, RunReturn, RecvOk, RecvError, InFn
<1>4. CASE Poll
  <2> DEFINE f == Frame("recv", parser, NoWatch)
  <2>1. f \in FrameSet /\ f.fn = "recv"
    BY DEF Frame, FrameSet, Fns, TypeInv, TypeOK
  <2> HIDE DEF f
  <2>2. /\ frames' \in Seq(FrameSet) /\ Len(frames') = Len(frames) + 1
        /\ frames'[Len(frames')] = f /\ Len(frames) = 1 /\ frames'[1] = frames[1]
    BY <1>3, <1>4, <2>1, PushStack, StackCases DEF Poll, InFn, TypeInv, TypeOK, f
  <2>3. frames' # <<>> /\ frames'[1].fn = "run"
    <3>1. Len(frames') = 2
      BY <2>2
    <3>2. frames' # <<>>
      BY <3>1, EmptySeq
    <3> QED BY <1>3, <2>2, <3>2 DEF Looping
  <2>4. Looping' = TRUE /\ Callback' = None
    BY <2>1, <2>2, <2>3, CallbackNext
  <2> QED BY <1>1, <1>2, <1>3, <2>4, SessionStutters DEF Looping
<1>5. CASE RunReturn
  <2>1. Len(frames) = 1 /\ Pop
    BY <1>5, StackCases DEF RunReturn, InFn
  <2>2. Looping' = FALSE /\ Callback' = None
    BY <1>3, <2>1, CallbackReturns
  <2> QED BY <1>1, <1>2, <1>3, <2>2 DEF Promised!Leave, None
<1>6. CASE RecvOk \/ RecvError
  <2>1. Len(frames) = 2 /\ Pop
    BY <1>6, StackCases DEF RecvOk, RecvError, InFn
  <2>2. Looping' = TRUE /\ Callback' = None
    BY <1>3, <2>1, CallbackReturns
  <2> QED BY <1>1, <1>2, <1>3, <2>2, SessionStutters DEF Looping
<1> QED BY <1>4, <1>5, <1>6 DEF Loop

LEMMA CallbacksReturn ==
  ASSUME TypeInv, IInv, Return PROVE Promised!Return
<1>1. /\ InFn(HookFns \cup {"answer"}) /\ frames # <<>> /\ Pop /\ alive
      /\ UNCHANGED <<alive, parser, made, authenticated, phase>>
  <2>1. /\ InFn(HookFns \cup {"answer"}) /\ Pop
        /\ UNCHANGED <<alive, parser, made, authenticated, phase>>
    BY DEF Return, ConnectReturn, HookReturn, AnswerReturn, HookFns, InFn, client, heap, net
  <2> QED BY <2>1 DEF InFn, IInv, StackPinned
<1>2. Callback' = None /\ Callback # None /\ Reached' = Reached
  BY <1>1, CallbackReturns, CallbackHere DEF InCallback, Reached
<1>3. Looping' = Looping
  <2>1. CASE Len(frames) = 1
    <3>1. frames[1].fn # "run"
      BY <1>1, <2>1 DEF InFn, Top, HookFns
    <3>2. Looping = FALSE /\ Looping' = FALSE
      BY <1>1, <2>1, <3>1, CallbackReturns DEF Looping
    <3> QED BY <3>2
  <2>2. CASE Len(frames) # 1
    <3>1. frames[1].fn = "run"
      BY <1>1, <2>2, StackDepth DEF IInv, StackShape
    <3>2. Looping = TRUE /\ Looping' = TRUE
      BY <1>1, <2>2, <3>1, CallbackReturns DEF Looping
    <3> QED BY <3>2
  <2> QED BY <2>1, <2>2
<1>4. CASE ConnectReturn \/ HookReturn
  <2>1. InFn(HookFns) /\ UNCHANGED watch
    BY <1>4 DEF ConnectReturn, HookReturn, heap, InFn, HookFns
  <2>2. Callback.request = NoWatch /\ Asked' = Asked /\ Due' = Due
    BY <2>1, CallbackHere DEF Promised!Call, Asked, Due
  <2>3. Due' = [r \in Watches |-> IF r = Callback.request THEN NULL ELSE Due[r]]
    BY <2>2, WatchAssumption DEF Due
  <2> QED BY <1>1, <1>2, <1>3, <2>2, <2>3 DEF Promised!Return, Promised!InCallback,
             Promised!NoStream, NULL, None
<1>5. CASE AnswerReturn
  <2>1. /\ InFn({"answer"}) /\ watch' = [watch EXCEPT ![Top.w].st = "freed"]
        /\ Callback.request = Top.w
    BY <1>5, CallbackHere DEF AnswerReturn, FreeWatch, Promised!Call
  <2>2. Top.w \in Watches /\ watch[Top.w].st = "live" /\ watch \in [Watches -> WatchData]
    BY <1>1, <2>1, StackCases DEF IInv, StackPinned, InFn, TypeInv, TypeOK
  <2> DEFINE w == Top.w
  <2> HIDE DEF w
  <2>3. watch'[w].st = "freed" /\ \A v \in Watches \ {w} : watch'[v] = watch[v]
    BY <2>1, <2>2 DEF w, WatchData
  <2>4. Asked' = Asked
    BY <2>2, <2>3 DEF Asked, w
  <2>5. Due' = [r \in Watches |-> IF r = w THEN NULL ELSE Due[r]]
    BY <2>3 DEF Due
  <2> QED BY <1>1, <1>2, <1>3, <2>1, <2>4, <2>5 DEF Promised!Return, Promised!InCallback,
             Promised!NoStream, NULL, None, w
<1> QED BY <1>4, <1>5 DEF Return

LEMMA DeliverCalls ==
  ASSUME TypeInv, IInv, SessionInv, Deliver
  PROVE  \/ UNCHANGED Promised!sessionVars \/ Promised!Trust \/ Promised!Fail
         \/ \E event \in {"authenticated", "message-received", "presence-noticed"} :
              Promised!Hear(event)
         \/ \E w \in Watches : Promised!Answer(w)
<1> DEFINE in == inbox[parser]
           ph == phase[parser]
<1>1. PICK kinds : Incoming(kinds)
  BY DEF Deliver, OnMechanisms, OnSessionFeatures, OnSuccess, OnOutcome, OnAnswer, OnTyped,
     OnUnmatched, OnStreamError
<1>2. /\ Top.obj = parser /\ parser \in Conns /\ in # <<>> /\ Received = Head(in)
      /\ InFn({"run", "recv", "parse"}) /\ alive
  BY <1>1, StackCases DEF Incoming, InFn, Received, IInv, StackPinned
<1>3. in \in Seq(Nodes) /\ authenticated \in BOOLEAN
  BY <1>2 DEF TypeInv, TypeOK
<1>4. /\ Tells(ph, in, outbox[parser])
      /\ Believes(ph, in, outbox[parser], authenticated)
  BY <1>2 DEF SessionInv
<1>5. /\ parser \in Reached /\ Looping /\ Callback = None
      /\ Promised!Waiting
  <2>1. ph # "closed"
    BY <1>2, <1>4 DEF Tells
  <2> QED BY <1>2, <2>1, CallbackHere DEF Reached, Promised!Waiting, None
<1>6. /\ Received.kind \in Heard => authenticated
      /\ Received.kind = "failure" => ~authenticated
  <2>1. /\ Received.kind \in Heard => ~No(in, Heard)
        /\ Received.kind = "failure" => ~No(in, {"failure"})
    BY <1>2, <1>3, QueueShrinks
  <2> QED BY <1>4, <2>1 DEF Tells, Believes
<1>7. UNCHANGED <<alive, parser, made, watch, phase>> /\ Reached' = Reached
      /\ Asked' = Asked /\ Due' = Due
  BY DEF Deliver, OnMechanisms, OnSessionFeatures, OnSuccess, OnOutcome, OnAnswer, OnTyped,
     OnUnmatched, OnStreamError, client, heap, Reached, Asked, Due
<1> HIDE DEF in, ph
<1>8. ASSUME Take(<<>>) PROVE Looping' = Looping /\ Callback' = None
  <2> DEFINE cb == <<>>
  <2>1. cb \in Seq(FrameSet) /\ Len(cb) = 0 /\ Take(cb)
    BY <1>8, EmptySeq
  <2> HIDE DEF cb
  <2>2. /\ Len(frames') = 2 /\ frames'[1].fn = "run" /\ frames' # <<>>
        /\ frames'[2].fn = "parse"
    <3>1. /\ Len(frames') = 2 + Len(cb) /\ frames'[1].fn = "run" /\ frames' # <<>>
          /\ frames'[2].fn = "parse"
      BY <1>1, <2>1, TakeStackHere
    <3> QED BY <2>1, <3>1
  <2> QED BY <1>5, <2>2, CallbackNext DEF Looping
<1>9. ASSUME NEW f \in FrameSet, Take(<<f>>)
      PROVE  /\ Looping' = Looping
             /\ f.fn \in HookFns => Callback' = Promised!Call(f.fn, NoWatch)
             /\ f.fn = "answer" => Callback' = Promised!Call("answer", f.w)
  <2> DEFINE cb == <<f>>
  <2>1. cb \in Seq(FrameSet) /\ Len(cb) = 1 /\ cb[1] = f /\ Take(cb)
    BY <1>9
  <2> HIDE DEF cb
  <2>2. /\ Len(frames') = 3 /\ frames'[1].fn = "run" /\ frames' # <<>> /\ frames'[3] = f
    <3>1. /\ Len(frames') = 2 + Len(cb) /\ frames'[1].fn = "run" /\ frames' # <<>>
          /\ \A j \in 1..Len(cb) : frames'[2 + j] = cb[j]
      BY <1>1, <2>1, TakeStackHere
    <3>2. frames'[2 + 1] = cb[1] /\ 2 + 1 = 3
      BY <2>1, <3>1
    <3> QED BY <2>1, <3>1, <3>2
  <2>3. frames'[Len(frames')] = f
    BY <2>2
  <2> QED BY <1>5, <2>2, <2>3, CallbackNext DEF Looping
<1>10. CASE OnMechanisms \/ OnSessionFeatures \/ OnUnmatched \/ OnStreamError
  <2>1. Take(<<>>) /\ authenticated' = authenticated
    BY <1>10 DEF OnMechanisms, OnSessionFeatures, OnUnmatched, OnStreamError, client
  <2> QED BY <1>5, <1>7, <1>8, <2>1, SessionStutters
<1>11. CASE OnSuccess
  <2>1. Take(<<>>) /\ authenticated' = TRUE
    BY <1>11 DEF OnSuccess
  <2> QED BY <1>5, <1>7, <1>8, <2>1 DEF Promised!Trust
<1>12. CASE OnOutcome
  <2> DEFINE f == Frame(OutcomeEvent, NULL, NoWatch)
  <2>1. f \in FrameSet /\ f.fn = OutcomeEvent /\ OutcomeEvent \in HookFns
    BY DEF Frame, FrameSet, Fns, HookFns, OutcomeEvent
  <2>2. Take(<<f>>) /\ authenticated' = authenticated
    BY <1>12 DEF OnOutcome, client
  <2> HIDE DEF f
  <2>3. Looping' = Looping /\ Callback' = Promised!Call(OutcomeEvent, NoWatch)
    BY <1>9, <2>1, <2>2
  <2>4. Promised!Enters(OutcomeEvent, NoWatch)
    BY <1>5, <1>7, <2>2, <2>3 DEF Promised!Enters
  <2>5. \/ OutcomeEvent = "authenticated" /\ authenticated
        \/ OutcomeEvent = "authentication-failed" /\ ~authenticated
    BY <1>6, <1>12 DEF OnOutcome, Incoming, OutcomeEvent, IsAuthIq, Heard
  <2>6. Promised!Hear("authenticated") \/ Promised!Fail
    BY <2>4, <2>5 DEF Promised!Hear, Promised!Fail
  <2> QED BY <2>6
<1>13. CASE OnTyped
  <2> DEFINE f == Frame(Received.kind, filter, NoWatch)
  <2>1. Received.kind \in {"message-received", "presence-noticed"}
    BY <1>13 DEF OnTyped, Incoming
  <2>2. f \in FrameSet /\ f.fn = Received.kind /\ f.fn \in HookFns
    BY <2>1 DEF Frame, FrameSet, Fns, HookFns, TypeInv, TypeOK
  <2>3. Take(<<f>>) /\ authenticated' = authenticated
    BY <1>13 DEF OnTyped, client
  <2> HIDE DEF f
  <2>4. Looping' = Looping /\ Callback' = Promised!Call(Received.kind, NoWatch)
    BY <1>9, <2>2, <2>3
  <2>5. Promised!Enters(Received.kind, NoWatch) /\ authenticated
    BY <1>5, <1>6, <1>7, <2>1, <2>3, <2>4 DEF Promised!Enters, Heard
  <2>6. Promised!Hear(Received.kind)
    BY <2>5 DEF Promised!Hear
  <2> QED BY <2>1, <2>6
<1>14. CASE \E w \in Watches : OnAnswer(w)
  <2> PICK w \in Watches : OnAnswer(w)
    BY <1>14
  <2> DEFINE f == Frame("answer", filter, w)
  <2>1. f \in FrameSet /\ f.fn = "answer" /\ f.w = w
    BY DEF Frame, FrameSet, Fns, TypeInv, TypeOK
  <2>2. Take(<<f>>) /\ authenticated' = authenticated /\ Received.kind = "pak"
    BY DEF OnAnswer, client, Incoming
  <2> HIDE DEF f
  <2>3. Looping' = Looping /\ Callback' = Promised!Call("answer", w)
    BY <1>9, <2>1, <2>2
  <2>4. Promised!Enters("answer", w) /\ authenticated
    BY <1>5, <1>6, <1>7, <2>2, <2>3 DEF Promised!Enters, Heard
  <2>5. Due[w] = parser
    <3>1. filter \in Conns /\ w \in rules[filter] /\ parser = filter
      BY DEF OnAnswer, Answered, TypeInv, TypeOK, SessionInv
    <3>2. watch[w].st = "live" /\ watch[w].rule = parser
      BY <3>1 DEF IInv, RuleOwnsWatch
    <3> QED BY <3>2 DEF Due
  <2>6. Promised!Answer(w)
    BY <2>4, <2>5 DEF Promised!Answer
  <2> QED BY <2>6
<1> QED BY <1>10, <1>11, <1>12, <1>13, <1>14 DEF Deliver

LEMMA InitPromised == Init => Promised!Init
<1> SUFFICES ASSUME Init PROVE Promised!Init
  OBVIOUS
<1>1. /\ alive = TRUE /\ parser = NULL /\ made = 0 /\ authenticated = FALSE
      /\ frames = <<>> /\ (\A c \in Conns : phase[c] = "closed")
      /\ \A w \in Watches : watch[w].st = "unused"
  BY DEF Init
<1>2. Looping = FALSE /\ Callback = None
  BY <1>1 DEF Looping, Callback, InCallback, InFn, None, Promised!NoCall, Promised!Call
<1>3. Reached = {} /\ Asked = {}
  BY <1>1 DEF Reached, Asked
<1>4. Due = [w \in Watches |-> NULL]
  BY <1>1 DEF Due
<1> QED BY <1>1, <1>2, <1>3, <1>4 DEF Promised!Init, Promised!NoStream, NULL, None

LEMMA SessionStep ==
  ASSUME CallbacksOnlySend, TypeInv, IInv, SessionInv, [Next]_vars
  PROVE  SessionInv' /\ [Promised!Next]_Promised!sessionVars
<1>1. CASE Connect
  BY <1>1, ConnectTells, ConnectOpens DEF Promised!Next
<1>2. CASE Run
  BY <1>2, CallTells, RunEnters DEF Promised!Next
<1>3. CASE Disconnect \/ Free
  BY <1>3, CallTells, DropCloses DEF Promised!Next
<1>4. CASE \E w \in Watches, id \in StanzaIds : SendAndFilter(w, id)
  BY <1>4, CallTells, SendAsks DEF Promised!Next
<1>5. CASE Loop
  BY <1>5, CallTells, LoopKeeps DEF Promised!Next
<1>6. CASE Return
  BY <1>6, CallTells, CallbacksReturn DEF Promised!Next
<1>7. CASE Deliver
  <2>1. OwnStream /\ parser # NULL
    <3>1. InFn({"recv", "parse"})
      BY <1>7 DEF Deliver, OnMechanisms, OnSessionFeatures, OnSuccess, OnOutcome, OnAnswer,
         OnTyped, OnUnmatched, OnStreamError, Incoming
    <3> QED BY <3>1, StackCases DEF OwnStream, InFn, IInv, StackPinned
  <2> QED BY <1>7, <2>1, DeliverTells, DeliverCalls DEF Promised!Next
<1>8. CASE Server
  <2>1. SessionInv' /\ Reached' = Reached
    BY <1>8, ServerTellsAll
  <2>2. UNCHANGED <<client, heap, frames>>
    BY <1>8 DEF Server, ServerProgress, ServerOffer, ServerAuth, ServerRestart, ServerBind,
       ServerSession, ServerStanza, ServerReject, ServerRoute, LoseConnection
  <2>3. Looping' = Looping /\ Callback' = Callback
    BY <2>2 DEF Looping, Callback, InCallback, InFn, Top
  <2> QED BY <2>1, <2>2, <2>3, SessionStutters DEF client, heap
<1>9. CASE UNCHANGED vars
  <2>1. SessionInv' /\ Reached' = Reached /\ Looping' = Looping /\ Callback' = Callback
    BY <1>9 DEF SessionInv, Reached, Looping, Callback, InCallback, InFn, Top, vars, client,
       heap, net
  <2> QED BY <1>9, <2>1, SessionStutters DEF vars, client, heap
<1> QED BY <1>1, <1>2, <1>3, <1>4, <1>5, <1>6, <1>7, <1>8, <1>9 DEF Next, Application

(* The client implements Session: for any number of streams, requests and   *)
(* ids, whatever the application does outside its callbacks and whatever    *)
(* the server offers (xmpp.c:176-192, 519-550, 684-760).                    *)
THEOREM SessionPromised == ASSUME CallbacksOnlySend PROVE Spec => ImplementsSession
<1>1. Init => SessionInv /\ Promised!Init
  BY InitTells, InitPromised
<1>2. TypeInv /\ IInv /\ SessionInv /\ [Next]_vars
        => SessionInv' /\ [Promised!Next]_Promised!sessionVars
  BY SessionStep
<1> QED BY <1>1, <1>2, SafeInvariant, PTL DEF Spec, ImplementsSession, Promised!Spec
=============================================================================
