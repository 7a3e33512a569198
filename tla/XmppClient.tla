----------------------------- MODULE XmppClient -----------------------------
(***************************************************************************)
(* The XMPP client of src/xmpp.c: the life of a session (connect, run,     *)
(* SASL, bind, session, disconnect), the answers an application waits for  *)
(* (send_and_filter and its watcher), and the re-entrancy that makes both  *)
(* hard: iksemel calls taningia back from inside iks_recv(), taningia      *)
(* calls the application's hooks from there, and the hooks call taningia.  *)
(*                                                                         *)
(* The C call stack is state.  A frame is pushed when a function that      *)
(* calls back is entered and popped when it returns, and it records the    *)
(* heap object the function goes on using after the callback:              *)
(*   "run"                    _ta_xmpp_client_do_run                       *)
(*   "recv" / "parse"         iks_recv() on parser obj, before / after the *)
(*                            first node of this call was handed over      *)
(*   "answer"                 the watcher of w, called by the filter obj   *)
(*   "message-received", "presence-noticed"   hooks, called by filter obj  *)
(*   "connected", "authenticated", "authentication-failed"   hooks         *)
(* What hooks are connected to an event is the business of EventHooks;     *)
(* here the frame of an event stands for all of them, so the application   *)
(* may make any number of calls before it is popped.                       *)
(*                                                                         *)
(* ta_xmpp_client_init sets use_sasl = 1 and use_tls = 0 and nothing ever  *)
(* changes them, so the branches for other values are unreachable and are  *)
(* left out.  Logging and the thread's error record are left out as well:  *)
(* the client's control flow never reads them.                             *)
(***************************************************************************)
EXTENDS Integers, Sequences, FiniteSets

CONSTANTS
  Watches,        \* the watch_data allocations of a behaviour
  StanzaIds,      \* values of the id attribute of a stanza
  NoWatch,        \* "no watcher", in frames that have none
  NoId,           \* "no id", in a stanza or a watcher without one
  AuthId,         \* the id "auth", which the client gives its own request
  AppOps,         \* calls the application makes outside any callback
  HookOps,        \* calls its callbacks make
  SaslOffers,     \* feature sets the server may offer on a new stream
  SessionOffers,  \* feature sets it may offer on an authenticated one
  MaxConnects,    \* bound: calls of ta_xmpp_client_connect
  MaxQueue        \* bound: stanzas in flight in one direction

(* A "reconnect" is a connect that was not preceded by a disconnect, a      *)
(* "run-closed" a run without a stream.                                     *)
Ops == {"connect", "reconnect", "run", "run-closed", "disconnect", "filter",
        "free"}
Features == {"md5", "plain", "bind", "session"}

ASSUME WatchAssumption == NoWatch \notin Watches
ASSUME IdAssumption == NoId \notin StanzaIds \cup {AuthId}
ASSUME OpsAssumption == AppOps \subseteq Ops /\ HookOps \subseteq Ops
ASSUME OfferAssumption ==
  /\ SaslOffers \subseteq SUBSET Features
  /\ SessionOffers \subseteq SUBSET Features
ASSUME BoundAssumption == MaxConnects \in Nat \ {0} /\ MaxQueue \in Nat \ {0}

(* Each connect allocates one parser and one filter; the n-th call's are    *)
(* both named n.  NULL is the null pointer.                                 *)
NULL == 0
Conns == 1..MaxConnects

VARIABLES
  alive,          \* the client object has not been freed
  parser,         \* client->parser
  filter,         \* client->filter
  authenticated,  \* client->authenticated
  running,        \* client->running
  made,           \* how many connections were ever allocated
  parsers,        \* iksemel parsers allocated and not deleted
  filters,        \* iksemel filters allocated and not deleted
  subscribed,     \* filters with the message and presence rules
  rules,          \* filter -> the watchers with a rule in it
  watch,          \* watcher -> its watch_data
  frames,         \* the call stack, bottom first
  up,             \* connections whose TCP stream is open
  phase,          \* connection -> what the server thinks of it
  inbox,          \* connection -> nodes on their way to the client
  outbox,         \* connection -> stanzas on their way to the server
  told            \* history: connections whose outcome a hook was told

client == <<alive, parser, filter, authenticated, running>>
heap == <<made, parsers, filters, subscribed, rules, watch>>
net == <<up, phase, inbox, outbox>>
vars == <<client, heap, frames, net, told>>

Ids == StanzaIds \cup {AuthId}
WatchData == [st : {"unused", "live", "freed"}, id : Ids \cup {NoId},
              rule : Conns \cup {NULL}]
HookFns == {"connected", "authenticated", "authentication-failed",
            "message-received", "presence-noticed"}
Fns == {"run", "recv", "parse", "answer"} \cup HookFns
FrameSet == [fn : Fns, obj : Conns \cup {NULL}, w : Watches \cup {NoWatch}]
Phases == {"closed", "open", "offered", "accepted", "ready", "bound",
           "session"}

(* Nodes the server sends, stanzas the client sends.  A "pak" is an answer  *)
(* or another stanza with an id.                                            *)
Nodes == [kind : {"features", "success", "failure", "error", "pak",
                  "message-received", "presence-noticed"},
          id : Ids \cup {NoId}, offer : SUBSET Features]
Stanzas == [kind : Features \cup {"header", "stanza"}, id : Ids \cup {NoId}]
Offer(f) == [kind |-> "features", id |-> NoId, offer |-> f]
Node(kind) == [kind |-> kind, id |-> NoId, offer |-> {}]
Pak(id) == [kind |-> "pak", id |-> id, offer |-> {}]
Stanza(kind, id) == [kind |-> kind, id |-> id]

Frame(fn, obj, w) == [fn |-> fn, obj |-> obj, w |-> w]
Push(f) == frames' = Append(frames, f)
Pop == frames' = SubSeq(frames, 1, Len(frames) - 1)
Top == frames[Len(frames)]
InFn(fns) == frames # <<>> /\ Top.fn \in fns

(* Application code runs outside every frame, or inside a callback.         *)
InCallback == InFn(HookFns \cup {"answer"})
MayCall(op) == /\ alive
               /\ \/ frames = <<>> /\ op \in AppOps
                  \/ InCallback /\ op \in HookOps

Send(c, s) == outbox' = [outbox EXCEPT ![c] = Append(@, s)]

Init ==
  /\ alive = TRUE
  /\ parser = NULL /\ filter = NULL
  /\ authenticated = FALSE /\ running = FALSE
  /\ made = 0
  /\ parsers = {} /\ filters = {} /\ subscribed = {}
  /\ rules = [c \in Conns |-> {}]
  /\ watch = [w \in Watches |-> [st |-> "unused", id |-> NoId, rule |-> NULL]]
  /\ frames = <<>>
  /\ up = {} /\ phase = [c \in Conns |-> "closed"]
  /\ inbox = [c \in Conns |-> <<>>] /\ outbox = [c \in Conns |-> <<>>]
  /\ told = {}
-----------------------------------------------------------------------------
(* The public API                                                           *)

(* ta_xmpp_client_connect up to the point where it has tried the network.   *)
(* The pointers are overwritten whether or not they held something: an      *)
(* application that disconnects first makes a "connect", one that does not  *)
(* makes a "reconnect".  On failure both objects stay in the client.  On    *)
(* success the hooks of "connected" are called.                             *)
Connect ==
  /\ MayCall(IF parser = NULL THEN "connect" ELSE "reconnect")
  /\ made < MaxConnects
  /\ LET c == made + 1 IN
     /\ made' = c
     /\ parser' = c /\ parsers' = parsers \cup {c}
     /\ filter' = c /\ filters' = filters \cup {c}
     /\ \/ /\ up' = up \cup {c}
           /\ phase' = [phase EXCEPT ![c] = "open"]
           /\ Push(Frame("connected", NULL, NoWatch))
        \/ UNCHANGED <<up, phase, frames>>
  /\ UNCHANGED <<alive, authenticated, running, subscribed, rules, watch,
                 inbox, outbox, told>>

(* The rest of ta_xmpp_client_connect, once the hooks have returned: the    *)
(* rules for messages and presences go into whatever client->filter is now. *)
ConnectReturn ==
  /\ InFn({"connected"})
  /\ subscribed' = subscribed \cup {filter}
  /\ Pop
  /\ UNCHANGED <<client, made, parsers, filters, rules, watch, net, told>>

(* ta_xmpp_client_run enters the loop.                                      *)
Run ==
  /\ MayCall(IF parser = NULL THEN "run-closed" ELSE "run")
  /\ running' = TRUE
  /\ Push(Frame("run", NULL, NoWatch))
  /\ UNCHANGED <<alive, parser, filter, authenticated, heap, net, told>>

(* What ta_xmpp_client_disconnect and ta_xmpp_client_free have in common:   *)
(* each deletes the parser and the filter if there is one.  Deleting the    *)
(* filter frees its rules but not the watch_data they point to; deleting    *)
(* the parser closes its socket.                                            *)
DropStream_KeepsFilter ==
  /\ parser' = NULL /\ parsers' = parsers \ {parser}
  /\ filter' = NULL
  /\ up' = up \ {parser}
  /\ UNCHANGED <<filters, subscribed, rules>>

DropStream ==
  /\ parser' = NULL /\ parsers' = parsers \ {parser}
  /\ filter' = NULL /\ filters' = filters \ {filter}
  /\ subscribed' = subscribed \ {filter}
  /\ rules' = [c \in Conns |-> IF c = filter THEN {} ELSE rules[c]]
  /\ up' = up \ {parser}

Disconnect ==
  /\ MayCall("disconnect")
  /\ running' = FALSE
  /\ DropStream
  /\ UNCHANGED <<alive, authenticated, made, watch, frames, phase, inbox,
                 outbox, told>>

(* ta_object_unref drops the last reference: ta_xmpp_client_free.           *)
Free ==
  /\ MayCall("free")
  /\ alive' = FALSE
  /\ DropStream
  /\ UNCHANGED <<authenticated, running, made, watch, frames, phase, inbox,
                 outbox, told>>

(* wdata_new, and "Must be filled by hand": the rule it gets.               *)
NewWatch(id) == [st |-> "live", id |-> id, rule |-> filter]

(* iks_send fails: the rule is removed again and the watch_data freed.      *)
Undo_KeepsRule(w, id) ==
  /\ watch' = [watch EXCEPT ![w] = [NewWatch(id) EXCEPT !.st = "freed"]]
  /\ rules' = [rules EXCEPT ![filter] = @ \cup {w}]
  /\ UNCHANGED outbox

Undo(w, id) ==
  /\ watch' = [watch EXCEPT ![w] = [NewWatch(id) EXCEPT !.st = "freed"]]
  /\ UNCHANGED <<rules, outbox>>

(* ta_xmpp_client_send_and_filter, documented to be called only while the   *)
(* client runs properly, so with a stream.  The rule goes in before the     *)
(* stanza goes out.  A stanza without an id is refused before anything      *)
(* changes.                                                                 *)
SendAndFilter(w, id) ==
  /\ MayCall("filter")
  /\ parser # NULL
  /\ watch[w].st = "unused"
  /\ \/ /\ parser \in up /\ Len(outbox[parser]) < MaxQueue
        /\ watch' = [watch EXCEPT ![w] = NewWatch(id)]
        /\ rules' = [rules EXCEPT ![filter] = @ \cup {w}]
        /\ Send(parser, Stanza("stanza", id))
     \/ Undo(w, id)
  /\ UNCHANGED <<client, made, parsers, filters, subscribed, frames, up,
                 phase, inbox, told>>
-----------------------------------------------------------------------------
(* The main loop                                                            *)

(* One turn of the loop calls iks_recv on client->parser.                   *)
Poll ==
  /\ InFn({"run"}) /\ running
  /\ Push(Frame("recv", parser, NoWatch))
  /\ UNCHANGED <<client, heap, net, told>>

(* The loop sees running = 0 and ta_xmpp_client_run returns.                *)
RunReturn ==
  /\ InFn({"run"}) /\ ~running
  /\ Pop
  /\ UNCHANGED <<client, heap, net, told>>

(* iks_recv returns IKS_OK once it has handed over what it read.            *)
RecvOk ==
  /\ InFn({"parse"})
  /\ Pop
  /\ UNCHANGED <<client, heap, net, told>>

(* iks_recv returns IKS_NET_NOCONN, IKS_NET_RWERR or any other error, after *)
(* which the code does the same and reads no more.  A connection is up as   *)
(* long as iks_recv can read it: one whose XML is broken, or for which there *)
(* is no memory, is lost here as well.                                      *)
RecvError_KeepsRunning ==
  /\ InFn({"recv", "parse"})
  /\ Top.obj \notin up
  /\ Pop
  /\ UNCHANGED <<client, heap, net, told>>

RecvError ==
  /\ InFn({"recv", "parse"})
  /\ Top.obj \notin up
  /\ running' = FALSE
  /\ Pop
  /\ UNCHANGED <<alive, parser, filter, authenticated, heap, net, told>>
-----------------------------------------------------------------------------
(* _ta_xmpp_client_hook: iks_recv hands over one node                       *)

(* The node the innermost iks_recv hands over next, and its removal from    *)
(* the queue; callbacks, the frames it pushes on top of iks_recv.           *)
Received == Head(inbox[Top.obj])
Incoming(kinds) ==
  /\ InFn({"recv", "parse"})
  /\ Top.obj \in Conns /\ inbox[Top.obj] # <<>>
  /\ Received.kind \in kinds
Take(callbacks) ==
  /\ inbox' = [inbox EXCEPT ![Top.obj] = Tail(@)]
  /\ frames' = [frames EXCEPT ![Len(frames)].fn = "parse"] \o callbacks

(* _on_features, not yet authenticated: DIGEST-MD5 is preferred to PLAIN;   *)
(* with neither on offer nothing is sent.                                   *)
OnMechanisms ==
  /\ Incoming({"features"}) /\ ~authenticated
  /\ IF Received.offer \cap {"md5", "plain"} # {}
     THEN Send(parser, Stanza(IF "md5" \in Received.offer THEN "md5" ELSE "plain", NoId))
     ELSE UNCHANGED outbox
  /\ Take(<<>>)
  /\ UNCHANGED <<client, heap, up, phase, told>>

(* _on_features, authenticated: bind and session are requested without      *)
(* waiting for an answer in between.                                        *)
RequestSession ==
  LET Ask(f) == IF f \in Received.offer THEN <<Stanza(f, NoId)>> ELSE <<>> IN
  outbox' = [outbox EXCEPT ![parser] = @ \o Ask("bind") \o Ask("session")]

OnSessionFeatures_Unguarded ==
  /\ Incoming({"features"})
  /\ RequestSession
  /\ Take(<<>>)
  /\ UNCHANGED <<client, heap, up, phase, told>>

OnSessionFeatures ==
  /\ Incoming({"features"}) /\ authenticated
  /\ RequestSession
  /\ Take(<<>>)
  /\ UNCHANGED <<client, heap, up, phase, told>>

(* _on_success: the stream is restarted and the flag set.                   *)
OnSuccess_FlagUnset ==
  /\ Incoming({"success"})
  /\ Send(parser, Stanza("header", NoId))
  /\ Take(<<>>)
  /\ UNCHANGED <<client, heap, up, phase, told>>

OnSuccess ==
  /\ Incoming({"success"})
  /\ authenticated' = TRUE
  /\ Send(parser, Stanza("header", NoId))
  /\ Take(<<>>)
  /\ UNCHANGED <<alive, parser, filter, running, heap, up, phase, told>>

(* <iq type="result" id="auth"> and <failure> call the application.  A pak  *)
(* with that id stands for an iq of type "result": no other stanza that is  *)
(* sent here has the id.  The client does not look at who sent it, nor at   *)
(* what it answers, so it takes for its own an answer to a stanza the       *)
(* application gave that id.                                                *)
IsAuthIq == Received.kind = "pak" /\ Received.id = AuthId
OutcomeEvent_Misspelt ==
  IF IsAuthIq THEN "authenticated" ELSE "authentication_failed"

OutcomeEvent == IF IsAuthIq THEN "authenticated" ELSE "authentication-failed"

OnOutcome ==
  /\ Incoming({"pak", "failure"})
  /\ Received.kind = "pak" => IsAuthIq
  /\ Take(<<Frame(OutcomeEvent, NULL, NoWatch)>>)
  /\ told' = told \cup {Top.obj}
  /\ UNCHANGED <<client, heap, up, phase, outbox>>

(* Every other node goes through client->filter, if there is one.  A rule   *)
(* of type id matches a packet with that id, whoever sent it.               *)
Answered == {w \in Watches : filter # NULL /\ w \in rules[filter]
                                           /\ watch[w].id = Received.id}

OnAnswer(w) ==
  /\ Incoming({"pak"}) /\ ~IsAuthIq /\ w \in Answered
  /\ Take(<<Frame("answer", filter, w)>>)
  /\ UNCHANGED <<client, heap, up, phase, outbox, told>>

OnTyped ==
  /\ Incoming({"message-received", "presence-noticed"})
  /\ filter \in subscribed
  /\ Take(<<Frame(Received.kind, filter, NoWatch)>>)
  /\ UNCHANGED <<client, heap, up, phase, outbox, told>>

(* No rule matches: the node is dropped.                                    *)
OnUnmatched ==
  /\ Incoming({"pak", "message-received", "presence-noticed"})
  /\ IF Received.kind = "pak" THEN ~IsAuthIq /\ Answered = {}
     ELSE filter \notin subscribed
  /\ Take(<<>>)
  /\ UNCHANGED <<client, heap, up, phase, outbox, told>>

(* IKS_NODE_ERROR is only logged.                                           *)
OnStreamError ==
  /\ Incoming({"error"})
  /\ Take(<<>>)
  /\ UNCHANGED <<client, heap, up, phase, outbox, told>>

(* _ta_xmpp_client_ikshook_watcher once the user's callback has returned:   *)
(* its rule is removed from the filter the client has now, if it has one,   *)
(* and the watch_data is freed.                                             *)
RemoveRule_Skipped(w) == UNCHANGED rules
RemoveRule_EveryWatcher(w) == rules' = [rules EXCEPT ![filter] = {}]

RemoveRule(w) ==
  rules' = [c \in Conns |-> IF c = filter /\ watch[w].rule # NULL
                            THEN rules[c] \ {w} ELSE rules[c]]

FreeWatch_Forgotten(w) == UNCHANGED watch

FreeWatch(w) == watch' = [watch EXCEPT ![w].st = "freed"]

AnswerReturn ==
  /\ InFn({"answer"})
  /\ RemoveRule(Top.w)
  /\ FreeWatch(Top.w)
  /\ Pop
  /\ UNCHANGED <<client, made, parsers, filters, subscribed, net, told>>

(* The hooks of an event other than "connected" have returned.              *)
HookReturn ==
  /\ InFn(HookFns \ {"connected"})
  /\ Pop
  /\ UNCHANGED <<client, heap, net, told>>
-----------------------------------------------------------------------------
(* The server and the network (external): an XMPP server as the client's    *)
(* code expects it, over one reliable ordered stream per connection.        *)

Reply(c, node) == inbox' = [inbox EXCEPT ![c] = Append(@, node)]
Request(c, kinds) ==
  /\ c \in up /\ outbox[c] # <<>> /\ Head(outbox[c]).kind \in kinds
  /\ outbox' = [outbox EXCEPT ![c] = Tail(@)]
Enter(c, p) == phase' = [phase EXCEPT ![c] = p]

ServerOffer(c) ==
  /\ c \in up /\ phase[c] = "open"
  /\ \E offer \in SaslOffers : Reply(c, Offer(offer))
  /\ Enter(c, "offered")
  /\ UNCHANGED <<client, heap, frames, up, outbox, told>>

ServerAuth(c) ==
  /\ phase[c] = "offered" /\ Request(c, {"md5", "plain"})
  /\ \/ Reply(c, Node("success")) /\ Enter(c, "accepted")
     \/ Reply(c, Node("failure")) /\ UNCHANGED phase
  /\ UNCHANGED <<client, heap, frames, up, told>>

ServerRestart(c) ==
  /\ phase[c] = "accepted" /\ Request(c, {"header"})
  /\ \E offer \in SessionOffers : Reply(c, Offer(offer))
  /\ Enter(c, "ready")
  /\ UNCHANGED <<client, heap, frames, up, told>>

(* The answer to bind carries no id: the client's request has none.         *)
ServerBind(c) ==
  /\ phase[c] = "ready" /\ Request(c, {"bind"})
  /\ Reply(c, Pak(NoId)) /\ Enter(c, "bound")
  /\ UNCHANGED <<client, heap, frames, up, told>>

ServerSession(c) ==
  /\ phase[c] \in {"ready", "bound"} /\ Request(c, {"session"})
  /\ Reply(c, Pak(AuthId)) /\ Enter(c, "session")
  /\ UNCHANGED <<client, heap, frames, up, told>>

(* On an authenticated stream every stanza is answered, with its id.        *)
ServerStanza(c) ==
  /\ phase[c] \in {"ready", "bound", "session"}
  /\ outbox[c] # <<>>
  /\ Request(c, {"stanza"})
  /\ Reply(c, Pak(Head(outbox[c]).id))
  /\ UNCHANGED <<client, heap, frames, up, phase, told>>

(* What does not fit the phase of the stream is a stream error.             *)
Expected == [p \in Phases |->
  CASE p = "offered"  -> {"md5", "plain"}
    [] p = "accepted" -> {"header"}
    [] p = "ready"    -> {"bind", "session", "stanza"}
    [] p = "bound"    -> {"session", "stanza"}
    [] p = "session"  -> {"stanza"}
    [] OTHER          -> {}]

ServerReject(c) ==
  /\ phase[c] # "open"
  /\ \E kind \in (Features \cup {"header", "stanza"}) \ Expected[phase[c]] :
       Request(c, {kind})
  /\ Reply(c, Node("error"))
  /\ up' = up \ {c}
  /\ UNCHANGED <<client, heap, frames, phase, told>>

(* Other entities write to the client, with ids of their own choosing.      *)
ServerRoute(c) ==
  /\ c \in up /\ phase[c] = "session"
  /\ Len(inbox[c]) < MaxQueue
  /\ \/ \E id \in StanzaIds \ {AuthId} : Reply(c, Pak(id))
     \/ \E kind \in {"message-received", "presence-noticed"} :
          Reply(c, Node(kind))
  /\ UNCHANGED <<client, heap, frames, up, phase, outbox, told>>

LoseConnection(c) ==
  /\ c \in up
  /\ up' = up \ {c}
  /\ UNCHANGED <<client, heap, frames, phase, inbox, outbox, told>>
-----------------------------------------------------------------------------
Application ==
  \/ Connect \/ Run \/ Disconnect \/ Free
  \/ \E w \in Watches, id \in StanzaIds : SendAndFilter(w, id)

(* What happens without a decision of the application: the loop, the        *)
(* handlers, and callbacks returning.                                       *)
Deliver ==
  \/ OnMechanisms \/ OnSessionFeatures \/ OnSuccess \/ OnOutcome
  \/ \E w \in Watches : OnAnswer(w)
  \/ OnTyped \/ OnUnmatched \/ OnStreamError
Loop == Poll \/ RunReturn \/ RecvOk \/ RecvError
Return == ConnectReturn \/ HookReturn \/ AnswerReturn

ServerProgress(c) ==
  \/ ServerOffer(c) \/ ServerAuth(c) \/ ServerRestart(c)
  \/ ServerBind(c) \/ ServerSession(c) \/ ServerStanza(c)
  \/ ServerReject(c)
Server == \E c \in Conns : ServerProgress(c) \/ ServerRoute(c)
                                             \/ LoseConnection(c)

Next == Application \/ Deliver \/ Loop \/ Return \/ Server

Spec == Init /\ [][Next]_vars

(* The main loop is a loop, iksemel hands over what it has read, hooks      *)
(* return, and a server that is reached serves.  The application is free    *)
(* to do nothing, and the network to stay up for ever.                      *)
Fairness ==
  /\ WF_vars(Deliver) /\ WF_vars(Loop) /\ WF_vars(Return)
  /\ \A c \in Conns : WF_vars(ServerProgress(c))
FairSpec == Spec /\ Fairness
-----------------------------------------------------------------------------
(* Properties                                                               *)

TypeOK ==
  /\ alive \in BOOLEAN /\ authenticated \in BOOLEAN /\ running \in BOOLEAN
  /\ parser \in Conns \cup {NULL} /\ filter \in Conns \cup {NULL}
  /\ made \in 0..MaxConnects
  /\ parsers \subseteq Conns /\ filters \subseteq Conns
  /\ subscribed \subseteq Conns \cup {NULL}
  /\ rules \in [Conns -> SUBSET Watches]
  /\ watch \in [Watches -> WatchData]
  /\ frames \in Seq(FrameSet)
  /\ up \subseteq Conns /\ phase \in [Conns -> Phases]
  /\ inbox \in [Conns -> Seq(Nodes)] /\ outbox \in [Conns -> Seq(Stanzas)]
  /\ told \subseteq Conns

(* No function on the call stack comes back from a callback to memory that  *)
(* was freed under it: iks_recv() goes on with its parser, connect with the *)
(* client's filter, the watcher with its watch_data, all with the client.   *)
FrameLive(f) ==
  /\ f.fn \in {"recv", "parse"} => f.obj \in parsers
  /\ f.fn = "connected" => filter \in filters
  /\ f.fn = "answer" => watch[f.w].st = "live"
FramesLive == \A i \in DOMAIN frames : alive /\ FrameLive(frames[i])

(* A packet never reaches a watcher whose watch_data is gone: every rule of *)
(* a filter points to a live watch_data, which points back to that filter's *)
(* rule ("removes itself from `client->filter' property", xmpp.c:176).      *)
RuleOwnsWatch ==
  \A c \in Conns : \A w \in rules[c] :
    watch[w].st = "live" /\ watch[w].rule = c

(* A watch_data that has not been freed is still waiting: its rule is in    *)
(* the filter it was added to, as long as that filter exists.               *)
LiveWatchWaits ==
  \A w \in Watches :
    watch[w].st = "live" /\ watch[w].rule \in filters
      => w \in rules[watch[w].rule]

(* Watchers and rules belong to each other, both ways: no packet reaches a  *)
(* watcher that is gone, and no watcher waits without a rule.               *)
RulesMatchWatches == RuleOwnsWatch /\ LiveWatchWaits

(* The application is called back as Session says: one callback at a time,  *)
(* each request's at most once and never after its stream was closed, and   *)
(* what comes of a session only once it is authenticated.  The callback is  *)
(* on top of the stack, and an answer is due while its watcher is live.     *)
Callback == [event |-> IF InCallback THEN Top.fn ELSE "none",
             request |-> IF InFn({"answer"}) THEN Top.w ELSE NoWatch]
Looping == frames # <<>> /\ frames[1].fn = "run"
Reached == {c \in Conns : phase[c] # "closed"}
Asked == {w \in Watches : watch[w].st # "unused"}
Due == [w \in Watches |-> IF watch[w].st = "live" THEN watch[w].rule ELSE NULL]

Promised == INSTANCE Session WITH
  Requests <- Watches, NoRequest <- NoWatch, usable <- alive, stream <- parser,
  opened <- made, reached <- Reached, trusted <- authenticated, looping <- Looping,
  calling <- Callback, asked <- Asked, due <- Due
ImplementsSession == Promised!Spec

(* The client owns every parser and every filter that exists, so disconnect *)
(* or free reaches them; and it has both or neither.                        *)
OneStream ==
  /\ parsers = {parser} \ {NULL} /\ filters = {filter} \ {NULL}
  /\ parser = filter

(* The strengthening that makes FramesLive, RuleOwnsWatch and               *)
(* LiveWatchWaits inductive for an application whose callbacks only send:   *)
(* one loop calls one iks_recv calls one callback, all on the client's own  *)
(* stream, whose objects exist, and connections are numbered as they are    *)
(* made.                                                                    *)
StackShape ==
  /\ Len(frames) <= 3
  /\ Len(frames) = 1 => frames[1].fn \in {"run", "connected"}
  /\ Len(frames) > 1 => frames[1].fn = "run"
  /\ Len(frames) = 2 => frames[2].fn \in {"recv", "parse"}
  /\ Len(frames) = 3 =>
       /\ frames[2].fn = "parse"
       /\ frames[3].fn \in (HookFns \ {"connected"}) \cup {"answer"}
StackPinned ==
  /\ frames # <<>> => alive /\ parser # NULL
  /\ Len(frames) > 1 => frames[2].obj = parser
  /\ Len(frames) = 3 /\ frames[3].fn = "answer" =>
       /\ frames[3].w \in Watches
       /\ watch[frames[3].w].st = "live" /\ watch[frames[3].w].rule = filter
StreamExists == parser # NULL => parser \in parsers /\ filter \in filters
Numbered ==
  /\ parser <= made /\ filters \subseteq 1..made
  /\ \A w \in Watches : watch[w].rule <= made
IInv == /\ StackShape /\ StackPinned /\ StreamExists /\ Numbered
        /\ RuleOwnsWatch /\ LiveWatchWaits

(* The client asks for what the stream is ready for: a mechanism only while *)
(* the server waits for one, a resource and a session only on a stream that *)
(* was authenticated and restarted.                                         *)
RequestsFitPhase ==
  \A c \in Conns : \A i \in DOMAIN outbox[c] :
    LET kind == outbox[c][i].kind IN
    /\ kind \in {"md5", "plain"} => phase[c] = "offered"
    /\ kind \in {"bind", "session"} => phase[c] \in {"ready", "bound", "session"}

(* An application that connected and runs the loop hears how it went: the   *)
(* hooks of "authenticated" or of "authentication-failed" are called, if    *)
(* the loop does not end first.                                             *)
SessionResolves ==
  \A c \in Conns :
    (running /\ parser = c) ~> (c \in told \/ parser # c \/ ~running)

(* The answer to a stanza that was sent on a stream that stays up reaches   *)
(* the callback that waits for it: "Callback to be called when the sent     *)
(* message is answered by the server" (xmpp.h:169).                         *)
AnswerReachesWatcher ==
  \A w \in Watches :
    (watch[w].st = "live" /\ running) ~> (watch[w].st = "freed" \/ ~running)

(* A main loop whose connection is gone ends.                               *)
LossEndsLoop ==
  \A c \in Conns :
    (running /\ parser = c /\ c \notin up) ~> (~running \/ parser # c)
=============================================================================
