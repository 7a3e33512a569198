------------------------------- MODULE Session -------------------------------
(***************************************************************************)
(* What the XMPP client of src/xmpp.c promises an application about the    *)
(* calls it makes back (include/taningia/xmpp.h:160-257), without parsers, *)
(* filters, rules, queues or a call stack:                                 *)
(*   - one callback at a time: none is entered before the last returned;   *)
(*   - "connected" comes first on a stream, the others only inside run and *)
(*     only on a stream that reached its server;                           *)
(*   - the callback of a request comes at most once, on the stream the     *)
(*     request was sent on, and never after that stream was closed;        *)
(*   - whatever the server has to say to a session, answers included, is   *)
(*     heard only by a client whose authentication succeeded, and          *)
(*     "authentication-failed" only by one whose has not.                  *)
(* XmppClient implements this for applications whose callbacks only send.  *)
(***************************************************************************)
EXTENDS Naturals

CONSTANTS Requests, NoRequest

VARIABLES
  usable,    \* the client has not been freed
  stream,    \* the stream the client has, or NoStream
  opened,    \* how many streams were opened; they are numbered from 1
  reached,   \* those whose server was reached
  trusted,   \* an authentication succeeded
  looping,   \* the application is inside ta_xmpp_client_run
  calling,   \* the callback that has been entered and has not returned
  asked,     \* the requests that were made
  due        \* request -> the stream its answer is due on, or NoStream
sessionVars ==
  <<usable, stream, opened, reached, trusted, looping, calling, asked, due>>

NoStream == 0
Call(event, request) == [event |-> event, request |-> request]
NoCall == Call("none", NoRequest)

Init ==
  /\ usable = TRUE /\ trusted = FALSE /\ looping = FALSE
  /\ stream = NoStream /\ opened = 0 /\ reached = {}
  /\ calling = NoCall
  /\ asked = {} /\ due = [r \in Requests |-> NoStream]

(* Where the application is: outside, in a callback, or waiting in run.     *)
Outside == usable /\ ~looping /\ calling = NoCall
InCallback == usable /\ calling # NoCall
Waiting == usable /\ looping /\ calling = NoCall /\ stream \in reached

(* ta_xmpp_client_connect                                                   *)
Open ==
  /\ Outside
  /\ opened' = opened + 1 /\ stream' = opened'
  /\ \/ reached' = reached \cup {stream'} /\ calling' = Call("connected", NoRequest)
     \/ UNCHANGED <<reached, calling>>
  /\ UNCHANGED <<usable, trusted, looping, asked, due>>

(* ta_xmpp_client_run is called, and returns.                               *)
Enter ==
  /\ Outside /\ stream # NoStream
  /\ looping' = TRUE
  /\ UNCHANGED <<usable, stream, opened, reached, trusted, calling, asked, due>>
Leave ==
  /\ looping /\ calling = NoCall
  /\ looping' = FALSE
  /\ UNCHANGED <<usable, stream, opened, reached, trusted, calling, asked, due>>

(* ta_xmpp_client_disconnect, and ta_object_unref                           *)
Close ==
  /\ Outside
  /\ stream' = NoStream
  /\ usable' \in {usable, FALSE}
  /\ UNCHANGED <<opened, reached, trusted, looping, calling, asked, due>>

(* ta_xmpp_client_send_and_filter: nothing is due if the send fails.        *)
Ask(r) ==
  /\ Outside \/ InCallback
  /\ stream # NoStream /\ r \notin asked
  /\ asked' = asked \cup {r}
  /\ \/ stream \in reached /\ due' = [due EXCEPT ![r] = stream]
     \/ UNCHANGED due
  /\ UNCHANGED <<usable, stream, opened, reached, trusted, looping, calling>>

(* The server accepts the credentials.                                      *)
Trust ==
  /\ Waiting
  /\ trusted' = TRUE
  /\ UNCHANGED <<usable, stream, opened, reached, looping, calling, asked, due>>

(* The callbacks made from run, and the return of any callback.             *)
Enters(event, r) ==
  /\ Waiting
  /\ calling' = Call(event, r)
  /\ UNCHANGED <<usable, stream, opened, reached, trusted, looping, asked, due>>

Fail == ~trusted /\ Enters("authentication-failed", NoRequest)
Hear(event) == trusted /\ Enters(event, NoRequest)
Answer(r) == trusted /\ due[r] = stream /\ Enters("answer", r)

Return ==
  /\ InCallback
  /\ calling' = NoCall
  /\ due' = [r \in Requests |-> IF r = calling.request THEN NoStream ELSE due[r]]
  /\ UNCHANGED <<usable, stream, opened, reached, trusted, looping, asked>>

Next ==
  \/ Open \/ Enter \/ Leave \/ Close \/ Trust \/ Fail \/ Return
  \/ \E event \in {"authenticated", "message-received", "presence-noticed"} : Hear(event)
  \/ \E r \in Requests : Ask(r) \/ Answer(r)

Spec == Init /\ [][Next]_sessionVars
=============================================================================
