# Taningia in TLA+

Taningia is a C library for near-realtime communication: an XMPP client built on
`libiksemel`, Atom documents, PubSub stanzas, and the small foundations they share
(linked list, hash table, string buffer, reference counts, per-thread errors, a logger,
IRIs, DNS SRV lookup).  This directory is a verification development kept beside that
code.  File and line references are to the repository (`src/xmpp.c:612` is line 612 of
`src/xmpp.c`).

## 1. Inventory

| component | source | state | operations | who uses it |
|---|---|---|---|---|
| XMPP client session | `src/xmpp.c` | `parser`, `filter`, `authenticated`, `running`, `features` of `struct _ta_xmpp_client_t`; the iksemel parser/filter behind the pointers; the C call stack while a callback runs | `connect`, `run`, `disconnect`, `send`, `send_presence`, `init`/`free`, the stream hook `_ta_xmpp_client_hook` and its `_on_features`, `_on_success` | the application; iksemel calls back into it |
| answer watchers | `src/xmpp.c` | one `struct watch_data` per stanza that waits for its answer, one `iksrule` per watcher in `client->filter` | `send_and_filter`, `_ta_xmpp_client_ikshook_watcher`, `wdata_new`/`wdata_free` | application; iksemel's filter |
| event hooks | `src/xmpp.c`, `src/list.c` | `client->events`: event name -> linked list of `struct hook_data` | `event_connect`, `event_disconnect`, `_ta_xmpp_client_call_event_hooks` | application; session |
| hash table | `src/hashtable.c`, `src/hashtable-utils.c` | ring of pairs, bucket array with `first`/`last` cursors, `size`, index into `primes[]` | `set`, `get`, `get_test`, `del`, `close`, iteration, rehash | event hooks |
| linked list | `src/list.c` | `prev`/`next`/`data` nodes, head pointer owned by the caller | `append`, `prepend`, `insert`, `remove`, `pop`, `extend`, `reverse`, `sort`, queries | event hooks, SRV, Atom |
| error state | `src/error.c`, `src/global.c` | per thread: `last_error` pointer, `error_t` record whose `message` is heap memory | `ta_error_set`, `ta_error_clear`, `ta_error_last`, TLS setup/teardown | every component |
| string buffer | `src/buf.c` | `ptr`, `string_length`, `allocated_size` | `alloc`, `cat`, `catf`/`vcatf`, `dump`, `dealloc`, `_buf_realloc` | applications |
| reference counts | `src/object.c` | `refcount`, `destructor` per object | `init`, `ref`, `unref` | log, IRI, Atom, SRV, client |
| SRV resolver | `src/srv.c` | list of targets while it is sorted, grouped by priority and drawn by weight | `ta_srv_query_domain` | applications |
| Atom documents | `src/atom.c` | counted references to IRIs, persons, categories, links, contents, in-reply-tos and entries, one by one or in lists; built by setters or from an XML tree | constructors, setters, `add_*`/`del_*`, `*_set_from_iks`, `*_to_iks`, `*_free` | applications, PubSub |
| IRIs and tags | `src/iri.c` | six optional string fields and a port; three strings for a tag | `set_from_string`, `to_string`, setters | Atom; nobody uses tags |
| logger | `src/log.c` | level, handler, date format | five level functions | client |
| PubSub stanzas | `src/pubsub.c` | two static id counters; otherwise pure stanza construction | `createiq`, `createiqps`, builders | applications |

### How the components interact

```
 application  --connect/run/disconnect/send_and_filter-->  xmpp.c  --iks_*-->  iksemel, network
     ^                                                       |  ^                 |
     |  hooks (event_connect) <-- call_event_hooks ----------+  +--- stream hook, rules
     |                              |
     |                    hashtable.c: event name -> list.c: hook_data
     |
     +-- ta_error_last() <-- error.c (per thread, global.c) <-- every function that returns failure
     +-- ta_srv_query_domain: srv.c --> list.c (ta_list_sort, ta_list_remove)
     +-- ta_atom_feed_set_from_file: atom.c --> iri.c, error.c, list.c
     +-- ta_atom_*_new/set/add/del, ta_object_unref: atom.c --> object.c --> destructors in atom.c
```

* **Callbacks all the way.**  `ta_xmpp_client_run` calls `iks_recv`, which calls
  `_ta_xmpp_client_hook` for every node, which runs the filter, whose rules call
  `_ta_xmpp_client_ikshook_*`, which call the application's hooks or the callback of a
  watcher, and those may call any function of the client again: `disconnect`, which
  deletes the parser that `iks_recv` is working on, or `event_disconnect`, which frees
  the list node that the dispatch stands on.
* **Shared memory by hand.**  The filter's rules hold bare pointers to `watch_data`; the
  hash table holds the head of a list whose head changes; the list relinks nodes in
  place; the error record's message outlives its `clear`.
* **Control flow through the error state.**  An entry of a feed is kept if
  `ta_error_last()` is NULL when it has been read; its return value is ignored.
* **Threads.**  Only `global.c`/`error.c` are written for several threads.  The client
  has no lock; `ta_xmpp_client_run` blocks, and a program that wants to stop it from
  elsewhere than a hook needs a second thread (`xmpp.c:557` then races); that is
  planned, not modelled.

### What is hard here, and what makes each component correct

| component | hard | correct if |
|---|---|---|
| session | re-entrancy; lost connection at any step; reconnect over the state of the last session; the server and the client in step | nothing on the C stack returns to freed memory; a request is sent only when the stream is ready for it; the application hears how authentication went; a lost connection ends the loop |
| watchers | a rule and its `watch_data` are freed by different code on four paths (answer, failed send, disconnect, free) | every rule points to a live watcher, every live watcher has its rule; every answer reaches its callback |
| event hooks | hooks that change the list they are called from, nested dispatches | hooks are called in the order in which they were connected, none skipped, none twice |
| hash table | two cursors per bucket into one shared list; allocation failures between two steps; iterating while it changes | it behaves like a map; an iteration misses nothing that stayed |
| list, sort, SRV | `prev`/`next` surgery in place; uneven runs; random drawing from the list that is being rebuilt | lists are sequences; sorting is a stable permutation; each target comes out once, lower priorities first |
| error state | stale message pointer, threads that exit, errors that quote the previous one | a thread reads its own newest error; messages are freed once, except where it is known that they are not |
| Atom | early returns in the middle of a half-filled object; errors cleared on the way | a failure leaves its reason; what is kept is complete and in order, but for what a known early return leaves out |
| IRIs | one part's delimiters inside another; sizes added up apart from what is written; what a rejected text leaves behind | what is printed fits, and is read back as the same IRI |
| buffer | `int` arithmetic, truncation | length equals what was appended |
| reference counts | shared ownership between Atom containers; destructors that run destructors; setters that drop before they take; lists that are forgotten | counts are exact, nothing is used after its last holder let go, nothing stays behind |

The full list of hazards, each at its line, with the property that covers it or the
reason why none does, is the `hazards` list of `PROJECT.json`.

## 2. Modules

```
  XmppClient  <- MCXmppClient (TLC)             <- XmppClientProofs (TLAPS)
     | implements Session
  HookParams  <- HookOrder
     ^             ^ implements
  EventHooks  <- MCEventHooks --+               <- EventHooksProofs (and of HookOrder)
  TaList      <- MCTaList ------+ extend        <- TaListProofs
     | implements SeqList       | TaListOps     <- TaListOpsProofs (lemmas on list.c)
  TaListSort  <- SrvSelect -----+               <- SrvSelectProofs (and of TaListSort)
  HashTable   <- MCHashTable    implements KeyValueMap  <- HashTableProofs
  ErrorState  extended by
     +- AtomFeed  <- MCAtomFeed  --+            <- ErrorStateProofs (of all three, and Iri)
     +- IriCalls  <- MCIriCalls  --+            extends Iri (iri.c as operators)
  AtomObjects <- MCAtomObjects                  <- AtomObjectsProofs
```

Four abstract specifications say what a component promises: `Session` (what an
application is called back with, and when), `HookOrder` (the order of hook calls),
`KeyValueMap` (a map), `SeqList` (sequences).  The detailed module has each
as a property, under a refinement mapping.

### XmppClient (`src/xmpp.c`)

| model | code |
|---|---|
| `alive`, `parser`, `filter`, `authenticated`, `running` | the client object and its fields of these names; NULL is 0, objects are numbered by the connect that made them |
| `parsers`, `filters`, `rules`, `subscribed`, `watch` | the heap: iksemel objects that exist, the rules in each filter, the state, id and rule of each `watch_data` |
| `frames` | the C call stack: which functions are in the middle of a callback and what they will use when it returns |
| `up`, `phase`, `inbox`, `outbox` | external: one reliable ordered stream per connection and what the server thinks of it |
| `told` | history: connections whose outcome a hook was told |
| `Connect`, `ConnectReturn` | `ta_xmpp_client_connect` before and after the hooks of "connected" |
| `Run`, `Poll`, `RecvOk`, `RecvError`, `RunReturn` | `ta_xmpp_client_run`, `_do_run`, and the ways `iks_recv` returns |
| `Disconnect`, `Free` | `ta_xmpp_client_disconnect`, `ta_xmpp_client_free` |
| `SendAndFilter`, `OnAnswer`, `AnswerReturn` | `ta_xmpp_client_send_and_filter` with its undo path; the watcher before and after the application's callback |
| `OnMechanisms`, `OnSessionFeatures`, `OnSuccess`, `OnOutcome`, `OnTyped`, `OnUnmatched`, `OnStreamError` | `_ta_xmpp_client_hook`, `_on_features`, `_on_success`, the message and presence rules |
| `ServerOffer` ... `LoseConnection` | external: a server as the code expects it, and a network that may fail at any step |

A callback may make any number of the calls in `HookOps` before its frame is popped,
which stands for all the hooks of that event; which of them are called, and in which
order, is the business of `EventHooks`.  `AppOps` and `HookOps` say what the application
does, so that a property can be stated of the programs for which it holds.

`Session` is what the client promises of those callbacks, without the objects, rules,
queues and frames that bring them about.  One is made at a time.  "connected" comes first
on a stream, and the others only inside `run`, on a stream that reached its server.  A
request (`send_and_filter`) is called back at most once, on the stream it was sent on,
and never after that stream was closed.  Messages, presences, answers and
"authenticated" are heard only once an authentication succeeded,
"authentication-failed" only while none has.  The client implements it
(`ImplementsSession`) if callbacks only send: the callback is the one on top of `frames`
(`Callback`), the application is in `run` if that is at the bottom (`Looping`), and an
answer is due while its `watch_data` is live, on the stream its rule was added for
(`Due`).  `trusted` is the flag `authenticated` and, like it, outlives its stream:
`Session` says what the code promises, and `stale_auth` what that costs.

### HookOrder and EventHooks (`src/xmpp.c:131-147, 581-662`)

Both take their constants, and the assumptions about them, from `HookParams`.
`HookOrder` knows registrations, numbered as they are made, and a stack of dispatches.
`EventHooks` has the list heads the hash table holds, the nodes with their links, and a
dispatch that stands on a node (`tmp`).  Freed memory may hold anything (`Follow`).  The
mapping takes the set of nodes on an event's list for its set of registrations.
`SelfDisconnect = FALSE` keeps a hook from being disconnected while it is being called;
see section 6 for what happens otherwise.

### TaListOps, TaList, SeqList, TaListSort, SrvSelect (`src/list.c`, `src/srv.c`)

`TaListOps` has each operation of `list.c` as an operator on a memory of `next`, `prev`
and `data` cells and a head, link by link.  `TaList` is a program that owns several
lists; node memory is reused.  `TaListSort` is the merge sort with one action per
assignment group of its loop; `SrvSelect` goes on from there with the weighted drawing
of `ta_srv_query_domain`, with every number that line 156 may compute: 0 to `sum + 1`,
since the quotient is 1 for `RAND_MAX` and for what a `float` rounds to it.  A target of
another level may then be drawn, `sum` go negative and the search run off the list
(`pc = "crash"`); the history variable `overdrawn` keeps the places of the answer for
which a number above `sum` was drawn.

### KeyValueMap and HashTable (`src/hashtable.c`)

All pairs are on one circular list (`ring`), a bucket is the stretch between its `first`
and `last`.  Every operation of the table is one action; either allocation of `set` may
fail (`SetFails`).  One iterator runs while the table changes.  `GrowWhileIterating =
FALSE` keeps a table from growing during an iteration.

### ErrorState and AtomFeed (`src/error.c`, `src/global.c`, `src/atom.c:899-1146, 1518-1670`)

`ErrorState` has the thread-local key, each thread's `last_error` and message, and the
set of messages that are allocated.  `AtomFeed` puts the loaders of a feed on top: a
document is a head and a sequence of children, each with what the loader looks at (is
the field there, does its IRI parse), and one action reads one field or child.  Every
action sets, clears or leaves alone the error state by `ErrorState`'s own actions.  A
child is an element or character data, and a document that makes the loader follow NULL
ends in `pc = "crash"`.

Callers of `ErrorState` may do anything in any order: fail before the setup or without
it, as all examples of the repository do, set the key up again or delete it, fail after
a clear, as `atom.c` does itself.  Freeing a message twice is undefined (`Freed`): it
frees nothing, or whatever has that address now.  Four history variables say what the
properties need of the past: each thread's failure that it has not cleared (`pending`),
the messages older than the key (`since`), who cleared an error (`cleared`) and whether
one of them failed again (`resumed`).

### Iri and IriCalls (`src/iri.c:20-497`)

`Iri` has printing and parsing as operators: a text is a sequence of characters, a field
is there or not, a pointer into the text is a position. Parsing is laid out as the code
does it, one search after another through the same text (`Cuts`, `PortColon`,
`HostEnd`), so that what one search takes from another part is the code's choice. `Room`
and `Printed` are the two halves of `ta_iri_to_string`, what it allocates and what it
writes. `Chars` are the characters of texts and `Alphas` those that `isalpha` accepts;
all that is assumed of them is that the delimiters and the characters of schemes are
among the former, and no delimiter among the latter. `IriCalls` puts threads on top that
fill in an IRI by its setters and from texts, with the error state: a text that is
refused sets an error, also when half of the fields were set already, and one that is
accepted leaves the errors alone.

### AtomObjects (`src/object.c`, `src/atom.c:74-893, 1146-1515, 1672-1870`)

Who holds whom among the nine types.  `FieldTable` has a row for each type with its
fields and lists and what they hold; it stands for the functions of that type, which are
the same statements over and over, and where one of them differs an operator says so
(`Taken`, `Optional`, `Dropped`, `DropOrder`, `UnsoundLists`).

| model | code |
|---|---|
| `life`, `count`, `kind` | the object behind an address, its `refcount` and its type |
| `refs` | the pointers that fields and list items are |
| `mine` | how many references the application got from constructors and `ta_object_ref` and has not dropped |
| `stack` | destructors and `del` functions in progress: `ta_object_unref` runs one, which unrefs in its turn; one step is one unref (`DropNext`) or the `free` at the end (`Finish`) |
| `pending` | the value of a setter that has dropped the old one and not yet taken the new one (`SetField`, then `Store`) |
| `text`, `bad` | texts freed but still pointed to; list heads that are uninitialised or freed |
| `New`, `NewWith`, `Ref`, `Unref`, `SetField`, `SetContent`, `Add`, `Del`, `ToIks` | constructors without and with an object, `ta_object_ref`/`unref`, setters, `set_content`, `add_*`, `del_*`, printing |

Setters and `add_*` accept any live object, also one that the application only knows
from another one's getter.  `OpenLists` and `Misuse` say which of the functions that are
broken callers stay away from (section 6).

## 3. What the runs check

| run | cfg | states | shows |
|---|---|---|---|
| `reconnect` | `Reconnect.cfg` | 726,932 | with two connects, two watchers and every feature set, an application whose callbacks only send never makes the library return to freed memory; rules and watchers stay paired; the client owns what exists; the application is called back as `Session` says |
| `progress` | `Progress.cfg` | 7,674 | with fairness and a server that offers what the client knows: requests fit the phase, the outcome is told, answers arrive, loss ends the loop |
| `hook_disconnects` | `HookDisconnects.cfg` | violation | a hook that disconnects, as the repository's example does, leaves a freed parser under `iks_recv` or a NULL filter under `connect` |
| `stale_auth` | `StaleAuth.cfg` | violation | `authenticated` survives a disconnect: the second stream never starts SASL |
| `hooks` | `Hooks.cfg` | 10,584 | lists, nodes and dispatch implement `HookOrder`, of which it is proved that it skips no hook and calls none twice |
| `errors` | `Errors.cfg` | 213,000 | two threads that fail, clear, exit and parse, in any order, with setup or without: a message is freed twice exactly if a thread fails again after a clear; own and newest error, or NULL without a key; every IRI fits when it is printed, and is read back |
| `table` | `Table.cfg` | 34,007 | buckets partition the ring; the table implements a map; iterations are complete |
| `lists` | `Lists.cfg` | 2,849 | every sequence of operations on two lists implements operations on sequences |
| `srv` | `Srv.cfg` | 88,724 | the sort loses nothing and returns a stable order; the drawing moves each target once and ends; only a number above the sum puts one out of its level, or the search off the list |
| `feed` | `Feed.cfg` | 231,036 | a failed load says why, a successful one is complete; an entry is kept half-read only behind a refused `ref` of an in-reply-to; loading ends |
| `feed_iris` | `FeedIris.cfg` | violation | the loaders refuse well-formed IRIs and keep ill-formed ones |
| `objects` | `Objects.cfg` | 400,861 | through all constructors, setters, lists, printing and unrefs: nothing freed is used, counts are exact, and what is left is held by the application, by an object that is there, or by the links of a freed entry |

Every property of a passing run has a mutant: a definition changed the way a plausible
slip in the code would change it (the `Name_Slip` operators next to the definitions),
under which TLC finds that property violated.

### Bounds, and why they are enough

* **`MaxConnects = 2`** (`reconnect`): every hazard between sessions is one session
  after another; a third adds no new pair.  `progress` uses one, because the second
  never authenticates (`stale_auth`).
* **`Watches` of two, `MaxQueue = 2`**: two watchers may wait for the same id, for the
  answers of two stanzas, or one per filter; with two nodes in flight an answer can come
  behind one that ends the session.  The client's own requests are not subject to
  `MaxQueue`, only what the application and others send.
* **`MaxRegs = 4`, `MaxDepth = 2`**: a list with a first, a middle and a last hook and
  one more that comes during a dispatch; two dispatches of the same list inside one
  another.
* **Two threads, three messages** (`errors`): a thread fails twice while another's error
  stands, or fails, clears, fails and fails again.
* **Seven texts, one or two values for a field** (`errors`): all fields or any subset of
  them, set by setters, by a text, or by a text over what a text before it left behind;
  the values have delimiters of other parts in them, and the port has as many digits as
  it may have.  `Iri` gives the same results as the compiled `iri.c` on the 6,002 texts
  of up to four characters of `a 1 : / ? # @` behind nothing, `a:` and `a://` (up to
  three behind nothing).
* **Four keys, buckets 2, 3, 5**: three keys collide in the first size, others in the
  later ones, so that first, middle, last and only pairs of a bucket are deleted and the
  table grows twice.
* **Two lists of up to four nodes, one datum and NULL, positions -1 to 4**: every
  position before, in, at and behind the ends, duplicates, and merging both lists.
* **Five nodes, three keys in two priorities** (`srv`): two passes with an odd run left
  over, ties, and a level of several targets before another, which a number above the
  sum reaches into.
* **`MaxKids = 2`** (`feed`): elements or character data; an entry that fails followed
  by anything, and anything followed by an entry; the error state carries nothing over
  more than one child. `MaxMsgs = 12` is above the number of errors such a document can
  set, so it never bounds a behaviour.
* **Four objects** (`objects`): a feed, an entry, a person and its IRI, the longest chain
  of destructors there is, or any object with three holders.  `MaxItems = 2`: a list with
  an item before another.  `MaxMine = 1`: `ta_object_ref` by the application gives back
  a reference it dropped; more of them only move the count.
* Addresses in `objects` and threads in `errors` are interchangeable, so they are
  symmetry sets (no liveness is checked there).

### Fairness

* `XmppClient!Fairness`: the main loop is a loop, and `iks_recv`, called with no timeout
  (-1, line 802), returns when there is something to read or the connection is lost
  (`Loop`), iksemel hands over what it has read (`Deliver`), a callback returns
  (`Return`), and a server that is reached answers (`ServerProgress`).  Nothing is
  assumed of the application's calls, nor that the network fails or stays up.
* `SrvSelect`, `AtomFeed`: weak fairness of the step of a sequential function.  That the
  loops end is what the properties show.

Deadlock is checked except in the runs of `XmppClient`, where an application that has
freed the client, or used up its bounds, stops, and in `objects`, where addresses run
out.

## 4. What is proved

TLAPS proves these for every value of the constants; the lemmas they rest on are in the
same modules.

| module | theorem | assumption | says |
|---|---|---|---|
| `XmppClientProofs` | `TypeCorrect` | | `[]TypeOK` |
| | `NoUseAfterFree` | `CallbacksOnlySend` | `[]FramesLive` |
| | `RulesAndWatches` | `CallbacksOnlySend` | `[]RulesMatchWatches` |
| | `StreamsAreOwned` | no `"reconnect"` | `[]OneStream` |
| | `RequestsFit` | `MaxConnects = 1` | `[]RequestsFitPhase` |
| | `RequestsFitLater` | `CallbacksOnlySend` | the same with any number of connects, if each is made with `authenticated` not set |
| | `SessionPromised` | `CallbacksOnlySend` | `ImplementsSession`: the client implements `Session` |
| `EventHooksProofs` | `TypeCorrect` | | `[]TypeOK` |
| | `HooksAreOwned` | | `[]HooksOwned` |
| | `HooksInOrder` | `~SelfDisconnect` | `ImplementsHookOrder`: lists, nodes and dispatch implement `HookOrder` |
| | `HookOrderTyped` | | `[]TypeOK`, of `HookOrder` |
| | `NoHookPassedOver` | | `[](NonePassedOver /\ IInv)`, of `HookOrder` |
| | `NoHookCalledTwice` | | `CalledOnce`, of `HookOrder` |
| `TaListProofs` | `ListsAreWellFormed` | | `[]ListsWellFormed` |
| | `ListsImplemented` | | `ImplementsSeqList`: linked lists implement sequences |
| `SrvSelectProofs` | `SrvTypes` | | `[]TypeOK` |
| | `SortLosesNoNode` | | `[]NoNodeLost` |
| | `PassesFindRuns` | | `[]RunsSorted` |
| | `SortSorts` | | `[]Sorted`: sorted, stable, nothing lost, linked both ways |
| | `DrawKeepsTargets` | | `[]TargetsKept` |
| | `PrioritiesInOrder` | | `[]LevelsInOrder`, whatever numbers are drawn |
| `HashTableProofs` | `TypeCorrect` | | `[]TypeOK` |
| | `BucketsCorrect` | | `[]BucketsPartition` |
| | `MapImplemented` | | `ImplementsMap`: the table implements `KeyValueMap` |
| | `IterationVisitsAll` | `~GrowWhileIterating` | `IterationComplete` |
| `ErrorStateProofs` | `TypeCorrect` | | `[]TypeOK`, of `ErrorState` |
| | `FaultsExplained` | | `[]FaultExplained`, of `ErrorState` |
| | `ErrorsBelong` | | `[]ErrorsReadable`, of `ErrorState` |
| | `NewestReported` | | `[]FailureReported`, of `ErrorState` |
| | `LoadTypes` | | `[]LoadTypeOK` |
| | `FailuresExplained` | | `[]FailureSaysWhy` |
| | `EntriesAsRead` | | `[]KeptAsRead` |
| | `LoadsWhole` | | `[]LoadedWhole` |
| | `CallsAreErrors` | | `CallsSpec` implements `ErrorState`'s `Spec`, so the four above hold of it |
| | `PrintsFit` | | `[]PrintFits` |
| | `ReadsBackAll` | | `[]ReadsBack` |
| `AtomObjectsProofs` | `TypeCorrect` | | `[]TypeOK` |
| | `NoUseAfterFree` | `Careful` | `[]NoFault` |
| | `CountsAreExact` | `Careful` | `[]CountsExact` |
| | `NothingIsLost` | `Careful` | `[]NothingLeaks` |

* **XmppClient.**  `FramesLive` is not inductive: that a parser under `iks_recv` exists
  follows only if nobody above it on the stack can delete it.  `IInv` says so: the stack
  is at most loop, `iks_recv`, callback (`StackShape`); the two upper ones work on the
  client's own stream (`StackPinned`), which exists (`StreamExists`); connections are
  numbered as they are made, so a new filter has no rule yet (`Numbered`); rules and
  watchers are paired.  `CallbacksOnlySend` (callbacks call nothing but
  `send_and_filter`, and the loop is run with a stream only) is what a program must do
  for this; `hook_disconnects` is what happens if it does not.  `OneStream` is inductive
  with the types alone.  `RequestsFitPhase` needs to know what may be under way in each
  phase of the stream, on both queues (`Fits`), and what `authenticated` says of the
  phase (`Knows`): a client that has not seen `<success/>` has sent no more than `auth`.
  That is why a second connect with the flag still set breaks it (`stale_auth`), and why
  the theorem is stated of one connect, or of connects made with the flag clear.
* **Session.**  The callback is read off the stack, of which `IInv` knows the shape, and
  what is due off the rules, which match the watchers.  That a callback is made in the
  right state needs to know what the server may have sent, and to whom (`SessionInv`):
  in each phase of each stream, what of an offer, a choice of mechanism, an outcome and
  a session's answers can be on its queues (`Tells`), and, for the client's own stream,
  that a phase in which a session is served is reached only with the flag set, and that
  no failure is under way once it is (`Believes`).  This holds on a second stream too,
  on which the flag is left over: the client then never asks to be authenticated, so no
  outcome comes.  Each step then maps to one of `Session` or to a stutter
  (`SessionStep`).
* **HookOrder.**  `NonePassedOver` needs to know that a dispatch has called nothing
  beyond the hook it is at (`SeenBehind`) and that numbers not yet given out are
  connected nowhere (`MadeOnly`).
* **Lists** (`TaListOpsProofs`).  A list is a sequence of nodes, each once, such that
  `next` and `prev` lead from one to the next and back (`Linked`).  The walk that a loop
  in the code makes is then that sequence: by induction over the number of links
  followed, from the well-foundedness of the natural numbers (`Induction`, `ChainIs`).
  For each operation of `list.c` a lemma says which sequence it makes of which, and that
  it writes to no node but those of its lists (`Makes`), for any memory; so lists that
  share no node stay apart (`ApartChanges`).
* **TaList** (`ListInv`): every list is linked and no two share a node.
  `ListsAreWellFormed` is read off, and a step on the links is a step of `SeqList` on the
  data that the nodes hold.
* **TaListSort and SrvSelect** (`SrvInv`).  `RunsSorted` and `Sorted` are not inductive:
  they say nothing in the middle of a merge, where the nodes are spread over the output,
  the first run and the rest, and `prev` is out of step with `next`.  `SrvInv` says, for
  each value of `pc`, that there is an order of all nodes in which the output comes
  first, then what is left of the first run, then the rest, each linked to its own end,
  and in which equal keys are in their old order.  The keys along it are runs of
  `insize` when a pass starts; between merges the output is in runs of twice that
  (`Halfway`); within a merge nothing that is left is below what the merge has put out
  (`Merging`).  Taking from the second run moves one node forwards in the order
  (`Moved`), past greater keys only, so the order stays stable.  A pass that made one
  merge or none leaves one run, which is the sorted list.  While targets are drawn, those
  drawn and those left partition the nodes, and those left ascend by priority.  For
  `LevelsInOrder`, `num` and `sum` are at most the number and the weight of the first
  level of those left (`Levels`); a number up to `sum` therefore falls on a target of
  that level, and what is drawn then is before nothing of an earlier one.  A number
  above it may fall on a later target: then that place is in `overdrawn`, `num` and
  `sum` lose something the level still has, and stay bounds.
* **EventHooks.**  Each event's hooks are a list, the lists are apart, and registrations
  ascend along each (`ListInv`); a node is on a list exactly while it is live, and holds
  itself (`Owned`); while no hook disconnects itself, every dispatch stands on a node of
  its event's list (`CallsOn`).  `disconnect` is a loop over the list; by induction over
  its rounds it leaves the list without what matches.  The next node is then the least
  registration connected after the one being called, which is what `HookOrder` says.
* **HashTable.**  No key is on the ring twice, and each bucket's `first` and `last` delimit
  the keys of its class, and no others (`Sound`); the keys on the ring are those that have
  a value, `size` many (`Kept`).  A rehash empties the buckets and puts in one pair after
  the other; that every round keeps `Sound` is an induction over `Nat` again.  Up to the
  iterator, what was there all the time has been returned (`Reached`), since an insertion
  and a deletion keep the order of the others, and what is put in or taken out is not
  among them.
* **ErrorState.** `ErrorsReadable` and `FailureReported` need that a new message is one
  nobody holds and that only threads with the key have a state (`Fresh`). For
  `FaultExplained` it must be known, as long as nothing was freed twice, that a thread
  has a message that is not its error exactly if it cleared one, and that this message
  is freed (`Left`): the next failure of such a thread frees it again, and nothing else
  frees a message that is not live. The run checks them of `IriCalls`, whose every step
  is one of `ErrorState` or leaves its variables alone (`CallsAreErrors`).
* **IriCalls.**  The inductive invariant is that the IRI has fields (`iri \in Iris`): six
  that are a text or not there, and a natural number, whatever text was parsed last and
  whether it was refused.  That takes every cut of a text to lie within it
  (`CutsAreInRange`), `HostEnd` included, where the code relies on a length that wraps
  round.  `PrintFits` then is an addition, with three characters for a port below 1000.
  `ReadsBack` is not about steps but about what printing and parsing make of each
  other.  What is printed is eight pieces one behind the other, some of them empty
  (`PiecesLaid`); so a position in it is a position in one piece, and a search finds a
  delimiter where it was printed if no piece between the start of the search and there
  has such a character (`MarkIs`, `HashIs`, `AtIs`, `PortColonIs`, `SlashIs`).  This is
  where the clauses of `Regular` are used.  What is cut out between
  two delimiters is the field again; a port's digits are read as the number they were
  printed for (`DecimalIs`).
* **AtomFeed.**  `FailureSaysWhy` is inductive once there is a key: nothing is read
  after a failure was noticed, so nothing clears its error.  `KeptAsRead` needs to
  know of the entry that is being read where it is in the document, that it has its id,
  title and source once these are passed and its authors and categories up to the child
  it is at, and that when it has been read there is an error, or it was read to its end
  or to a refused `ref` (`EntryInv`); and that the entries kept come from before it
  (`EntriesInv`).  `LoadedWhole` needs that the parts of the feed read so far are those
  of the children up to here (`LoadInv`), part by part as their ranks come.
* **AtomObjects.**  `Careful` callers do nothing of `Misuse` and use no unsound list but
  an entry's links.  That counts are exact does
  not make using an object safe: what a setter is about to store, or the object whose
  list `del_*` is emptying, must not be freed by the destructors that run meanwhile.
  This holds because types hold only types of a lower rank (IRIs and simple elements;
  links, contents, categories, persons, in-reply-tos; entries; feeds): calls in progress
  go strictly down in rank (`StackOrdered`), and what a setter waits to store is no
  lower than the objects being destroyed (`PendingSafe`).  With that, objects that are
  pointed to are live (`RefsLive`), an object is live exactly while its count is
  positive (`Counted`), and one being destroyed is on the stack (`DyingOnStack`).  For
  `NothingIsLost`, whoever holds something by a field that it drops is not freed
  (`HoldersLive`): an object that is live has a positive count, so somebody has a
  reference, which is the application's, a live object's, or one of the links that a
  freed entry did not drop.

Only model-checked: liveness (`SessionResolves`, `AnswerReachesWatcher`, `LossEndsLoop`,
`QueryReturns`, `LoadEnds`), because fairness and ENABLED are out of the prover's reach.
Every safety property of a run is a theorem above.

## 5. Not modelled, and why

* **String buffer** (`buf.c`): planned (section 7); no other component uses it.
* **PubSub**: pure construction of stanzas but for two counters of ids.  **Logger**:
  formats text.  `hashtable-utils.c` is a constant function.  Reading a DNS answer from
  its bytes is left to the resolver library's contract.
* **Threads that share an object.**  The counts of `object.c` are plain `int`s, and two
  threads that drop references of one object may both or neither free it; `AtomObjects`
  has one thread, as all code in the repository that uses objects has.  Likewise a
  `disconnect` from a second thread just before `xmpp.c:557`.
* **Atom's data**: the texts and dates that setters copy, the wording of what is printed,
  and the references that the loaders of `AtomFeed` take while they read.
* **IRIs**: what a second parse leaks; ports that `atoi` cannot represent; tags
  (`iri.c:499-635`).
* **Unreachable code**: in `xmpp.c` the TLS and non-SASL branches, since
  `ta_xmpp_client_init` fixes both flags and nothing sets them.
* **Running out of memory** is modelled in the hash table only.  Addresses are not used
  twice (except in `TaList`), so that a use after free is seen.

## 6. Where the code and its documentation part

Three disagreements have a run of their own (`hook_disconnects`, `stale_auth`,
`feed_iris`).  Some constants switch on uses that the code is not prepared for; setting
one shows the consequence (in `AtomObjects` three objects suffice):

| constant | set to | then TLC finds | because |
|---|---|---|---|
| `SelfDisconnect` | `TRUE` | `ImplementsHookOrder` violated | `tmp->next` is read from a freed node (`xmpp.c:141`, `654-655`) |
| `GrowWhileIterating` | `TRUE` | `IterationComplete` violated | a rehash reorders the ring (`hashtable.c:167`), `hashtable.h:168-183` allows adding |
| `HookOps` | with `"disconnect"` | `FramesLive` violated | run `hook_disconnects` |
| `OpenLists` | `{<<"entry", "ext_elements">>}` | `NoFault` violated | `ta_atom_entry_init` leaves that list uninitialised (`atom.c:847-861`); `del_see` frees the texts of its elements and not the elements (`1445`) |
| `OpenLists` | `{<<"feed", "links">>}` | `NoFault` violated | `ta_atom_feed_init` leaves that list uninitialised (`atom.c:1498-1507`) |
| `Misuse` | `{"del-inreplyto"}` | `NoFault` violated | `del_inreplyto` empties one list and resets another (`atom.c:1471`) |
| `Misuse` | `{"self-set"}` | `NoFault` violated | setters unref the old value before they ref the new one (`atom.c:1283`) |
| `Misuse` | `{"null-text"}` | `NoFault` violated | `set_content` with NULL frees the text and keeps the pointer (`atom.c:550-568`) |
| `Misuse` | `{"print-without-id"}` | `NoFault` violated | an entry without an id prints as NULL, and is inserted (`atom.c:1184`, `1711`) |

Others are in every behaviour of a passing run, whose property says exactly when they
happen:

* **Double free of an error** (`errors`, `FaultExplained`).  `ta_error_clear` frees the
  message and leaves the pointer to it in the record (`error.c:39`), and the next
  failure of that thread frees it again (`47`).  Any program that fails, clears and
  fails does this, and the loader of feeds does by itself (`atom.c:1099`, `1662`).
* **Errors without setup** (`errors`, `FailureReported`).  `ta_error_last` returns NULL
  after every failure in a program that does not call `ta_global_state_setup`.  No
  example calls it, and `examples/iri.c:79-80` and `116-117` print
  `ta_error_last ()->message`.
* **A number above the sum** (`srv`, `LevelsInOrder`).  `srv.c:156` multiplies by
  `sum + 1`; for `RAND_MAX`, or a quotient that a `float` rounds to 1, no target of the
  level has that number: one of a later priority is returned first, or the search runs
  off the list (`157-163`).
* **Half-read entries** (`feed`, `KeptAsRead`). An in-reply-to whose `ref` is refused
  while an error stands replaces that error, clears it and returns (`atom.c:1095-1100`);
  the feed's loader asks `ta_error_last`, finds nothing and keeps the entry with none of
  its later children.
* **Spaces between elements** (`feed`, `LoadEnds`, which admits the crash).  Character
  data among the children of a feed or of an entry has no name, and `strcmp` gets NULL
  (`atom.c:1016`, `1593`).
* **Objects that documented use leaves behind** (`objects`, `NothingLeaks`).
  `examples/atom.c:222-226` says that freeing a person is enough and that one "should
  not try to free state, city or uri vars"; `atom.h:766, 794, 822, 849, 880, 1008, 1035,
  1063, 1090` say of what was added to an entry or a feed that one should not free it
  after that.  But `ta_atom_person_new` (`atom.c:595`), `ta_atom_category_new`
  (`735`), `ta_atom_in_reply_to_new` (`111`) and all `add_*` functions (`695`, `1339`,
  `1386`, ...) take a reference of their own, and only the constructor of a link takes
  its caller's (`316`).  Callers who follow those comments keep a reference that they
  never drop, and `NothingLeaks` counts the object among those the application holds.
* **Links of an entry** (`objects`, `NothingLeaks`).  `ta_atom_entry_free` forgets them
  (`atom.c:826-844`), although `atom.h:822-823` says that they are freed with the entry;
  they stay, with what they hold.

Read while modelling, without a run:

* A second `ta_xmpp_client_connect` without a disconnect between overwrites parser and
  filter (`xmpp.c:491-493`), which nobody frees any more.
* A disconnect with unanswered stanzas leaks their `watch_data` (`xmpp.c:575`, `243`).
* If the server offers no session feature "authenticated", the event `xmpp.h:212-214`
  tells applications to wait for, is never raised (`xmpp.c:696`, `757`); and an answer
  to an application's stanza with id "auth" raises it.
* `ta_xmpp_client_is_running` returns `TA_OK`, 0, while running (`xmpp.c:402`,
  `xmpp.h:197`).
* A `hashtable_set` that runs out of memory has already deleted the old pair
  (`hashtable.c:255`, `hashtable.h:109-118`).
* `ta_list_pop` takes the last element (`list.c:260`), documented as the first
  (`list.h:168`).
* Atom, each seen in a behaviour of `AtomFeed` (states with `pc = "crash"` or `fault`):
  two dropped entries free one message twice (`atom.c:1662`); a wrong root read from a
  file deletes the tree twice (`1552`, `1540`); an `<entry/>` without children deletes
  the tree that the feed goes on reading (`910`, `1589`); a refused `ref`, `href` or
  `source` of an in-reply-to without a standing error follows a NULL error (`1098`) and
  the object is used after its last reference is dropped (`1119`, `1139`).  Since an id
  that parses is refused and one that does not leaves an error, an entry is kept only if
  a failed in-reply-to cleared that error (`1099`); an error that stood before the first
  entry costs that entry (`1659`); and in-reply-to objects are never added to the entry.
* Atom's objects: the constructor of a link uses up its caller's reference
  (`atom.c:316`) where those of persons, categories and in-reply-tos take one of their
  own; `set_src`, `set_iri` and `set_href` crash on NULL, which `set_scheme` accepts;
  the length of a content's text is never stored (`563-567`), and setting a source after
  a text, or a text after a source, drops the other only if both had been set before.
* `iri.c`: a host with a path and a query or fragment, but no port, takes the path in
  (`http://a/b?c` has the host `a/b`), since the query comes before the path in the
  choice at 472-476, although the comment at 469-471 has the host end at the path; a `:`
  in a path is taken for a port's, and refuses the text if no digit follows; an `@` in a
  path, query or fragment is taken for a user's; a `/` in a query for a path's, and a
  `?` in a fragment for a query's.  Without a host a single `:` is printed, also without
  a scheme; port 0 and what follows a port's digits up to a `/` are lost.  A port needs
  four bytes with its terminator (249), so one of four digits, which the size of the
  result is made for (185), has no room.  A text parsed into an IRI that is not new
  leaves the fields it does not have as they were, and one that is refused at its port
  has already set scheme, user, query and fragment.
* Tags: `ta_tag_init` installs the destructor of IRIs (`iri.c:504-511`), the setters take
  `strlen` of parts that are still NULL (529-540), and `ta_tag_set_from_string` takes
  `TA_OK` for failure (598).

## 7. Plan

Done: the modules above, most important first (session, hooks, error state, table,
lists, Atom's loaders, then Atom's objects with their proofs, and IRIs).

Next, models:

1. Two threads: `run` in one, `disconnect` in another (`xmpp.c:557`, and the comment at
   454-458); counts that are not atomic in `AtomObjects`.
2. `AtomFeed` over `AtomObjects`: what the loaders hold when they give up.
3. `Buf`: `alloc`, `cat`, `vcatf`, `_buf_realloc` with the width of `int` (truncation at
   `buf.c:113`, `n = -1`), refining an abstract "length of what was appended".
4. Tags; the hash table's keys, owned by the caller (`xmpp.c:604`); PubSub's ids with
   the client's.

New questions join an existing run where they can, as `IriCalls` did, so that each run
stays one question.

Then, proofs: the types and lengths of `Buf`.
