------------------------------ MODULE AtomFeed -------------------------------
(***************************************************************************)
(* Loading an Atom feed (src/atom.c:899-1146 and 1518-1670) on top of the  *)
(* thread's error state: ta_atom_feed_set_from_file, _from_iks and, for    *)
(* each <entry>, ta_atom_entry_set_from_iks.  Nothing passes from the      *)
(* entry to the feed but the error state: the feed keeps an entry if, when *)
(* it has been read, ta_error_last() is NULL.                              *)
(*                                                                         *)
(* An IRI in the document parses ("iri") or does not ("junk").             *)
(* ta_iri_set_from_string returns TA_OK, which is 0, for the first and     *)
(* sets an error for the second.  pc is "crash" once the loader has gone   *)
(* through a NULL pointer or into memory that it freed; a message that is  *)
(* freed twice is recorded in `fault', and the loader goes on.  The        *)
(* program is one that has called ta_global_state_setup.  References that  *)
(* are counted and never dropped, texts and dates are left out.            *)
(***************************************************************************)
EXTENDS ErrorState, Sequences, FiniteSets

CONSTANTS
  Self,       \* the thread that loads
  Heads,      \* what a document may have besides its children
  Kids,       \* the children a feed may have
  MaxKids     \* bound: how many of them

Texts == {"none", "iri", "junk"}

ASSUME SelfAssumption == Self \in Threads
ASSUME KidsAssumption == MaxKids \in Nat
ASSUME HeadsAssumption == \A head \in Heads : head.id \in Texts
ASSUME EntriesAssumption ==
  \A kid \in Kids : kid.tag = "entry" =>
    /\ kid.id \in Texts /\ kid.src \in Texts
    /\ kid.kids \in Seq({kid.kids[i] : i \in DOMAIN kid.kids})   \* of any elements
ASSUME StaleAssumption == MaxMsgs # 0   \* room for the error of an earlier call

VARIABLES
  doc,      \* the document, fixed
  tree,     \* whether its XML tree is "live" or "deleted"
  feed,     \* what the feed has received
  entry,    \* what the entry being read has received
  at, in,   \* the child of the feed, and of the entry, that is read
  irt,      \* the in-reply-to object: "none", "live" or "freed"
  result,   \* what the feed's loader returns: "failure" is 0, "success" 1
  pc
load == <<doc, tree, feed, entry, at, in, irt, result, pc>>

(* Children.  An author needs a name and a category a term ("ok"), and each *)
(* may have an IRI.                                                         *)
Part(tag, ok, iri) == [tag |-> tag, ok |-> ok, iri |-> iri]
Reply(ref, href, source, type) ==
  [tag |-> "in-reply-to", ref |-> ref, href |-> href, source |-> source, type |-> type]
Entry(id, title, text, src, kids) ==
  [tag |-> "entry", empty |-> FALSE, id |-> id, title |-> title, text |-> text,
   src |-> src, kids |-> kids]
EmptyEntry == [Entry("none", FALSE, FALSE, "none", <<>>) EXCEPT !.empty = TRUE]
Other == [tag |-> "link"]
Blank == [tag |-> "text"]   \* character data between elements, also spaces

NoEntry == [at |-> 0, id |-> "none", title |-> FALSE, src |-> "none", parts |-> <<>>]

LoadInit ==
  /\ key = TRUE /\ ended = {} /\ fault = FALSE
  /\ \E stale \in {0, 1} :     \* an error that an earlier call left
       /\ has = [t \in Threads |-> stale = 1]
       /\ last = [t \in Threads |-> stale = 1]
       /\ msg = [t \in Threads |-> stale]
       /\ pending = [t \in Threads |-> stale]
       /\ made = stale /\ live = 1..stale
  /\ since = 0 /\ cleared = {} /\ resumed = FALSE
  /\ \E head \in Heads, n \in 0..MaxKids : \E kids \in [1..n -> Kids] :
       doc = [file |-> head.file, root |-> head.root, id |-> head.id,
              title |-> head.title, kids |-> kids]
  /\ tree = "live"
  /\ feed = [id |-> "none", title |-> FALSE, parts |-> <<>>, entries |-> <<>>]
  /\ entry = NoEntry /\ at = 1 /\ in = 1 /\ irt = "none"
  /\ result = "none" /\ pc = "load"
-----------------------------------------------------------------------------
NoError == UNCHANGED vars
Error == Set(Self, FALSE)

(* How the library tests the result everywhere:                             *)
(* `if (!ta_iri_set_from_string (iri, text))' refuses the text.             *)
Refuses(text) == text = "iri"

(* At most one of parsing and refusing sets an error.                       *)
ReadIri(text) == IF text = "junk" \/ Refuses(text) THEN Error ELSE NoError

FeedFails_Cleared == Clear(Self) /\ result' = "failure" /\ pc' = "return"

FeedFails == Error /\ result' = "failure" /\ pc' = "return"
EntryFails == Error /\ pc' = "entry-return"

(* iks_load fails, or the tree is there.                                    *)
Load ==
  /\ pc = "load"
  /\ \/ doc.file /\ Error /\ result' = "failure" /\ pc' = "returned"
     \/ NoError /\ pc' = "feed" /\ UNCHANGED result
  /\ UNCHANGED <<doc, tree, feed, entry, at, in, irt>>

(* A wrong root, or one without children, which is no different, deletes    *)
(* the tree.  The id is parsed.                                             *)
FeedHead ==
  /\ pc = "feed"
  /\ IF doc.root # "feed" \/ doc.id = "none" \/ Refuses(doc.id) THEN FeedFails
     ELSE ReadIri(doc.id) /\ pc' = "title" /\ UNCHANGED result
  /\ tree' = IF doc.root # "feed" THEN "deleted" ELSE tree
  /\ UNCHANGED <<doc, feed, entry, at, in, irt>>

FeedTitle ==
  /\ pc = "title"
  /\ IF ~doc.title THEN FeedFails /\ UNCHANGED feed
     ELSE /\ feed' = [feed EXCEPT !.id = doc.id, !.title = TRUE]
          /\ NoError /\ pc' = "kids" /\ UNCHANGED result
  /\ UNCHANGED <<doc, tree, entry, at, in, irt>>

(* The next child of the feed.                                              *)
Kid == doc.kids[at]
AtKid(tags) == pc = "kids" /\ at \in DOMAIN doc.kids /\ Kid.tag \in tags

(* An author or a category: what is refused, and what error is left.        *)
BadPart(e) == ~e.ok \/ Refuses(e.iri)

FeedPart_Skips ==
  /\ AtKid({"author", "category"})
  /\ feed' = IF BadPart(Kid) THEN feed ELSE [feed EXCEPT !.parts = Append(@, Kid)]
  /\ at' = at + 1
  /\ IF BadPart(Kid) THEN Error ELSE ReadIri(Kid.iri)
  /\ UNCHANGED <<doc, tree, entry, in, irt, result, pc>>

FeedPart ==
  /\ AtKid({"author", "category"})
  /\ IF BadPart(Kid) THEN FeedFails /\ UNCHANGED <<feed, at>>
     ELSE /\ feed' = [feed EXCEPT !.parts = Append(@, Kid)]
          /\ at' = at + 1
          /\ ReadIri(Kid.iri) /\ UNCHANGED <<result, pc>>
  /\ UNCHANGED <<doc, tree, entry, in, irt>>

FeedOther_Stays ==
  /\ AtKid({"link"})
  /\ UNCHANGED at /\ NoError
  /\ UNCHANGED <<doc, tree, feed, entry, in, irt, result, pc>>

FeedOther_Two ==
  /\ AtKid({"link"})
  /\ at' = at + 2 /\ NoError
  /\ UNCHANGED <<doc, tree, feed, entry, in, irt, result, pc>>

FeedOther ==
  /\ AtKid({"link"})
  /\ at' = at + 1 /\ NoError
  /\ UNCHANGED <<doc, tree, feed, entry, in, irt, result, pc>>

(* Character data has no name: strcmp gets NULL (atom.c:1593).              *)
FeedText ==
  /\ AtKid({"text"})
  /\ pc' = "crash" /\ NoError
  /\ UNCHANGED <<doc, tree, feed, entry, at, in, irt, result>>

FeedEntry ==
  /\ AtKid({"entry"})
  /\ entry' = [NoEntry EXCEPT !.at = at] /\ in' = 1 /\ irt' = "none"
  /\ pc' = "entry" /\ NoError
  /\ UNCHANGED <<doc, tree, feed, at, result>>

(* An entry has been read: it is dropped if there is an error now, which is *)
(* cleared.  Going on to the next child needs the tree.                     *)
Keep(n) == feed' = [feed EXCEPT !.entries = Append(@, n)] /\ NoError
NextKid == at' = at + 1 /\ pc' = IF tree = "live" THEN "kids" ELSE "crash"

EntryReturn_Unchecked ==
  /\ pc = "entry-return"
  /\ Keep(entry) /\ NextKid
  /\ UNCHANGED <<doc, tree, entry, in, irt, result>>

EntryReturn ==
  /\ pc = "entry-return"
  /\ IF last[Self] THEN Clear(Self) /\ UNCHANGED feed ELSE Keep(entry)
  /\ NextKid
  /\ UNCHANGED <<doc, tree, entry, in, irt, result>>

FeedEnd ==
  /\ pc = "kids" /\ at \notin DOMAIN doc.kids
  /\ result' = "success" /\ pc' = "return" /\ NoError
  /\ UNCHANGED <<doc, tree, feed, entry, at, in, irt>>

(* ta_atom_feed_set_from_file deletes the tree.                             *)
Return ==
  /\ pc = "return"
  /\ pc' = IF doc.file /\ tree = "deleted" THEN "crash" ELSE "returned"
  /\ tree' = IF doc.file THEN "deleted" ELSE tree
  /\ NoError
  /\ UNCHANGED <<doc, feed, entry, at, in, irt, result>>
-----------------------------------------------------------------------------
(* ta_atom_entry_set_from_iks.  An entry without children deletes the tree  *)
(* it is a part of.                                                         *)
EntryHead ==
  /\ pc = "entry"
  /\ IF Kid.empty \/ Kid.id = "none" \/ Refuses(Kid.id) THEN EntryFails
     ELSE ReadIri(Kid.id) /\ pc' = "entry-title"
  /\ tree' = IF Kid.empty THEN "deleted" ELSE tree
  /\ UNCHANGED <<doc, feed, entry, at, in, irt, result>>

EntryTitle ==
  /\ pc = "entry-title"
  /\ IF ~Kid.title THEN EntryFails /\ UNCHANGED entry
     ELSE /\ entry' = [entry EXCEPT !.id = Kid.id, !.title = TRUE]
          /\ NoError /\ pc' = "content"
  /\ UNCHANGED <<doc, tree, feed, at, in, irt, result>>

(* Content has a text or a source, not both.                                *)
EntryContent ==
  /\ pc = "content"
  /\ IF Kid.src # "none" /\ (Kid.text \/ Refuses(Kid.src))
     THEN EntryFails /\ UNCHANGED entry
     ELSE /\ entry' = [entry EXCEPT !.src = Kid.src]
          /\ ReadIri(Kid.src) /\ pc' = "entry-kids"
  /\ UNCHANGED <<doc, tree, feed, at, in, irt, result>>

Sub == Kid.kids[in]
AtSub(tags) == pc = "entry-kids" /\ in \in DOMAIN Kid.kids /\ Sub.tag \in tags

EntryPart ==
  /\ AtSub({"author", "category"})
  /\ IF BadPart(Sub) THEN EntryFails /\ UNCHANGED <<entry, in>>
     ELSE /\ entry' = [entry EXCEPT !.parts = Append(@, Sub)]
          /\ in' = in + 1
          /\ ReadIri(Sub.iri) /\ UNCHANGED pc
  /\ UNCHANGED <<doc, tree, feed, at, irt, result>>

EntryText ==   \* atom.c:1016
  /\ AtSub({"text"})
  /\ pc' = "crash" /\ NoError
  /\ UNCHANGED <<doc, tree, feed, entry, at, in, irt, result>>

EntryEnd ==
  /\ pc = "entry-kids" /\ in \notin DOMAIN Kid.kids
  /\ pc' = "entry-return" /\ NoError
  /\ UNCHANGED <<doc, tree, feed, entry, at, in, irt, result>>

(* An in-reply-to that is refused sets an error that quotes the last one,   *)
(* and clears it.  A bad ref ends the entry; a bad href or source drops the *)
(* object and goes on.                                                      *)
Quote(then) == IF last[Self] THEN Set(Self, TRUE) /\ pc' = then
                             ELSE NoError /\ pc' = "crash"

ReplyRef ==
  /\ AtSub({"in-reply-to"})
  /\ IF Sub.ref = "none" THEN EntryFails /\ UNCHANGED irt
     ELSE IF Refuses(Sub.ref) THEN Quote("ref-refused") /\ UNCHANGED irt
     ELSE ReadIri(Sub.ref) /\ pc' = "href" /\ irt' = "live"
  /\ UNCHANGED <<doc, tree, feed, entry, at, in, result>>

RefRefused ==
  /\ pc = "ref-refused"
  /\ Clear(Self) /\ pc' = "entry-return"
  /\ UNCHANGED <<doc, tree, feed, entry, at, in, irt, result>>

After == IF pc \in {"href", "href-refused"} THEN "source" ELSE "type"
Use(then) == pc' = IF irt = "live" THEN then ELSE "crash"

ReplyLink ==
  LET text == IF pc = "href" THEN Sub.href ELSE Sub.source IN
  /\ pc \in {"href", "source"}
  /\ IF Refuses(text) THEN Quote(IF pc = "href" THEN "href-refused" ELSE "source-refused")
     ELSE /\ ReadIri(text)
          /\ IF text = "none" THEN pc' = After ELSE Use(After)
  /\ UNCHANGED <<doc, tree, feed, entry, at, in, irt, result>>

LinkRefused ==
  /\ pc \in {"href-refused", "source-refused"}
  /\ Clear(Self)
  /\ Use(After) /\ irt' = "freed"
  /\ UNCHANGED <<doc, tree, feed, entry, at, in, result>>

ReplyType ==
  /\ pc = "type"
  /\ IF Sub.type THEN Use("entry-kids") ELSE pc' = "entry-kids"
  /\ in' = in + 1 /\ NoError
  /\ UNCHANGED <<doc, tree, feed, entry, at, irt, result>>
-----------------------------------------------------------------------------
Step ==
  \/ Load \/ FeedHead \/ FeedTitle \/ FeedPart \/ FeedOther \/ FeedText \/ FeedEntry
  \/ EntryReturn \/ FeedEnd \/ Return
  \/ EntryHead \/ EntryTitle \/ EntryContent \/ EntryPart \/ EntryText \/ EntryEnd
  \/ ReplyRef \/ RefRefused \/ ReplyLink \/ LinkRefused \/ ReplyType
Ended == pc \in {"returned", "crash"}
Rest == Ended /\ UNCHANGED <<vars, load>>

LoadSpec == /\ LoadInit /\ [][Step \/ Rest]_<<vars, load>>
            /\ WF_<<vars, load>>(Step)
-----------------------------------------------------------------------------
IsPart(e) == e.tag \in {"author", "category"}

LoadTypeOK ==
  /\ TypeOK
  /\ tree \in {"live", "deleted"} /\ irt \in {"none", "live", "freed"}
  /\ at \in 1..Len(doc.kids) + 1 /\ in \in Nat \ {0}
  /\ feed.id \in Texts /\ entry.id \in Texts /\ entry.src \in Texts
  /\ result \in {"none", "failure", "success"}
  /\ pc \in {"load", "feed", "title", "kids", "entry", "entry-title", "content",
             "entry-kids", "ref-refused", "href", "href-refused", "source",
             "source-refused", "type", "entry-return", "return", "returned", "crash"}

(* A feed that could not be loaded leaves the reason behind: whoever gets 0 *)
(* may ask ta_error_last(), whatever entries were dropped, and their errors *)
(* cleared, on the way (atom.h:914 "@raise").                               *)
FailureSaysWhy == pc \in {"return", "returned"} /\ result = "failure" => last[Self]

(* `parts' are the authors and categories among the first n of `kids', in   *)
(* their order.                                                             *)
PartsTo(kids, n) == {i \in 1..n : IsPart(kids[i])}
PartsRead(parts, kids, n) ==
  /\ Len(parts) = Cardinality(PartsTo(kids, n))
  /\ \A i \in PartsTo(kids, n) : parts[Cardinality(PartsTo(kids, i))] = kids[i]

(* The entries a feed keeps, which only the error state tells from those it *)
(* drops, are in the order of the document, each once.  Each has the id,    *)
(* the title and the content's source of its element, and all authors and   *)
(* categories of it unless the ref of an in-reply-to is refused: then those *)
(* before that, because the error is cleared on the way out                 *)
(* (atom.c:1095-1100) and the caller takes the half-read entry for a whole. *)
RefusedReply(kid) == kid.tag = "in-reply-to" /\ Refuses(kid.ref)
AsRead(e) ==
  LET K == doc.kids[e.at] IN
  /\ K.tag = "entry" /\ K.id # "none"
  /\ e.id = K.id /\ e.title /\ e.src = K.src
  /\ \E n \in 0..Len(K.kids) :
       /\ PartsRead(e.parts, K.kids, n)
       /\ n = Len(K.kids) \/ RefusedReply(K.kids[n + 1])

KeptAsRead ==
  \A i \in DOMAIN feed.entries :
    /\ AsRead(feed.entries[i])
    /\ \A j \in 1..i - 1 : feed.entries[j].at < feed.entries[i].at

(* A feed that was loaded has everything the document has but entries: each *)
(* part of the document is in it, after as many parts as in the document.   *)
LoadedWhole ==
  result = "success" =>
    feed.id = doc.id /\ feed.title /\ PartsRead(feed.parts, doc.kids, Len(doc.kids))

(* "specification denies invalid iris in an uri of a person object"         *)
(* (atom.c:1034-1035): no person that was read has one.                     *)
NoInvalidPerson ==
  LET Valid(parts) == \A i \in DOMAIN parts :
        parts[i].tag = "author" => parts[i].iri # "junk"
  IN  Valid(feed.parts) /\ Valid(entry.parts)

(* Loading ends, with a result unless it crashes.                           *)
LoadEnds == <>(pc = "crash" \/ (pc = "returned" /\ result # "none"))
=============================================================================
