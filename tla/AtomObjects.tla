---------------------------- MODULE AtomObjects ------------------------------
(***************************************************************************)
(* The reference counts of src/object.c and the objects of src/atom.c that *)
(* hold one another: in-reply-to, links, contents, persons, categories,    *)
(* entries and feeds, over IRIs and simple elements.                       *)
(*                                                                         *)
(* A constructor gives its caller the first reference.  Setters and add    *)
(* functions take one more of what they are given; replacing a field,      *)
(* emptying a list and freeing a holder drop them.  The last one dropped   *)
(* runs the destructor of the object, which drops what that holds, and so  *)
(* on: one step here for each ta_object_unref, with the calls in progress  *)
(* on a stack.  Texts are left out except those that can be freed twice.   *)
(* No address is used twice, so that using freed memory is seen as such.   *)
(***************************************************************************)
EXTENDS Naturals, Sequences, FiniteSets

CONSTANTS
  Objects,
  None,
  MaxMine,    \* bound: references the application holds to one object
  MaxItems,   \* bound: items of one list
  OpenLists,  \* lists without sound memory management that callers use
  Misuse      \* what else callers do that the code is not prepared for

(* An entry and a feed never drop their links, nor an entry its simple      *)
(* elements; the simple elements of an entry and the links of a feed start  *)
(* as whatever malloc returned.                                             *)
UnsoundLists == {<<"entry", "links">>, <<"entry", "ext_elements">>, <<"feed", "links">>}
Misuses == {"del-inreplyto", "self-set", "null-text", "print-without-id"}

ASSUME NoneAssumption == None \notin Objects
ASSUME BoundAssumption == MaxMine \in Nat /\ MaxItems \in Nat
ASSUME MisuseAssumption == OpenLists \subseteq UnsoundLists /\ Misuse \subseteq Misuses

VARIABLES
  kind,     \* object -> its type
  life,     \* object -> "unused", "live", "dying" while its destructor runs,
            \* or "freed"
  count,    \* object -> refcount
  mine,     \* object -> how many of them the application holds
  refs,     \* pointers from a field of an object, or the n-th item of a
            \* list of it, to an object
  text,     \* object -> a content's text, or a simple element's name and
            \* value: "none", "set" or "freed" but still pointed to
  bad,      \* lists whose head is not a pointer to follow
  stack,    \* calls in progress: which fields of which object they drop,
            \* and whether they free it then
  pending,  \* what a setter stores once it has dropped the old value
  fault     \* freed memory, NULL or a bad list was used
vars == <<kind, life, count, mine, refs, text, bad, stack, pending, fault>>
-----------------------------------------------------------------------------
(* The types.  A row stands for the functions of its type: it names the     *)
(* fields that hold objects, and of which type these are, and the actions   *)
(* below read from it what the constructors, setters, printers and          *)
(* destructors do.                                                          *)
InReplyTo == [ref |-> "iri", href |-> "iri", source |-> "iri"]
Link == [href |-> "iri"]
Content == [src |-> "iri"]
Person == [iri |-> "iri", ext_elements |-> "simple_element"]
Category == [scheme |-> "iri"]
Entry == [id |-> "iri", authors |-> "person", categories |-> "category", links |-> "link",
          in_reply_to |-> "in_reply_to", content |-> "content",
          ext_elements |-> "simple_element"]
Feed == [id |-> "iri", authors |-> "person", categories |-> "category", links |-> "link",
         entries |-> "entry"]
Leaf == [f \in {} |-> ""]

Kinds == {"iri", "simple_element", "link", "content", "category", "person", "in_reply_to",
          "entry", "feed"}
FieldTable ==
  [iri |-> Leaf, simple_element |-> Leaf, link |-> Link, content |-> Content,
   category |-> Category, person |-> Person, in_reply_to |-> InReplyTo,
   entry |-> Entry, feed |-> Feed]
Fields(k) == FieldTable[k]
Lists == {"authors", "categories", "links", "in_reply_to", "ext_elements", "entries"}

Scalars == {"ref", "href", "source", "src", "scheme", "iri", "id", "content"}

(* The lists that callers use, and the fields that destructors drop, in the *)
(* order in which they do.                                                  *)
Open(k, f) == <<k, f>> \notin UnsoundLists \/ <<k, f>> \in OpenLists
Dropped_ForgetsIri(k) ==
  {f \in DOMAIN Fields(k) : f # "iri" /\ <<k, f>> \notin UnsoundLists}
Dropped(k) == {f \in DOMAIN Fields(k) : <<k, f>> \notin UnsoundLists}
DropOrder == <<"ref", "href", "source", "src", "scheme", "iri", "id", "authors",
               "categories", "in_reply_to", "content", "entries", "ext_elements">>
Before(f, g) == \E i, j \in DOMAIN DropOrder : f = DropOrder[i] /\ g = DropOrder[j] /\ i < j

(* The field a constructor fills, and whether it can do without.            *)
Taken(k) == {f \in {"ref", "href", "iri", "scheme"} :
  <<k, f>> \in {<<"in_reply_to", "ref">>, <<"link", "href">>, <<"person", "iri">>, <<"category", "scheme">>}}
Optional(k) == k \in {"person", "category"}
Uninitialised(k) == {f \in Lists : <<k, f>> \in OpenLists \ {<<"entry", "links">>}}

Ptr(o, f, n, v) == [by |-> o, at |-> f, n |-> n, to |-> v]
Held(o, f) == {r \in refs : r.by = o /\ r.at = f}

Init ==
  /\ kind = [o \in Objects |-> "iri"]
  /\ life = [o \in Objects |-> "unused"]
  /\ count = [o \in Objects |-> 0]
  /\ mine = [o \in Objects |-> 0]
  /\ refs = {}
  /\ text = [o \in Objects |-> "none"]
  /\ bad = {}
  /\ stack = <<>>
  /\ pending = None
  /\ fault = FALSE

Idle == stack = <<>> /\ pending = None /\ ~fault
Live(o) == life[o] = "live"
-----------------------------------------------------------------------------
(* ta_object_init: the first reference is the caller's.                     *)
Made(o, k) ==
  /\ Idle /\ life[o] = "unused"
  /\ kind' = [kind EXCEPT ![o] = k]
  /\ life' = [life EXCEPT ![o] = "live"]
  /\ text' = [text EXCEPT ![o] = IF k = "simple_element" THEN "set" ELSE "none"]
  /\ \E lists \in SUBSET Uninitialised(k) : bad' = bad \cup {<<o, f>> : f \in lists}
  /\ UNCHANGED <<stack, pending, fault>>

New(o, k) ==
  /\ Made(o, k)
  /\ Taken(k) = {} \/ Optional(k)
  /\ count' = [count EXCEPT ![o] = 1]
  /\ mine' = [mine EXCEPT ![o] = 1]
  /\ UNCHANGED refs

(* A constructor takes a reference of its own, except that of a link, which *)
(* uses up the caller's.                                                    *)
NewWith_Borrows(o, k, v) ==
  /\ Made(o, k)
  /\ Live(v)
  /\ \E f \in Taken(k) : /\ kind[v] = Fields(k)[f]
                         /\ refs' = refs \cup {Ptr(o, f, 1, v)}
  /\ count' = [count EXCEPT ![o] = 1, ![v] = IF k = "link" THEN @ ELSE @ + 1]
  /\ mine' = [mine EXCEPT ![o] = 1, ![v] = IF k = "link" THEN @ - 1 ELSE @]

NewWith(o, k, v) ==
  /\ Made(o, k)
  /\ Live(v) /\ mine[v] > 0
  /\ \E f \in Taken(k) : /\ kind[v] = Fields(k)[f]
                         /\ refs' = refs \cup {Ptr(o, f, 1, v)}
  /\ count' = [count EXCEPT ![o] = 1, ![v] = IF k = "link" THEN @ ELSE @ + 1]
  /\ mine' = [mine EXCEPT ![o] = 1, ![v] = IF k = "link" THEN @ - 1 ELSE @]

(* ta_object_ref, by the application.                                       *)
Ref(o) ==
  /\ Idle /\ Live(o) /\ mine[o] < MaxMine
  /\ count' = [count EXCEPT ![o] = @ + 1]
  /\ mine' = [mine EXCEPT ![o] = @ + 1]
  /\ UNCHANGED <<kind, life, refs, text, bad, stack, pending, fault>>

(* ta_object_unref: the last reference runs the destructor, which frees the *)
(* object when it is done.                                                  *)
Drop(v, calls) ==
  IF ~Live(v) THEN fault' = TRUE /\ stack' = calls /\ UNCHANGED <<count, life>>
  ELSE /\ count' = [count EXCEPT ![v] = @ - 1]
       /\ IF count[v] = 1
          THEN /\ life' = [life EXCEPT ![v] = "dying"]
               /\ stack' = Append(calls, [obj |-> v, fields |-> Dropped(kind[v]), frees |-> TRUE])
          ELSE life' = life /\ stack' = calls
       /\ UNCHANGED fault

Unref(o) ==
  /\ Idle /\ mine[o] > 0
  /\ mine' = [mine EXCEPT ![o] = @ - 1]
  /\ Drop(o, <<>>)
  /\ UNCHANGED <<kind, refs, text, bad, pending>>
-----------------------------------------------------------------------------
(* Setters drop the old value and then take a reference to the new one,     *)
(* which the application holds or got from another object.  Only a scheme   *)
(* may be set to NULL.                                                      *)
Replaced(o, f, v) ==
  /\ pending' = IF v = None THEN None ELSE Ptr(o, f, 1, v)
  /\ \/ Held(o, f) = {} /\ UNCHANGED <<refs, count, life, stack, fault>>
     \/ \E r \in Held(o, f) : refs' = refs \ {r} /\ Drop(r.to, <<>>)

Fits(o, f, v) ==
  IF v = None THEN f = "scheme"
  ELSE /\ Live(v) /\ kind[v] = Fields(kind[o])[f]
       /\ Ptr(o, f, 1, v) \in refs => count[v] > 1 \/ "self-set" \in Misuse

SetField(o, f, v) ==
  /\ Idle /\ Live(o)
  /\ f \in DOMAIN Fields(kind[o])
  /\ Fits(o, f, v)
  /\ Replaced(o, f, v)
  /\ text' = IF f = "src" /\ Held(o, f) # {} /\ text[o] = "set"
             THEN [text EXCEPT ![o] = "none"] ELSE text
  /\ UNCHANGED <<kind, mine, bad>>

Store_NoRef ==
  /\ stack = <<>> /\ pending # None /\ ~fault
  /\ refs' = refs \cup {pending}
  /\ pending' = None
  /\ UNCHANGED <<kind, life, count, mine, text, bad, stack, fault>>

Store ==
  /\ stack = <<>> /\ pending # None /\ ~fault
  /\ IF Live(pending.to)
     THEN /\ refs' = refs \cup {pending}
          /\ count' = [count EXCEPT ![pending.to] = @ + 1]
          /\ UNCHANGED fault
     ELSE fault' = TRUE /\ UNCHANGED <<refs, count>>
  /\ pending' = None
  /\ UNCHANGED <<kind, life, mine, text, bad, stack>>

(* ta_atom_content_set_content frees the old text, and with it goes the     *)
(* source if there is a new one; without one the old pointer stays.  (So it *)
(* does with a new one of length 0, which is left out.)                     *)
SetContent(o, given) ==
  /\ Idle /\ Live(o) /\ kind[o] = "content"
  /\ given \/ "null-text" \in Misuse
  /\ text' = [text EXCEPT ![o] = IF given THEN "set" ELSE IF @ = "none" THEN @ ELSE "freed"]
  /\ IF text[o] = "freed" THEN fault' = TRUE /\ UNCHANGED <<refs, count, life, stack, pending>>
     ELSE IF text[o] = "set" /\ given THEN Replaced(o, "src", None)
     ELSE UNCHANGED <<refs, count, life, stack, pending, fault>>
  /\ UNCHANGED <<kind, mine, bad>>

(* The add functions append to a list.                                      *)
Add_NoRef(o, f, n, v) ==
  /\ Idle /\ Live(o) /\ Live(v)
  /\ f \in DOMAIN Fields(kind[o]) \cap Lists /\ Open(kind[o], f)
  /\ kind[v] = Fields(kind[o])[f]
  /\ \A q \in Held(o, f) : q.n < n
  /\ n # 1 => \E q \in Held(o, f) : q.n = n - 1
  /\ refs' = refs \cup {Ptr(o, f, n, v)}
  /\ fault' = (<<o, f>> \in bad)
  /\ UNCHANGED <<kind, life, count, mine, text, bad, stack, pending>>

Add(o, f, n, v) ==
  /\ Idle /\ Live(o) /\ Live(v)
  /\ f \in DOMAIN Fields(kind[o]) \cap Lists /\ Open(kind[o], f)
  /\ kind[v] = Fields(kind[o])[f]
  /\ \A q \in Held(o, f) : q.n < n
  /\ n # 1 => \E q \in Held(o, f) : q.n = n - 1
  /\ count' = [count EXCEPT ![v] = @ + 1]
  /\ refs' = refs \cup {Ptr(o, f, n, v)}
  /\ fault' = (<<o, f>> \in bad)
  /\ UNCHANGED <<kind, life, mine, text, bad, stack, pending>>

(* The del functions empty one.  That of an entry's simple elements frees   *)
(* their texts and drops no reference; that of in_reply_to, called by the   *)
(* application, leaves the freed list in place and forgets the simple       *)
(* elements instead.                                                        *)
DelSimple(o) ==
  LET gone == {r.to : r \in Held(o, "ext_elements")} IN
  /\ refs' = refs \ Held(o, "ext_elements")
  /\ text' = [v \in Objects |-> IF v \in gone THEN "freed" ELSE text[v]]
  /\ fault' = (<<o, "ext_elements">> \in bad \/ \E v \in gone : text[v] = "freed")
  /\ UNCHANGED <<stack, bad>>

DelList(o, f) ==
  /\ stack' = <<[obj |-> o, fields |-> {f}, frees |-> FALSE]>>
  /\ fault' = (<<o, f>> \in bad)
  /\ IF f = "in_reply_to"
     THEN /\ refs' = refs \ Held(o, "ext_elements")
          /\ bad' = (bad \ {<<o, "ext_elements">>})
                    \cup (IF Held(o, f) = {} THEN {} ELSE {<<o, f>>})
     ELSE UNCHANGED <<refs, bad>>
  /\ UNCHANGED text

Del(o, f) ==
  /\ Idle /\ Live(o)
  /\ f \in DOMAIN Fields(kind[o]) \cap Lists /\ Open(kind[o], f)
  /\ f = "in_reply_to" => "del-inreplyto" \in Misuse
  /\ IF kind[o] = "entry" /\ f = "ext_elements" THEN DelSimple(o) ELSE DelList(o, f)
  /\ UNCHANGED <<kind, life, count, mine, pending>>
-----------------------------------------------------------------------------
(* A destructor, or a del function, goes on.                                *)
Top == stack[Len(stack)]
Callers == SubSeq(stack, 1, Len(stack) - 1)
Due == {r \in refs : r.by = Top.obj /\ r.at \in Top.fields}

DropNext ==
  /\ stack # <<>> /\ ~fault
  /\ \E r \in Due :
       /\ \A q \in Due : ~Before(q.at, r.at) /\ (q.at = r.at => r.n <= q.n)
       /\ refs' = refs \ {r}
       /\ Drop(r.to, stack)
  /\ UNCHANGED <<kind, mine, text, bad, pending>>

Finish ==
  /\ stack # <<>> /\ ~fault /\ Due = {}
  /\ stack' = Callers
  /\ IF Top.frees
     THEN /\ life' = [life EXCEPT ![Top.obj] = "freed"]
          /\ fault' = (text[Top.obj] = "freed" \/ \E f \in Top.fields : <<Top.obj, f>> \in bad)
     ELSE life' = life /\ fault' = ~Live(Top.obj)
  /\ UNCHANGED <<kind, count, mine, refs, text, bad, pending>>
-----------------------------------------------------------------------------
(* to_iks: what is printed is read with all it holds, except that nobody    *)
(* looks at the links of a feed and the simple elements of an entry.  A     *)
(* feed or entry without an id prints as NULL, which goes into no feed.     *)
Printed(k) == DOMAIN Fields(k) \ {f \in Lists : <<k, f>> \in UnsoundLists \ {<<"entry", "links">>}}
Parts(S) == {r.to : r \in {q \in refs : q.by \in S /\ q.at \in Printed(kind[q.by])}}
Shown(o) == LET one == Parts({o}) two == Parts(one) IN {o} \cup one \cup two \cup Parts(two)
IsNull(o) == kind[o] \in {"entry", "feed"} /\ Held(o, "id") = {}
HoldsNull(o) == \E r \in Held(o, "entries") : IsNull(r.to)
Unreadable(v) == ~Live(v) \/ text[v] = "freed" \/ <<v, "in_reply_to">> \in bad

ToIks(o) ==
  /\ Idle /\ Live(o) /\ ~IsNull(o)
  /\ HoldsNull(o) => "print-without-id" \in Misuse
  /\ fault' = (HoldsNull(o) \/ \E v \in Shown(o) : Unreadable(v))
  /\ UNCHANGED <<kind, life, count, mine, refs, text, bad, stack, pending>>

Step == DropNext \/ Finish \/ Store
Call ==
  \/ \E o \in Objects, k \in Kinds : New(o, k) \/ \E v \in Objects : NewWith(o, k, v)
  \/ \E o \in Objects : Ref(o) \/ Unref(o) \/ ToIks(o)
  \/ \E o \in Objects, f \in Scalars, v \in Objects \cup {None} : SetField(o, f, v)
  \/ \E o \in Objects, given \in BOOLEAN : SetContent(o, given)
  \/ \E o, v \in Objects, f \in Lists, n \in 1..MaxItems : Add(o, f, n, v)
  \/ \E o \in Objects, f \in Lists : Del(o, f)
Next == Step \/ Call
Spec == Init /\ [][Next]_vars
-----------------------------------------------------------------------------
To(o) == {r \in refs : r.to = o}
Pointers == [by : Objects, at : Lists \cup Scalars, n : 1..MaxItems \cup {1}, to : Objects]
Calls == [obj : Objects, fields : SUBSET (Lists \cup Scalars), frees : BOOLEAN]

TypeOK ==
  /\ kind \in [Objects -> Kinds]
  /\ life \in [Objects -> {"unused", "live", "dying", "freed"}]
  /\ count \in [Objects -> Nat] /\ mine \in [Objects -> Nat]
  /\ refs \subseteq Pointers /\ IsFiniteSet(refs)
  /\ text \in [Objects -> {"none", "set", "freed"}]
  /\ bad \subseteq Objects \X Lists
  /\ stack \in Seq(Calls)
  /\ pending \in Pointers \cup {None}
  /\ fault \in BOOLEAN

(* Nothing that was freed, and no NULL, is followed or freed again, through *)
(* any chain of destructors, setters and lists, also when objects are       *)
(* shared or borrowed from others.                                          *)
NoFault == ~fault

(* The count of an object is the number of references there are to it, also *)
(* in the middle of a chain of destructors: one too few frees it under its  *)
(* holders, one too many keeps it for ever.                                 *)
CountsExact ==
  \A o \in Objects : life[o] \in {"live", "dying"} => count[o] = mine[o] + Cardinality(To(o))

(* What is left over is only what someone still holds: the application,     *)
(* another object that is there, or a freed one by a list it never drops.   *)
(* So "freeing an instance that holds references for other objects is       *)
(* enough" (examples/atom.c:224-225) for what the application has dropped   *)
(* itself, and for nothing else: constructors and add functions take a      *)
(* reference of their own, and the object that a caller is told "not to     *)
(* try to free" once it is added (examples/atom.c:225-226, atom.h:794, 849) *)
(* stays, with all it holds.                                                *)
HeldBy(r) == Live(r.by) \/ <<kind[r.by], r.at>> \in UnsoundLists
NothingLeaks ==
  Idle => \A o \in Objects : Live(o) => mine[o] > 0 \/ \E r \in To(o) : HeldBy(r)
-----------------------------------------------------------------------------
(* Why they hold, as long as callers use no unsound list (entries may have  *)
(* links if they may leak) and do nothing of Misuse.  Types hold only types *)
(* of a lower rank, so a chain of destructors only goes down, and neither   *)
(* what a setter is about to store, nor the object whose list is emptied,   *)
(* can be reached by it.                                                    *)
Ranks == [iri |-> 0, simple_element |-> 0, link |-> 1, content |-> 1, category |-> 1,
          person |-> 1, in_reply_to |-> 1, entry |-> 2, feed |-> 3]
Rank(k) == Ranks[k]
RankOf(o) == Rank(kind[o])

PtrTyped(r) == /\ r.at \in DOMAIN Fields(kind[r.by])
               /\ kind[r.to] = Fields(kind[r.by])[r.at]
               /\ r.at \notin Lists => r.n = 1
RefsTyped ==
  /\ \A r \in refs : PtrTyped(r)
  /\ \A r, q \in refs : r.by = q.by /\ r.at = q.at /\ r.at \notin Lists => r = q
RefsLive == \A r \in refs : life[r.by] # "unused" /\ Live(r.to)

Counted ==
  /\ CountsExact
  /\ \A o \in Objects : /\ Live(o) <=> count[o] > 0
                        /\ ~Live(o) => mine[o] = 0
StackOrdered ==
  /\ \A i, j \in DOMAIN stack : i < j => RankOf(stack[j].obj) < RankOf(stack[i].obj)
  /\ \A i \in DOMAIN stack : IF stack[i].frees
       THEN life[stack[i].obj] = "dying" /\ stack[i].fields = Dropped(kind[stack[i].obj])
       ELSE i = 1 /\ Live(stack[i].obj)
DyingOnStack ==
  \A o \in Objects : life[o] = "dying" => \E i \in DOMAIN stack : stack[i].obj = o /\ stack[i].frees
PendingSafe ==
  pending # None => /\ Live(pending.by) /\ Live(pending.to) /\ PtrTyped(pending)
                    /\ \A r \in refs : ~(r.by = pending.by /\ r.at = pending.at)
                    /\ \A i \in DOMAIN stack : RankOf(stack[i].obj) <= RankOf(pending.to)
TextsSound == bad = {} /\ \A o \in Objects : text[o] # "freed"
IInv == /\ NoFault /\ RefsTyped /\ RefsLive /\ Counted
        /\ StackOrdered /\ DyingOnStack /\ PendingSafe /\ TextsSound

(* Every holder outlives what it holds by a field that it drops.            *)
HoldersLive ==
  \A r \in refs : r.at \in Dropped(kind[r.by]) => life[r.by] # "freed"
=============================================================================
