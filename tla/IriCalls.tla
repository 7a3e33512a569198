------------------------------ MODULE IriCalls -------------------------------
(***************************************************************************)
(* Threads that fill in an IRI, by its setters and from texts: src/iri.c   *)
(* on top of the error state.  All that the error state hears is whether a *)
(* text was refused.                                                       *)
(***************************************************************************)
EXTENDS ErrorState, Iri

CONSTANTS
  Parsed,    \* the texts that the IRI may be parsed from
  Values     \* field -> what its setter may be called with

(* A text is any sequence of characters, a field has one or none.           *)
Strings == Seq(Chars)
FieldTexts == {field \in Seq(Strings) : Len(field) <= 1}

ASSUME ParsedAssumption == Parsed \subseteq Strings
ASSUME ValuesAssumption ==
  /\ DOMAIN Values \subseteq DOMAIN NewIri
  /\ \A field \in DOMAIN Values :
       Values[field] \subseteq (IF field = "port" THEN Nat ELSE FieldTexts)

VARIABLE iri

CallsInit == Init /\ iri = NewIri

New == iri' = NewIri /\ UNCHANGED vars

SetField(field, value) == iri' = [iri EXCEPT ![field] = value] /\ UNCHANGED vars

Parse(t, s) ==
  LET outcome == FromString(iri, s) IN
  /\ MayCall(t)
  /\ IF outcome.ok THEN UNCHANGED vars ELSE Set(t, FALSE)
  /\ iri' = outcome.iri

Fail(t, quote) == Set(t, quote) /\ UNCHANGED iri
Others ==
  /\ Setup \/ Teardown \/ \E t \in Threads : Clear(t) \/ Exit(t)
  /\ UNCHANGED iri

CallsNext ==
  \/ New
  \/ \E field \in DOMAIN Values : \E value \in Values[field] : SetField(field, value)
  \/ \E t \in Threads, s \in Parsed : Parse(t, s)
  \/ \E t \in Threads, quote \in BOOLEAN : Fail(t, quote)
  \/ Others

CallsSpec == CallsInit /\ [][CallsNext]_<<vars, iri>>
-----------------------------------------------------------------------------
(* What is printed fits into what is allocated for it (iri.c:183-215 count  *)
(* the delimiters, 220-278 write them), for every choice of fields and any  *)
(* port that sprintf has room for (249).                                    *)
PrintFits == iri.port < 1000 => Len(Printed(iri)) < Room(iri)

(* A field has none of the characters, or there is one that stops the       *)
(* search for them before it gets there.                                    *)
Free(field, chars) == \A k \in DOMAIN Text(field) : Text(field)[k] \notin chars

SchemeText(text) ==
  text # <<>> /\ text[1] \in Alphas /\ \A k \in DOMAIN text : text[k] \in SchemeChars

WithHost(i) ==
  /\ Free(i.user, {"@", "/", "?", "#"})
  /\ Free(i.host, Delims)
  /\ i.path # NoText => Text(i.path) # <<>> /\ Text(i.path)[1] = "/"
  /\ i.port = 0 => Free(i.path, {":"})
  /\ i.path = NoText => Free(i.query, {"/"}) /\ Free(i.fragment, {"/"})
  /\ i.user = NoText => \A field \in {i.path, i.query, i.fragment} : Free(field, {"@"})
  /\ i.port = 0 /\ i.path # NoText => i.query = NoText /\ i.fragment = NoText

WithoutHost(i) ==
  /\ i.user = NoText /\ i.port = 0 /\ i.path # NoText
  /\ ~SlashesAt(Text(i.path), 1)

Regular(i) ==
  /\ i.port < 1000
  /\ i.scheme # NoText /\ SchemeText(Text(i.scheme))
  /\ Free(i.path, {"?", "#"}) /\ Free(i.query, {"#"})
  /\ i.query = NoText => Free(i.fragment, {"?"})
  /\ IF i.host = NoText THEN WithoutHost(i) ELSE WithHost(i)

(* An IRI that is printed and parsed again is the same, however its fields  *)
(* were set and whatever delimiters of one part appear in another, as long  *)
(* as it is Regular (test_iri_from_string_with_colon_in_query and its       *)
(* neighbours try seven texts).  What Regular leaves out beyond what the    *)
(* RFC does: a host with a path and a query or fragment but no port, which  *)
(* takes the path into the host, and delimiters in places where the parser  *)
(* takes the first one it meets.                                            *)
ReadsBack ==
  Regular(iri) => FromString(NewIri, Printed(iri)) = Outcome(TRUE, iri)
=============================================================================
