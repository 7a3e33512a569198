--------------------------------- MODULE Iri ---------------------------------
(***************************************************************************)
(* src/iri.c: an IRI as six optional texts and a port, how it is printed   *)
(* and how a text is taken apart.                                          *)
(*                                                                         *)
(* A text is a sequence of characters, a field of an IRI either NoText     *)
(* (NULL) or Some(text).  A pointer into a text is a position, NULL is 0.  *)
(* Running out of memory is left out, and that a second text leaks the     *)
(* fields that the first one set.                                          *)
(***************************************************************************)
EXTENDS Naturals, Sequences, FiniteSetsExt

CONSTANTS
  Chars,     \* the characters of texts
  Alphas     \* those of them that isalpha() accepts

NoText == <<>>
Some(text) == <<text>>
Text(field) == IF field = NoText THEN <<>> ELSE field[1]

Digit == <<"0", "1", "2", "3", "4", "5", "6", "7", "8", "9">>
Digits == {Digit[k] : k \in 1..10}

Delims == {":", "@", "/", "?", "#"}
SchemeChars == Alphas \cup Digits \cup {"-", "+", "."}

ASSUME CharsAssumption == SchemeChars \cup Delims \subseteq Chars
ASSUME AlphasAssumption == Alphas \cap Delims = {}

(* ta_iri_new *)
NewIri == [scheme |-> NoText, user |-> NoText, host |-> NoText, port |-> 0,
           path |-> NoText, query |-> NoText, fragment |-> NoText]
-----------------------------------------------------------------------------
(* ta_iri_to_string: first how much it allocates, then what it writes.      *)
Size(field) == Len(Text(field))
Extra(field) == Len(field)      \* the delimiter of a field that is there

Sizes(i) == Size(i.scheme) + Size(i.user) + Size(i.host) + Size(i.path)
            + Size(i.query) + Size(i.fragment)
Delimiters(i) == Extra(i.user) + Extra(i.query) + Extra(i.fragment)
                 + (IF i.port # 0 THEN 1 ELSE 0)

Room_NoSlashes(i) == Sizes(i) + 4 + Delimiters(i) + 1
Room(i) == Sizes(i) + (3 + 4) + Delimiters(i) + 1

Decimal(n) ==
  LET D[k \in 0..n] == IF k < 10 THEN <<Digit[k + 1]>>
                       ELSE D[k \div 10] \o <<Digit[(k % 10) + 1]>>
  IN  D[n]

EndedBy(field, delimiter) == IF field = NoText THEN <<>> ELSE Text(field) \o delimiter
LedBy(delimiter, field) == IF field = NoText THEN <<>> ELSE delimiter \o Text(field)

Printed(i) ==
  Text(i.scheme)
  \o (IF i.host = NoText THEN <<":">>
      ELSE IF i.scheme # NoText THEN <<":", "/", "/">> ELSE <<>>)
  \o EndedBy(i.user, <<"@">>)
  \o Text(i.host)
  \o (IF i.port # 0 THEN <<":">> \o Decimal(i.port) ELSE <<>>)
  \o Text(i.path)
  \o LedBy(<<"?">>, i.query)
  \o LedBy(<<"#">>, i.fragment)
-----------------------------------------------------------------------------
(* ta_iri_set_from_string.  strchr, from a position and for several         *)
(* characters, and strndup, between two positions.                          *)
Find(s, from, chars) ==
  LET at == {k \in from..Len(s) : s[k] \in chars}
  IN  IF at = {} THEN 0 ELSE Min(at)
Between(s, from, past) == SubSeq(s, from, past - 1)

ValueOf(digit) == CHOOSE k \in 0..9 : Digit[k + 1] = digit
Number(digits) ==
  LET N[k \in 0..Len(digits)] == IF k = 0 THEN 0 ELSE 10 * N[k - 1] + ValueOf(digits[k])
  IN  N[Len(digits)]

(* The scheme: letters, digits and -+. up to the first colon.               *)
Colon(s) == Find(s, 1, {":"})
SchemeOK(s) ==
  /\ s # <<>> /\ s[1] \in Alphas
  /\ Colon(s) # 0
  /\ \A k \in 1..Colon(s) - 1 : s[k] \in SchemeChars

SlashesAt(s, from) == from < Len(s) /\ s[from] = "/" /\ s[from + 1] = "/"

(* The port: a colon that comes before the query and the fragment, and the  *)
(* digits behind it.                                                        *)
PortColon_Anywhere(s, from) == Find(s, from, {":"})
PortColon(s, from) ==
  LET stop == Find(s, from, {":", "?", "#"})
  IN  IF stop # 0 /\ s[stop] = ":" THEN stop ELSE 0
PortDigits(s, from) ==
  LET other == {k \in from..Len(s) : s[k] \notin Digits}
  IN  Between(s, from, IF other = {} THEN Len(s) + 1 ELSE Min(other))

(* Where a text with a scheme is cut.  The query begins at the first `?',   *)
(* the fragment at the `#' behind it or, without one, at the first `#'.  In *)
(* the authority, which begins behind `//', the user ends at the `@', and   *)
(* the path begins at the slash.                                            *)
Cuts(s) ==
  LET colon == Colon(s)
      mark == Find(s, colon, {"?"})
      start == IF SlashesAt(s, colon + 1) THEN colon + 3 ELSE 0
      at == IF start = 0 THEN 0 ELSE Find(s, start, {"@"})
      host == IF at = 0 THEN start ELSE at + 1
  IN  [colon |-> colon, mark |-> mark,
       hash |-> Find(s, IF mark = 0 THEN colon ELSE mark + 1, {"#"}),
       start |-> start, at |-> at, host |-> host,
       port |-> IF start = 0 THEN 0 ELSE PortColon(s, host),
       slash |-> IF start = 0 THEN 0 ELSE Find(s, start, {"/"})]

UpTo(s, from, cut) == Between(s, from, IF cut = 0 THEN Len(s) + 1 ELSE cut)
Query(s, c) == UpTo(s, c.mark + 1, c.hash)
Path(s, c) == UpTo(s, c.slash, Find(s, c.slash, {"?", "#"}))

(* The host ends at the first of these that is there, in this order; one    *)
(* that is none, or comes before the host, gives a length that wraps round, *)
(* with which strndup takes all there is.                                   *)
HostEnd(c) ==
  IF c.port # 0 THEN c.port ELSE IF c.mark # 0 THEN c.mark
  ELSE IF c.hash # 0 THEN c.hash ELSE c.slash
Host(s, c) == UpTo(s, c.host, IF HostEnd(c) < c.host THEN 0 ELSE HostEnd(c))

(* What a text that is not refused sets, in an IRI that may hold something; *)
(* what the text does not have is left alone.                               *)
Scheme(i, s, c) ==
  [i EXCEPT !.scheme = Some(Between(s, 1, c.colon)),
            !.query = IF c.mark = 0 THEN @ ELSE Some(Query(s, c)),
            !.fragment = IF c.hash = 0 THEN @ ELSE Some(UpTo(s, c.hash + 1, 0))]
User(i, s, c) ==
  [Scheme(i, s, c) EXCEPT !.user = IF c.at = 0 THEN @ ELSE Some(Between(s, c.start, c.at))]
Authority(i, s, c) ==
  [User(i, s, c) EXCEPT
    !.port = IF c.port = 0 THEN @ ELSE Number(PortDigits(s, c.port + 1)),
    !.path = IF c.slash = 0 THEN @ ELSE Some(Path(s, c)),
    !.host = Some(Host(s, c))]
Opaque(i, s, c) ==
  [Scheme(i, s, c) EXCEPT
    !.path = Some(UpTo(s, c.colon + 1, IF c.mark # 0 THEN c.mark ELSE c.hash))]

(* The outcome and the IRI.  A scheme that is refused changes nothing, a    *)
(* port without digits is noticed when half of the fields are set.          *)
Outcome(ok, i) == [ok |-> ok, iri |-> i]
FromString(i, s) ==
  LET c == Cuts(s) IN
  IF ~SchemeOK(s) THEN Outcome(FALSE, i)
  ELSE IF c.start = 0 THEN Outcome(TRUE, Opaque(i, s, c))
  ELSE IF c.port # 0 /\ PortDigits(s, c.port + 1) = <<>> THEN Outcome(FALSE, User(i, s, c))
  ELSE Outcome(TRUE, Authority(i, s, c))
=============================================================================
