----------------------------- MODULE MCAtomFeed ------------------------------
(* Documents for AtomFeed: each required field there and missing, each IRI   *)
(* absent, well-formed and ill-formed.                                       *)
EXTENDS AtomFeed

SomeHeads ==
  [file : {TRUE}, root : {"feed"}, id : Texts, title : BOOLEAN]
  \cup {[file |-> f, root |-> "entry", id |-> "junk", title |-> TRUE] : f \in BOOLEAN}

Parts == {Part("author", FALSE, "none"), Part("author", TRUE, "none"),
          Part("author", TRUE, "junk"), Part("category", TRUE, "iri")}
Replies == {Reply(r, h, s, FALSE) : r \in {"iri", "junk"}, h, s \in Texts}
           \cup {Reply("junk", "iri", "none", TRUE), Reply("none", "none", "none", FALSE)}

SomeEntries ==
  {EmptyEntry, Entry("none", TRUE, TRUE, "none", <<>>), Entry("iri", TRUE, TRUE, "none", <<>>),
   Entry("junk", FALSE, TRUE, "none", <<>>), Entry("junk", TRUE, TRUE, "junk", <<>>)}
  \cup {Entry("junk", TRUE, FALSE, src, <<>>) : src \in Texts}
  \cup {Entry("junk", TRUE, TRUE, "none", <<p>>) : p \in Parts \cup Replies}
  \cup {Entry("junk", TRUE, TRUE, "none",
               <<Reply("iri", "none", "none", FALSE), Part("author", TRUE, "none")>>)}
  \cup {Entry("junk", TRUE, TRUE, "none", <<p, q>>) :
          p \in {Reply("junk", "iri", "none", FALSE), Part("author", TRUE, "none")},
          q \in {Reply("iri", "none", "none", FALSE), Part("category", TRUE, "junk"), Blank}}

SomeKids == Parts \cup SomeEntries \cup {Other, Blank}
=============================================================================
