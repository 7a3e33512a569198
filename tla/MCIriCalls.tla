----------------------------- MODULE MCIriCalls ------------------------------
(* Texts and fields for IriCalls.  The fields have delimiters of other      *)
(* parts.  The texts have the same fields: all of them, a host and nothing  *)
(* else, a host that takes the path in, no authority, no digits behind the  *)
(* colon of a port, and two without a scheme.                               *)
EXTENDS IriCalls, TLC

SameThreads == Permutations(Threads)

AUser == <<"b", ":">>
AQuery == <<":", "?">>
AFragment == <<"@", "/">>
ToHost == <<"a", ":", "/", "/">> \o AUser \o <<"@", "b">>
AMark == <<"?">> \o AQuery
AHash == <<"#">> \o AFragment

SomeTexts ==
  { ToHost \o <<":", "1", "0", "0", "/">> \o AMark \o AHash,
    <<"a", ":", "/", "/", "b">>,
    ToHost \o <<"/">> \o AMark,
    <<"a", ":", "/">> \o AMark,
    ToHost \o <<":">> \o AMark \o AHash,
    <<"1", ":", "/">>,
    <<"a">> \o AMark }

SomeValues ==
  [scheme |-> {Some(<<"a">>)}, user |-> {Some(AUser)}, host |-> {Some(<<"b">>)},
   port |-> {100}, path |-> {Some(<<"/">>), Some(<<"/", "@", ":">>)},
   query |-> {Some(AQuery)}, fragment |-> {Some(AFragment)}]
=============================================================================
