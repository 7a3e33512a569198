---------------------------- MODULE MCXmppClient ----------------------------
(* Values for the constants of XmppClient that a .cfg cannot write down.     *)
EXTENDS XmppClient, TLC

CONSTANTS w1, w2, id1

WatchSymmetry == Permutations({w1, w2})

(* Features a server offers on a new stream: one mechanism, both, none that  *)
(* the client knows, or one together with what is only good for later.       *)
AllSaslOffers == {{"md5"}, {"plain", "md5"}, {"plain", "bind"}, {}}
AllSessionOffers == {{"bind", "session"}, {"session"}, {"bind"},
                     {"plain", "bind", "session"}}

(* What a server that wants the client to get through offers.                *)
GoodSaslOffers == {{"md5", "plain"}, {"plain", "bind", "session"}}
GoodSessionOffers == {{"bind", "session"}, {"session"}, {"plain", "bind", "session"}}
=============================================================================
