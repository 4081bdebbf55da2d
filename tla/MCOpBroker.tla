----------------------------- MODULE MCOpBroker -----------------------------
(* OpBroker on a small instance: two browsers, a vault of two logins, and  *)
(* requests that match one, two, or none of them.                          *)
EXTENDS OpBroker, TLC

CONSTANTS w1, w2, w3, c1, c2, c3, l1, l2, l3, l4

Https(name) == [scheme |-> "https", host |-> name, port |-> "default"]
Site == Https(<<"site", "com">>)
Sub == Https(<<"gist", "site", "com">>)
Local == Https(<<"localhost">>)
MCSaved == 1 :> {Site} @@ 2 :> {Sub, Local}

\* The second matches both, the third neither: below a host of one label.
MCLine == {[origin |-> Site, top |-> Site, want |-> {"password"}],
           [origin |-> Sub, top |-> None, want |-> {"username", "password"}],
           [origin |-> Https(<<"x", "localhost">>), top |-> None, want |-> {"password"}]}

\* Two connections of one browser, as time passes; or one each of two.
One == c1 :> w1 @@ c2 :> w1
Two == c1 :> w1 @@ c2 :> w2
MCWhose == {One, Two}
MCMaxTime == One :> 2 @@ Two :> 0

MCUpWho == c1 :> w1 @@ c2 :> w2 @@ c3 :> w3
=============================================================================
