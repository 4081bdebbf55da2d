------------------------- MODULE MCBrokerClipboard -------------------------
(* BrokerClipboard on small instances. *)
EXTENDS BrokerClipboard

CONSTANTS s1, s2, r1, r2, r3

MCSandbox == {s1, s2}
MCThreeRequests == {r1, r2, r3}

MCNoFaults == {}
MCWlCopyFails == {"wlcopy"}
=============================================================================
