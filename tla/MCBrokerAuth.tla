---------------------------- MODULE MCBrokerAuth ----------------------------
(* BrokerAuth on small instances. *)
EXTENDS BrokerAuth

CONSTANTS s1, s2, r1, r2, r3

MCOneSandbox == {s1}
MCTwoSandboxes == {s1, s2}
MCThreeRequests == {r1, r2, r3}
=============================================================================
