-------------------------- MODULE MCBrokerDecide --------------------------
(* BrokerDecide on small instances: what a sandbox may ask for, how the    *)
(* callers of decide() ask it, and a rule list with an overlap.            *)
EXTENDS BrokerDecide, TLC

CONSTANTS s1, s2, r1, r2, r3

\* A root command (never for the session), and two recordings in the same
\* deny-all group (one of them by index: never for the session).
MCKey == {"root", "monitor", "numbered"}
MCSessionKey == {"monitor"}
MCConnKey == {"root"} \cap Key
MCDenyKey == {"outputs"}
MCDenyOf == [k \in MCKey |-> IF k = "root" THEN NoDeny ELSE "outputs"]

\* The recordings only: everything that touches the two session tables.
MCRecKey == {"monitor", "numbered"}
MCRecSessionKey == {"monitor"}
MCRecDenyOf == [k \in MCRecKey |-> "outputs"]

NoRules == [s \in Sandbox |-> <<>>]

\* s1: for "numbered" the second rule is shadowed by the first.
SomeRules ==
  [s \in Sandbox |->
     IF s = s1
     THEN <<[covers |-> {"numbered"}, action |-> "prompt"],
            [covers |-> {"numbered", "root"}, action |-> "deny"]>>
     ELSE <<[covers |-> {"monitor"}, action |-> "allow"]>>]

Symmetry == Permutations(Request)
=============================================================================
