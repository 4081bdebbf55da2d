--------------------------- MODULE MCPolkitAgent ---------------------------
(* PolkitAgent with BrokerAuth on small instances: two requests of the      *)
(* agent for one process, with nothing but polkit to end them; one of them  *)
(* beside another program's, with deadlines; and three of other programs    *)
(* while the clock runs, of one sandbox or of two.                          *)
EXTENDS PolkitAgent

CONSTANTS s1, s2, r1, r2, r3, a1

MCAppOf == [r \in Request |-> a1]
By(a, b, c) == [r \in Request |-> CASE r = r1 -> a [] r = r2 -> b [] r = r3 -> c]
MCMix ==
  {[who |-> By("agent", "agent", "nobody"), of |-> By(s1, s1, s1),
    timed |-> FALSE, deadlines |-> FALSE],
   [who |-> By("agent", "other", "nobody"), of |-> By(s1, s1, s1),
    timed |-> FALSE, deadlines |-> TRUE]}
  \cup {[who |-> By("other", "other", "other"), of |-> By(s1, s1, s),
         timed |-> TRUE, deadlines |-> TRUE] : s \in {s1, s2}}
=============================================================================
