---------------------------- MODULE MCClipGuest ----------------------------
(* ClipGuest with BrokerClipboard on small instances: three requests of     *)
(* any programs, or two of them the VM's client's.                          *)
EXTENDS ClipGuest, TLC, FiniteSetsExt

CONSTANTS s1, s2, r1, r2, r3, i1, i2

MCThreeRequests == {r1, r2, r3}
MCMix ==
  {[client |-> {}, other |-> Request]}
  \cup {[client |-> m, other |-> {}] : m \in kSubset(2, Request)}
MCAllFaults == FaultKinds
MCSymmetry == Permutations(Request) \cup Permutations(Id)
=============================================================================
