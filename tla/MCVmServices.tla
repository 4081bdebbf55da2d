---------------------------- MODULE MCVmServices ----------------------------
(***************************************************************************)
(* The services on small instances.  Requests for folders come one after   *)
(* another for the same folder, for two folders, and for one folder in     *)
(* both modes.                                                             *)
(***************************************************************************)
EXTENDS VmServices, MCDnsAllow

CONSTANTS c1, c2, n1, n2, h1, g1, g2, g3, f1, f2

MCCid == {c1, c2}
MCNonce == {n1, n2}
MCHostNonce == {h1}

Asking(second, third, mode2, mode3) ==
  [folder |-> (g1 :> f1) @@ (g2 :> second) @@ (g3 :> third),
   mode |-> (g1 :> "rw") @@ (g2 :> mode2) @@ (g3 :> mode3)]

MCAsks == { Asking(f1, f1, "rw", "rw"), Asking(f2, f1, "ro", "rw"),
            Asking(f1, f2, "ro", "rw") }
=============================================================================
