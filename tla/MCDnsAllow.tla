----------------------------- MODULE MCDnsAllow -----------------------------
(* DnsAllow on a small instance: a host that moves between two networks,    *)
(* two rules for the same names, one with a deny of its own and a pattern   *)
(* for its unit.                                                            *)
EXTENDS DnsAllow, TLC

CONSTANTS a1, a2, a3, u1, u2

MCLans == {{a1}, {a2}}
MCUnitsOf == (1 :> {u1}) @@ (2 :> {u2})
MCDenies == (1 :> {a2}) @@ (2 :> {a1})
MCLookup == {[rules |-> {1, 2}, addrs |-> {a1, a2, a3}]}
=============================================================================
