----------------------------- MODULE MCPrograms -----------------------------
(* Programs on a small instance: the broker's requests share only the      *)
(* running units.                                                          *)
EXTENDS Programs

CONSTANTS r1, r2, u1, u2
=============================================================================
