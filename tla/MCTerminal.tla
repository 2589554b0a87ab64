----------------------------- MODULE MCTerminal -----------------------------
(* Instances of Terminal for TLC. *)
EXTENDS Terminal, TLC

CONSTANTS t1, t2, d1, r1, r2, r3, k1, k2
=============================================================================
