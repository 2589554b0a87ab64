------------------------------ MODULE MCLinks ------------------------------
(* Instances of Links for TLC. *)
EXTENDS Links, TLC

CONSTANTS l1, l2, l3, r1, r2, r3, r4
=============================================================================
