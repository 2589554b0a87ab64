---------------------------- MODULE MCDraftChain ----------------------------
(* Instances of DraftChain for TLC. *)
EXTENDS DraftChain, TLC

CONSTANTS r1, r2, r3, r4, r5, x1
=============================================================================
