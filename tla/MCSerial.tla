------------------------------ MODULE MCSerial ------------------------------
(* Serial on small instances: model values, and their symmetries.          *)
EXTENDS Serial, TLC

CONSTANTS p1, p2, p3, o1, o2, d1, d2, m1, n1, n2, s1, s2

PassSymmetry == Permutations(Pass)

StoreSymmetry == Permutations(Pass) \cup Permutations(Store)
=============================================================================
