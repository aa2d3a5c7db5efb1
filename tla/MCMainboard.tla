---------------------------- MODULE MCMainboard ----------------------------
EXTENDS Mainboard, TLC

CONSTANTS i1, i2, r1, q1, q2

Symmetry == Permutations(Items) \cup Permutations(Requests)
=============================================================================
