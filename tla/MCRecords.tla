------------------------------ MODULE MCRecords ------------------------------
(* Three requests on three accounts, or two commands and two workers on a dataset. *)
EXTENDS Records, TLC

CONSTANTS legacy, alice, bob, a1, a2, a3, k1, c1, c2, w1, w2

\* Requests, commands and workers are interchangeable.
Symmetry == Permutations(Reqs) \cup Permutations(Cmds) \cup Permutations(Workers)
=============================================================================
