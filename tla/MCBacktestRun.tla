---------------------------- MODULE MCBacktestRun ----------------------------
(* The run plane instantiated for TLC. *)
EXTENDS BacktestRun, TLC

Symmetric == Permutations(Runs) \cup Permutations(Workers)
==============================================================================
