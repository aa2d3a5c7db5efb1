---------------------------- MODULE MCMarketData ----------------------------
EXTENDS MarketData, TLC

Symmetric == Permutations(Jobs) \cup Permutations(Workers) \cup Permutations(Requests)
=============================================================================
