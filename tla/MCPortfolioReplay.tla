------------------------- MODULE MCPortfolioReplay -------------------------
EXTENDS PortfolioReplay

CONSTANT unknown

\* Two items on one instrument and a third that names none.
BarTimes == <<{1, 2, 4}, {1, 2}, {2, 3}>>
Symbols == <<"X", "X", unknown>>
Prices == <<2, 1, 3>>
Shares == <<50, 30, 20>>

RunPlans ==
  {[compound |-> TRUE,  block |-> TRUE,  cap |-> -1],
   [compound |-> FALSE, block |-> FALSE, cap |-> -1],
   [compound |-> TRUE,  block |-> FALSE, cap |-> 7]}
None == -1
Carries == {-1, 1}
Results == {-4, 3}
Orders == {1, 6}
=============================================================================
