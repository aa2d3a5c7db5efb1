CONSTANTS
  unknown = unknown
  N = 3
  Streams <- BarTimes
  Instrument <- Symbols
  Unknown = unknown
  Price <- Prices
  Share <- Shares
  Whole = 100
  Pool = 12
  Reserve = 2
  Plans <- RunPlans
  NoCap <- None
  Fee = 1
  Fundings <- Carries
  Gains <- Results
  Sizes <- Orders
  StaleAfter = 1
SPECIFICATION SpecPortfolio
INVARIANTS
  LedgersAgree
  ConflictsLeaveOneSide
  CurveIsSound
PROPERTY
  ImplementsPool
