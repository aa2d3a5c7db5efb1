CONSTANTS
  Configs <- Strategies
  Bars <- BarsAround10
  MaxBars = 6
SPECIFICATION SpecReplay
CHECK_DEADLOCK FALSE
INVARIANTS
  PositionIsAccounted
  FillsAreHonest
PROPERTY
  ProtectionRatchets
