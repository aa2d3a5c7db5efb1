SPECIFICATION FairSpec
CONSTANTS
  r1 = r1
  r2 = r2
  w1 = w1
  w2 = w2
  Runs = {r1, r2}
  Workers = {w1, w2}
  NoRun = NoRun
  Items = 1
  MaxAttempts = 3
  MaxMessages = 2
  MaxLosses = 2
  MaxRecoveries = 3
  MaxEvents = 12
  SingleDelivery = TRUE
CHECK_DEADLOCK FALSE
INVARIANTS
  RunJobAndResultAgree
  StreamTellsTheState
PROPERTIES
  ImplementsLifecycle
  AdmittedRunEnds
  TimelyCancelIsHonored
