SPECIFICATION Spec
SYMMETRY Symmetric
CONSTANTS
  r1 = r1
  w1 = w1
  w2 = w2
  Runs = {r1}
  Workers = {w1, w2}
  NoRun = NoRun
  Items = 1
  MaxAttempts = 2
  MaxMessages = 2
  MaxLosses = 1
  MaxRecoveries = 3
  MaxEvents = 6
  SingleDelivery = FALSE
CHECK_DEADLOCK FALSE
INVARIANTS
  OneResultPerRun
  QueuedCancelIsFinal
