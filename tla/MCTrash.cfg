SPECIFICATION FairSpec
CONSTANTS
  r1 = r1
  r2 = r2
  w1 = w1
  w2 = w2
  Runs = {r1, r2}
  Workers = {w1, w2}
  SingleDelivery = TRUE
  MaxDeletes = 3
  MaxPurges = 2
  MaxHead = 1
  MaxLost = 2
CHECK_DEADLOCK FALSE
INVARIANT
  TrashTellsTheRoot
PROPERTIES
  FollowsStateMachine
  PurgeJobEnds
