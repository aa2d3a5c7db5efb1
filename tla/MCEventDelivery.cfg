\* Transactions commit in any order; a mailbox of one and a replay of at most two; two
\* schedulers overlap and one pass may be undone.
SPECIFICATION SpecDelivery
CONSTANTS
  c1 = c1
  s1 = s1
  s2 = s2
  MaxEvents = 3
  Clients = {c1}
  Buffer = 1
  PollLimit = 2
  ReplayLimit = 2
  MaxRestarts = 1
  Relays = {s1, s2}
  BatchSize = 1
  MaxLost = 1
CHECK_DEADLOCK FALSE
INVARIANTS
  LossIsAnnounced
  PublishedOnce
PROPERTIES
  ReplayThenLiveAscends
  EventReachesPage
  OutboxDrains
