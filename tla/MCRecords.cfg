SPECIFICATION SpecRecords
CONSTANTS
  legacy = legacy
  alice = alice
  bob = bob
  a1 = a1
  a2 = a2
  a3 = a3
  k1 = k1
  NoKey = NoKey
  Users = {legacy, alice, bob}
  Seeded = {legacy, alice}
  Bootstrap = {alice, bob}
  Reqs = {a1, a2, a3}
  Keys = {k1}
  Wanted = {"admin", "supervisor"}
  MaxVersion = 3
  c1 = c1
  c2 = c2
  w1 = w1
  w2 = w2
  Cmds = {c1, c2}
  Workers = {w1, w2}
  MaxRevs = 2
  MaxJobs = 2
  MaxBundles = 1
SYMMETRY Symmetry
CHECK_DEADLOCK FALSE
INVARIANT
  OneRunPerJob
PROPERTIES
  AdministrationRemains
  ChangesAreAsked
  PinnedEvidenceHolds
