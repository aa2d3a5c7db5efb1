SPECIFICATION Spec
SYMMETRY Symmetric
CONSTANTS
  j1 = j1
  j2 = j2
  w1 = w1
  w2 = w2
  q1 = q1
  q2 = q2
  clean = clean
  doubtful = doubtful
  Jobs = {j1, j2}
  Workers = {w1, w2}
  Requests = {q1, q2}
  CleanFiles = {clean}
  DoubtfulFiles = {doubtful}
  BrokenFiles = {}
  NoJob = NoJob
  NoFile = NoFile
  MaxRevisions = 2
  MaxSends = 2
CHECK_DEADLOCK FALSE
INVARIANTS
  OneAnalysisPerJob
  VerificationIsEarned
