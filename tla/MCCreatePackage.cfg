SPECIFICATION SpecPackages
CONSTANTS
  q1 = q1
  Submits = {q1}
  Claims = TRUE
  MaxJobs <- JobBounds
  MaxRevisions = 2
  MaxUploads = 2
CHECK_DEADLOCK FALSE
INVARIANT
  EvidenceIsItsOwn
PROPERTIES
  PublishesWhatHolds
  EndedStaysEnded
  AdmittedWorkEnds
