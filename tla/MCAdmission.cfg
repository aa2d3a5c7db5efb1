SPECIFICATION Spec
CONSTANTS
  i1 = i1
  i2 = i2
  i3 = i3
  r1 = r1
  r2 = r2
  q1 = q1
  Items = {i1, i2, i3}
  Requests = {q1}
  RootOf <- Board
  Pins = {1, 2}
  Invalid <- InvalidPins
  Drafts <- CapitalDrafts
  MaxVersion = 3
  MaxReports = 1
  MaxRuns = 1
  MaxChanges = 3
CHECK_DEADLOCK FALSE
INVARIANTS
  AdmittedRunIsSound
  RunIsWhatWasChecked
