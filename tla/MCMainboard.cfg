SPECIFICATION Spec
CONSTANTS
  i1 = i1
  i2 = i2
  r1 = r1
  q1 = q1
  q2 = q2
  Items = {i1, i2}
  Roots = {r1}
  Requests = {q1, q2}
  None = None
  MaxHead = 2
  MaxVersion = 2
  MaxReports = 2
  MaxChanges = 2
CHECK_DEADLOCK FALSE
SYMMETRY Symmetry
INVARIANT
  FingerprintIsKept
PROPERTY
  NothingIsOverwritten
