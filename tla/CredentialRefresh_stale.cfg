\* A rotation that is rolled back, and the next refresh.
CONSTANTS
  Subjects = {s1}
  Processes = {p1, p2}
  MaxRotations = 3
  MaxFailures = 1
  None = none
SPECIFICATION Spec
INVARIANTS
  NoStaleRetry
