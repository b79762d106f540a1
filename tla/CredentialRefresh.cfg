\* A shop bound to up to two subjects, two processes, four connections or
\* rotations and two failures.
CONSTANTS
  Subjects = {s1, s2}
  Processes = {p1, p2}
  MaxRotations = 4
  MaxFailures = 2
  None = none
SPECIFICATION FairSpec
INVARIANTS
  TypeOK
  CurrentToken
  FencedIsNotAsked
  FencedTogether
  ServedIsCommitted
PROPERTIES
  FencedStays
  RequestsAnswered
