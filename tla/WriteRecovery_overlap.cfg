CONSTANTS
  c1 = c1
  c2 = c2
  a1 = a1
  a2 = a2
  w1 = w1
  w2 = w2
  w3 = w3
  o1 = o1
  o2 = o2
  None = None
  Commands = {c1, c2}
  Attempts = {a1, a2}
  Workers = {w1, w2}
  Operators = {o1}
  NumSteps = 2
  PlanOf <- Overlapping
SPECIFICATION Spec
SYMMETRY Symmetry
INVARIANTS
  PlanIsWhole
  GateHolds
