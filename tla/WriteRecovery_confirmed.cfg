CONSTANTS
  c1 = c1
  c2 = c2
  a1 = a1
  a2 = a2
  w1 = w1
  w2 = w2
  w3 = w3
  o1 = o1
  o2 = o2
  None = None
  Commands = {c1}
  Attempts = {a1}
  Workers = {w1}
  Operators = {o1}
  NumSteps = 4
  PlanOf <- OneDestination
SPECIFICATION Spec
INVARIANTS
  SucceededWasSent
