\* One command with up to three jobs and one dead letter to replay; three
\* processes that share a worker id, and two readings of the clock; the driver gives
\* the generation as a number, so that the operations can succeed.
CONSTANTS
  c1 = c1
  c2 = c2
  j1 = j1
  j2 = j2
  j3 = j3
  d1 = d1
  d2 = d2
  p1 = p1
  p2 = p2
  p3 = p3
  worker = worker
  None = None
  Commands = {c1}
  JobIds = {j1, j2, j3}
  DeadLetterIds = {d1}
  Processes = {p1, p2, p3}
  WorkerIds = {worker}
  WorkerIdOf <- SharedId
  Times = {1, 2}
  MaxGeneration = 2
  Int8AsNumber = TRUE
SPECIFICATION Spec
CHECK_DEADLOCK FALSE
INVARIANTS
  Invariant
  OneHolder
  OneLogicalCommand
  NothingLost
PROPERTIES
  TerminalStays
  ImplementsLogicalCommands
