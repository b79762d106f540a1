\* The answer to a late duplicate of an accepted callback.
CONSTANTS
  Attempts = {a1}
  Actors = {owner}
  Codes = {c1}
  Workers = {w1, w2}
  MaxMishaps = 1
  None = none
SPECIFICATION Spec
INVARIANTS
  DuplicateReadsResult
