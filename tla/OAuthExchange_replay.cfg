\* The code sent again after a lapsed lease.
CONSTANTS
  Attempts = {a1}
  Actors = {owner}
  Codes = {c1}
  Workers = {w1, w2}
  MaxMishaps = 1
  None = none
SPECIFICATION Spec
PROPERTIES
  NoBlindReplay
