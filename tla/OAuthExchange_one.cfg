\* One attempt, two codes for its state, two actors and three workers with three mishaps:
\* a run dies, or its lease lapses while it works.
CONSTANTS
  Attempts = {a1}
  Actors = {owner, other}
  Codes = {c1, c2}
  Workers = {w1, w2, w3}
  MaxMishaps = 3
  None = none
SPECIFICATION FairSpec
INVARIANTS
  RunsAgree
  SingleGrant
  GrantsAreEarned
PROPERTIES
  SettledStays
  CommandsSettle
